-------------------------- MODULE StripboardProofs --------------------------
(***************************************************************************)
(* What is proved of the schedule, for any number of boards, any versions    *)
(* of the script and any length of a day: no scene is lost from a board or   *)
(* put on it twice, and what is stored is one board, however saves overlap.  *)
(***************************************************************************)
EXTENDS Stripboard, OrdersProofs

SceneLists == {SceneList(s) : s \in Scripts}
AllKeys == UNION {Keys(scenes) : scenes \in SceneLists}
ShootDay == [strips : Seq(Scenes), notes : 0..MaxMoves]

(* A board has the scenes it was opened with, all of them by their headings, and   *)
(* if headings differ, each at one place.                                          *)
Placed(days, scenes) ==
  /\ \A p \in PlacesOn(days) : StripAt(days, p) \in ToSet(scenes)
  /\ \A x \in ToSet(scenes) : \E p \in PlacesOn(days) : StripAt(days, p).key = x.key
  /\ DistinctKeys(scenes) => OncePlaced(days)

BoardState ==
  [phase : {"closed", "loading", "shown"}, scenes : SceneLists \union {<<>>},
   days : Seq(ShootDay), suggested : BOOLEAN, again : BOOLEAN, unsaved : BOOLEAN]

Boards ==
  /\ board \in [Clients -> BoardState]
  /\ \A c \in Clients : OnBoard(c) => Placed(board[c].days, board[c].scenes)

StripRow == [key : AllKeys, day : Nat \ {0}, position : Nat, save : 1..saves]
DayRow == [day : Nat \ {0}, notes : 0..MaxMoves, save : 1..saves]

Get == [verb : {"get"}, client : Clients, stage : {"sent", "strips", "both"},
        strips : SUBSET StripRow, days : SUBSET DayRow]
Put == [verb : {"put"}, stage : {"sent", "strips", "days"}, strips : SUBSET StripRow,
        days : SUBSET DayRow, seen : SUBSET StripRow, seenDays : SUBSET DayRow, distinct : BOOLEAN]

DaysApart(X) == \A m, n \in X : m.day = n.day => m = n
KeysApart(X) == \A a, b \in X : a.key = b.key => a = b

Counts ==
  /\ saves \in Nat /\ moves \in Nat
  /\ boardHistory \in [finished : Nat, crossed : BOOLEAN, by : SUBSET Clients]

Tables ==
  /\ strips \subseteq StripRow /\ IsFiniteSet(strips) /\ KeysApart(strips)
  /\ dayMetas \subseteq DayRow /\ DaysApart(dayMetas)
  /\ \A r \in exchanges :
       /\ r \in Get \union Put /\ IsFiniteSet(r.strips)
       /\ r.verb = "get" \/ r.distinct => KeysApart(r.strips)
       /\ r.verb = "put" => DaysApart(r.days)

(* A row is one save's, at its place. *)
AllRows == strips \union UNION {r.strips : r \in exchanges}
SamePlace(a, b) == a.day = b.day /\ a.position = b.position /\ a.save = b.save
Identified == \A a, b \in AllRows : SamePlace(a, b) => a = b

BoardInv == script \in Scripts /\ Counts /\ Boards /\ Tables /\ Identified

-----------------------------------------------------------------------------
OneSave(X) == \A a, b \in X : a.save = b.save
OfOtherSaves(X, Y) == \A a \in X, b \in Y : a.save # b.save
OfOneSaveEach(T) == \A X \in T : OneSave(X) /\ \A Y \in T : X = Y \/ OfOtherSaves(X, Y)

(* The tables, as they are and as a save has seen or will leave them. *)
StripTables == {strips} \union {r.strips : r \in Puts} \union {r.seen : r \in Puts}
DayTables == {dayMetas} \union {r.days : r \in Puts} \union {r.seenDays : r \in Puts}

HasScenes(X) == X = {} \/ \E s \in SceneLists : {a.key : a \in X} = Keys(s)
HasDayOne(X) == X = {} \/ \E m \in X : m.day = 1

Whole ==
  /\ OfOneSaveEach(StripTables) /\ \A X \in StripTables : HasScenes(X)
  /\ OfOneSaveEach(DayTables) /\ \A X \in DayTables : HasDayOne(X)
  /\ \A r \in Puts : r.strips # {} /\ r.days # {} /\ OneSave(r.strips \union r.days)
  /\ OneSave(strips \union dayMetas)

(* A board that is not closed has the scenes of a version, and a load is of such a board. *)
OpenBoards ==
  /\ \A c \in Clients : board[c].phase # "closed" => board[c].scenes \in SceneLists
  /\ \A r \in exchanges : r.verb = "get" => board[r.client].phase # "closed"

-----------------------------------------------------------------------------
(* While no save overlaps another there is one at a time, and it sees all that is *)
(* stored.                                                                       *)
OneAtATime ==
  ~boardHistory.crossed =>
    /\ \A q, r \in Puts : q = r
    /\ \A r \in Puts : (r.stage # "sent" => r.seen = strips) /\ (r.stage = "days" => r.seenDays = dayMetas)

(* A load is of a board that waits for it, and who has saved last is on the board. *)
Loading ==
  /\ losses \in Nat
  /\ \A r \in exchanges : r.verb = "get" => board[r.client].phase = "loading"
  /\ \A q, r \in exchanges : q.verb = "get" /\ r.verb = "get" /\ q.client = r.client => q = r
  /\ \A c \in boardHistory.by : OnBoard(c)

SavedAs(rows, metas, days) ==
  \E save \in 1..saves : rows = StripRows(days, save) /\ metas = DayRows(days, save)

(* The board that was saved last is stored, or on its way. *)
LastSave ==
  ~boardHistory.crossed /\ losses = 0 =>
    \A c \in boardHistory.by : ~board[c].unsaved /\ DistinctKeys(board[c].scenes) =>
      IF Puts = {} THEN SavedAs(strips, dayMetas, board[c].days)
      ELSE \A r \in Puts : r.distinct /\ SavedAs(r.strips, r.days, board[c].days)

-----------------------------------------------------------------------------
(* Places on a board are pairs of a day and a number. *)
LEMMA PlacePairs ==
  ASSUME NEW days
  PROVE  /\ \A d, i : <<d, i>> \in PlacesOn(days) <=> d \in DOMAIN days /\ i \in DOMAIN days[d].strips
         /\ \A p \in PlacesOn(days) : \E d, i : d \in DOMAIN days /\ i \in DOMAIN days[d].strips /\ p = <<d, i>>
         /\ \A d, i : StripAt(days, <<d, i>>) = days[d].strips[i]
<1>1. \A p : p \in PlacesOn(days) <=> \E d \in DOMAIN days : p \in {d} \X (DOMAIN days[d].strips)
  BY DEF PlacesOn
<1>2. QED
  BY <1>1 DEF StripAt

(* Placed, day by day. *)
Stands(days, S) == \A d \in DOMAIN days : \A i \in DOMAIN days[d].strips : days[d].strips[i] \in S
Shows(days, k) == \E d \in DOMAIN days : \E i \in DOMAIN days[d].strips : days[d].strips[i].key = k
Once(days) ==
  \A d, e \in DOMAIN days : \A i \in DOMAIN days[d].strips : \A j \in DOMAIN days[e].strips :
    days[d].strips[i].key = days[e].strips[j].key => d = e /\ i = j

LEMMA OnceByDays == \A days : OncePlaced(days) <=> Once(days)
<1> TAKE days
<1>1. ASSUME OncePlaced(days) PROVE Once(days)
  <2>1. ASSUME NEW d \in DOMAIN days, NEW e \in DOMAIN days, NEW i \in DOMAIN days[d].strips,
               NEW j \in DOMAIN days[e].strips, days[d].strips[i].key = days[e].strips[j].key
        PROVE  d = e /\ i = j
    <3>1. <<d, i>> \in PlacesOn(days) /\ <<e, j>> \in PlacesOn(days)
          /\ StripAt(days, <<d, i>>) = days[d].strips[i] /\ StripAt(days, <<e, j>>) = days[e].strips[j]
      BY PlacePairs
    <3>2. <<d, i>> = <<e, j>>
      BY <1>1, <2>1, <3>1 DEF OncePlaced
    <3>3. QED
      BY <3>2
  <2>2. QED
    BY <2>1 DEF Once
<1>2. ASSUME Once(days) PROVE OncePlaced(days)
  <2>1. ASSUME NEW p \in PlacesOn(days), NEW q \in PlacesOn(days), StripAt(days, p).key = StripAt(days, q).key
        PROVE  p = q
    <3>1. PICK d, i : d \in DOMAIN days /\ i \in DOMAIN days[d].strips /\ p = <<d, i>>
      BY PlacePairs
    <3>2. PICK e, j : e \in DOMAIN days /\ j \in DOMAIN days[e].strips /\ q = <<e, j>>
      BY PlacePairs
    <3>3. StripAt(days, p) = days[d].strips[i] /\ StripAt(days, q) = days[e].strips[j]
      BY <3>1, <3>2, PlacePairs
    <3>4. d = e /\ i = j
      BY <1>2, <2>1, <3>1, <3>2, <3>3 DEF Once
    <3>5. QED
      BY <3>1, <3>2, <3>4
  <2>2. QED
    BY <2>1 DEF OncePlaced
<1>3. QED
  BY <1>1, <1>2

LEMMA PlacedByDays ==
  ASSUME NEW days, NEW scenes
  PROVE  Placed(days, scenes) <=>
           /\ Stands(days, ToSet(scenes))
           /\ \A x \in ToSet(scenes) : Shows(days, x.key)
           /\ DistinctKeys(scenes) => Once(days)
<1>1. (\A p \in PlacesOn(days) : StripAt(days, p) \in ToSet(scenes)) <=> Stands(days, ToSet(scenes))
  <2>1. ASSUME \A p \in PlacesOn(days) : StripAt(days, p) \in ToSet(scenes),
               NEW d \in DOMAIN days, NEW i \in DOMAIN days[d].strips
        PROVE  days[d].strips[i] \in ToSet(scenes)
    <3>1. <<d, i>> \in PlacesOn(days) /\ StripAt(days, <<d, i>>) = days[d].strips[i]
      BY PlacePairs
    <3>2. QED
      BY <2>1, <3>1
  <2>2. ASSUME Stands(days, ToSet(scenes)), NEW p \in PlacesOn(days) PROVE StripAt(days, p) \in ToSet(scenes)
    <3>1. PICK d, i : d \in DOMAIN days /\ i \in DOMAIN days[d].strips /\ p = <<d, i>>
      BY PlacePairs
    <3>2. StripAt(days, p) = days[d].strips[i]
      BY <3>1, PlacePairs
    <3>3. QED
      BY <2>2, <3>1, <3>2 DEF Stands
  <2>3. QED
    BY <2>1, <2>2 DEF Stands
<1>2. ASSUME NEW k
      PROVE  (\E p \in PlacesOn(days) : StripAt(days, p).key = k) <=> Shows(days, k)
  <2>1. ASSUME NEW p \in PlacesOn(days), StripAt(days, p).key = k PROVE Shows(days, k)
    <3>1. PICK d, i : d \in DOMAIN days /\ i \in DOMAIN days[d].strips /\ p = <<d, i>>
      BY PlacePairs
    <3>2. StripAt(days, p) = days[d].strips[i]
      BY <3>1, PlacePairs
    <3>3. QED
      BY <2>1, <3>1, <3>2 DEF Shows
  <2>2. ASSUME Shows(days, k) PROVE \E p \in PlacesOn(days) : StripAt(days, p).key = k
    <3>1. PICK d \in DOMAIN days : \E i \in DOMAIN days[d].strips : days[d].strips[i].key = k
      BY <2>2 DEF Shows
    <3>2. PICK i \in DOMAIN days[d].strips : days[d].strips[i].key = k
      BY <3>1
    <3>3. <<d, i>> \in PlacesOn(days) /\ StripAt(days, <<d, i>>).key = k
      BY <3>2, PlacePairs
    <3>4. QED
      BY <3>3
  <2>3. QED
    BY <2>1, <2>2
<1>3. QED
  BY <1>1, <1>2, OnceByDays DEF Placed

(* What a board may become without losing or repeating a scene: its strips stay as  *)
(* they are, all of them, wherever they go.                                       *)
Reordered(new, days) ==
  /\ \A S : Stands(days, S) => Stands(new, S)
  /\ \A k : Shows(days, k) => Shows(new, k)
  /\ Once(days) => Once(new)

LEMMA StillPlaced ==
  ASSUME NEW new, NEW days, Reordered(new, days), NEW scenes, Placed(days, scenes)
  PROVE  Placed(new, scenes)
BY PlacedByDays DEF Reordered

(* A call sheet says nothing of strips. *)
LEMMA SameStrips ==
  ASSUME NEW new, NEW days, DOMAIN new = DOMAIN days,
         \A d \in DOMAIN days : new[d].strips = days[d].strips
  PROVE  Reordered(new, days)
BY DEF Reordered, Stands, Shows, Once

LEMMA NotesWritten ==
  ASSUME NEW days \in Seq(ShootDay), NEW d \in DOMAIN days, NEW n \in 0..MaxMoves
  PROVE  /\ [days EXCEPT ![d].notes = n] \in Seq(ShootDay)
         /\ Reordered([days EXCEPT ![d].notes = n], days)
<1> DEFINE new == [days EXCEPT ![d].notes = n]
<1>1. days[d] \in ShootDay /\ [days[d] EXCEPT !.notes = n] \in ShootDay
      /\ [days[d] EXCEPT !.notes = n].strips = days[d].strips
  <2>1. PICK day \in ShootDay : day = days[d]
    OBVIOUS
  <2>2. [day EXCEPT !.notes = n] \in ShootDay /\ [day EXCEPT !.notes = n].strips = day.strips
    BY DEF ShootDay
  <2>3. QED
    BY <2>1, <2>2
<1>2. new = [days EXCEPT ![d] = [days[d] EXCEPT !.notes = n]]
  OBVIOUS
<1>3. new \in Seq(ShootDay)
  BY <1>1, <1>2
<1>4. DOMAIN new = DOMAIN days /\ \A e \in DOMAIN days : new[e].strips = days[e].strips
  BY <1>1, <1>2
<1>5. QED
  BY <1>3, <1>4, SameStrips

(* An empty day more. *)
LEMMA DayAdded ==
  ASSUME NEW days \in Seq(ShootDay), 0 \in 0..MaxMoves
  PROVE  /\ Append(days, Day(<<>>, 0)) \in Seq(ShootDay)
         /\ Reordered(Append(days, Day(<<>>, 0)), days)
<1> DEFINE new == Append(days, Day(<<>>, 0))
<1>1. Day(<<>>, 0) \in ShootDay /\ Day(<<>>, 0).strips = <<>>
  BY DEF Day, ShootDay
<1>2. new \in Seq(ShootDay) /\ Len(days) \in Nat /\ DOMAIN days = 1..Len(days)
      /\ DOMAIN new = 1..(Len(days) + 1) /\ new[Len(days) + 1] = Day(<<>>, 0)
      /\ \A d \in 1..Len(days) : new[d] = days[d]
  BY <1>1
<1>3. \A d \in DOMAIN days : d \in DOMAIN new /\ new[d] = days[d]
  BY <1>2
<1>4. \A d \in DOMAIN new : \A i \in DOMAIN new[d].strips : d \in DOMAIN days
  <2>1. DOMAIN new[Len(days) + 1].strips = {}
    BY <1>1, <1>2
  <2>2. QED
    BY <1>2, <2>1
<1> HIDE DEF new
<1>5. Reordered(new, days)
  BY <1>3, <1>4 DEF Reordered, Stands, Shows, Once
<1>6. QED
  BY <1>2, <1>5 DEF new

(* An empty day less. *)
LEMMA DayRemoved ==
  ASSUME NEW days \in Seq(ShootDay), NEW d \in DOMAIN days, days[d].strips = <<>>
  PROVE  RemoveAt(days, d) \in Seq(ShootDay) /\ Reordered(RemoveAt(days, d), days)
<1> DEFINE new == RemoveAt(days, d)
           Old(e) == IF e < d THEN e ELSE e + 1
<1>1. /\ new \in Seq(ShootDay) /\ Len(new) = Len(days) - 1
      /\ \A k \in 1..(Len(days) - 1) : new[k] = IF k < d THEN days[k] ELSE days[k + 1]
  BY Removed
<1> HIDE DEF new
<1>2. Len(days) \in Nat /\ DOMAIN days = 1..Len(days) /\ DOMAIN new = 1..(Len(days) - 1) /\ d \in 1..Len(days)
  BY <1>1
<1>3. \A e \in DOMAIN new : Old(e) \in DOMAIN days /\ new[e] = days[Old(e)]
  BY <1>1, <1>2
<1>4. \A e, f \in DOMAIN new : Old(e) = Old(f) => e = f
  BY <1>2
<1>5. ASSUME NEW e \in DOMAIN days, NEW i \in DOMAIN days[e].strips
      PROVE  \E f \in DOMAIN new : Old(f) = e
  <2>1. e # d
    <3>1. DOMAIN <<>> = {}
      OBVIOUS
    <3>2. QED
      BY <1>5, <3>1
  <2>2. CASE e < d
    <3>1. e \in DOMAIN new /\ Old(e) = e
      BY <1>2, <2>2
    <3>2. QED
      BY <3>1
  <2>3. CASE e > d
    <3>1. e - 1 \in DOMAIN new /\ Old(e - 1) = e
      BY <1>2, <2>3
    <3>2. QED
      BY <3>1
  <2>4. QED
    BY <1>2, <2>1, <2>2, <2>3
<1> HIDE DEF Old
<1>6. \A S : Stands(days, S) => Stands(new, S)
  BY <1>3 DEF Stands
<1>7. ASSUME NEW k, Shows(days, k) PROVE Shows(new, k)
  <2>1. PICK e \in DOMAIN days : \E i \in DOMAIN days[e].strips : days[e].strips[i].key = k
    BY <1>7 DEF Shows
  <2>2. PICK i \in DOMAIN days[e].strips : days[e].strips[i].key = k
    BY <2>1
  <2>3. PICK f \in DOMAIN new : Old(f) = e
    BY <1>5, <2>2
  <2>4. new[f] = days[e]
    BY <1>3, <2>3
  <2>5. QED
    BY <2>2, <2>4 DEF Shows
<1>8. ASSUME Once(days) PROVE Once(new)
  <2>1. ASSUME NEW e \in DOMAIN new, NEW f \in DOMAIN new, NEW i \in DOMAIN new[e].strips,
               NEW j \in DOMAIN new[f].strips, new[e].strips[i].key = new[f].strips[j].key
        PROVE  e = f /\ i = j
    <3>1. Old(e) = Old(f) /\ i = j
      BY <1>3, <1>8, <2>1 DEF Once
    <3>2. QED
      BY <1>4, <3>1
  <2>2. QED
    BY <2>1 DEF Once
<1>9. QED
  BY <1>1, <1>6, <1>7, <1>8 DEF Reordered, new

WithStrips(days, d, u) == [days EXCEPT ![d].strips = u]
Taking(days, from, i) == [days EXCEPT ![from].strips = RemoveAt(@, i)]
Putting(days, to, j, x) == [days EXCEPT ![to].strips = InsertAt(@, j, x)]

LEMMA OneDayWritten ==
  ASSUME NEW days \in Seq(ShootDay), NEW d \in DOMAIN days, NEW u \in Seq(Scenes),
         NEW new, new = WithStrips(days, d, u)
  PROVE  /\ new \in Seq(ShootDay) /\ DOMAIN new = DOMAIN days /\ new[d].strips = u
         /\ \A e \in DOMAIN days : e # d => new[e] = days[e]
<1>1. PICK day \in ShootDay : day = days[d]
  OBVIOUS
<1>2. PICK after : after = [day EXCEPT !.strips = u]
  OBVIOUS
<1>3. after \in ShootDay /\ after.strips = u
  BY <1>2 DEF ShootDay
<1>4. new = [days EXCEPT ![d] = after]
  BY <1>1, <1>2 DEF WithStrips
<1>5. QED
  BY <1>3, <1>4

LEMMA StripsOfADay ==
  ASSUME NEW days \in Seq(ShootDay), NEW d \in DOMAIN days
  PROVE  days[d].strips \in Seq(Scenes)
<1>1. PICK day \in ShootDay : day = days[d]
  OBVIOUS
<1>2. QED
  BY <1>1 DEF ShootDay

TakenOut(new, days, x) ==
  /\ \A S : Stands(days, S) => Stands(new, S) /\ x \in S
  /\ \A k : Shows(days, k) => Shows(new, k) \/ k = x.key
  /\ Once(days) => Once(new) /\ ~Shows(new, x.key)

PutOn(new, days, x) ==
  /\ \A S : Stands(days, S) /\ x \in S => Stands(new, S)
  /\ \A k : Shows(days, k) \/ k = x.key => Shows(new, k)
  /\ Once(days) /\ ~Shows(days, x.key) => Once(new)

(* A strip is taken from its day ... *)
LEMMA StripTaken ==
  ASSUME NEW days \in Seq(ShootDay), NEW from \in DOMAIN days, NEW i \in DOMAIN days[from].strips,
         NEW new, new = Taking(days, from, i),
         NEW x, x = days[from].strips[i]
  PROVE  /\ new \in Seq(ShootDay) /\ DOMAIN new = DOMAIN days /\ x \in Scenes
         /\ TakenOut(new, days, x)
<1> DEFINE Old(m) == IF m < i THEN m ELSE m + 1
<1>1. PICK s \in Seq(Scenes) : s = days[from].strips
  BY StripsOfADay
<1>2. PICK u : u = RemoveAt(s, i)
  OBVIOUS
<1>3. /\ u \in Seq(Scenes) /\ Len(u) = Len(s) - 1
      /\ \A k \in 1..(Len(s) - 1) : u[k] = IF k < i THEN s[k] ELSE s[k + 1]
  BY <1>1, <1>2, Removed
<1>4. new = WithStrips(days, from, u)
  BY <1>1, <1>2 DEF Taking, WithStrips
<1>5. /\ new \in Seq(ShootDay) /\ DOMAIN new = DOMAIN days /\ new[from].strips = u
      /\ \A e \in DOMAIN days : e # from => new[e] = days[e]
  BY <1>3, <1>4, OneDayWritten
<1>6. Len(s) \in Nat /\ DOMAIN s = 1..Len(s) /\ DOMAIN u = 1..(Len(s) - 1) /\ i \in 1..Len(s)
      /\ x = s[i] /\ x \in Scenes
  BY <1>1, <1>3
<1>7. /\ \A m \in DOMAIN u : Old(m) \in DOMAIN s /\ Old(m) # i /\ u[m] = s[Old(m)]
      /\ \A m, n \in DOMAIN u : Old(m) = Old(n) => m = n
  BY <1>3, <1>6
<1>8. \A n \in DOMAIN s : n # i => \E m \in DOMAIN u : Old(m) = n
  <2> TAKE n \in DOMAIN s
  <2>1. CASE n < i
    <3>1. n \in DOMAIN u /\ Old(n) = n
      BY <1>6, <2>1
    <3>2. QED
      BY <3>1
  <2>2. CASE n > i
    <3>1. n - 1 \in DOMAIN u /\ Old(n - 1) = n
      BY <1>6, <2>2
    <3>2. QED
      BY <3>1
  <2>3. QED
    BY <1>6, <2>1, <2>2
<1> HIDE DEF Old
(* Where each strip was. *)
<1> DEFINE Was(d, m) == IF d = from THEN Old(m) ELSE m
<1>9. \A d \in DOMAIN new : \A m \in DOMAIN new[d].strips :
        /\ Was(d, m) \in DOMAIN days[d].strips
        /\ new[d].strips[m] = days[d].strips[Was(d, m)]
        /\ d # from \/ Was(d, m) # i
  BY <1>1, <1>5, <1>7
<1>10. \A d \in DOMAIN new : \A m, n \in DOMAIN new[d].strips : Was(d, m) = Was(d, n) => m = n
  BY <1>5, <1>7
<1>11. \A d \in DOMAIN days : \A n \in DOMAIN days[d].strips :
         (d = from /\ n = i) \/ \E m \in DOMAIN new[d].strips : Was(d, m) = n
  BY <1>1, <1>5, <1>8
<1> HIDE DEF Was
<1>12. ASSUME NEW S, Stands(days, S) PROVE Stands(new, S) /\ x \in S
  <2>1. Stands(new, S)
    BY <1>5, <1>9, <1>12 DEF Stands
  <2>2. QED
    BY <1>12, <2>1 DEF Stands
<1>13. ASSUME NEW k, Shows(days, k) PROVE Shows(new, k) \/ k = x.key
  <2>1. PICK d \in DOMAIN days : \E n \in DOMAIN days[d].strips : days[d].strips[n].key = k
    BY <1>13 DEF Shows
  <2>2. PICK n \in DOMAIN days[d].strips : days[d].strips[n].key = k
    BY <2>1
  <2>3. CASE d = from /\ n = i
    BY <2>2, <2>3
  <2>4. CASE \E m \in DOMAIN new[d].strips : Was(d, m) = n
    <3>1. PICK m \in DOMAIN new[d].strips : Was(d, m) = n
      BY <2>4
    <3>2. d \in DOMAIN new /\ new[d].strips[m].key = k
      BY <1>5, <1>9, <2>2, <3>1
    <3>3. QED
      BY <3>2 DEF Shows
  <2>5. QED
    BY <1>11, <2>3, <2>4
<1>14. ASSUME Once(days) PROVE Once(new) /\ ~Shows(new, x.key)
  <2>1. ASSUME NEW d \in DOMAIN new, NEW e \in DOMAIN new, NEW m \in DOMAIN new[d].strips,
               NEW n \in DOMAIN new[e].strips, new[d].strips[m].key = new[e].strips[n].key
        PROVE  d = e /\ m = n
    <3>1. d = e /\ Was(d, m) = Was(e, n)
      BY <1>5, <1>9, <1>14, <2>1 DEF Once
    <3>2. QED
      BY <1>10, <3>1
  <2>2. ASSUME NEW d \in DOMAIN new, NEW m \in DOMAIN new[d].strips, new[d].strips[m].key = x.key
        PROVE  FALSE
    <3>1. d = from /\ Was(d, m) = i
      BY <1>5, <1>9, <1>14, <2>2 DEF Once
    <3>2. QED
      BY <1>9, <3>1
  <2>3. QED
    BY <2>1, <2>2 DEF Once, Shows
<1>15. QED
  BY <1>5, <1>6, <1>12, <1>13, <1>14 DEF TakenOut

(* ... and put at a place of another, or of the same. *)
LEMMA StripPut ==
  ASSUME NEW days \in Seq(ShootDay), NEW to \in DOMAIN days, NEW j \in 1..(Len(days[to].strips) + 1),
         NEW x \in Scenes, NEW new, new = Putting(days, to, j, x)
  PROVE  /\ new \in Seq(ShootDay)
         /\ PutOn(new, days, x)
<1> DEFINE Old(m) == IF m < j THEN m ELSE m - 1
<1>1. PICK s \in Seq(Scenes) : s = days[to].strips
  BY StripsOfADay
<1>2. PICK u : u = InsertAt(s, j, x)
  OBVIOUS
<1>3. u \in Seq(Scenes) /\ PutIn(u, s, j, x)
  BY <1>1, <1>2, Inserted
<1>4. new = WithStrips(days, to, u)
  BY <1>1, <1>2 DEF Putting, WithStrips
<1>5. /\ new \in Seq(ShootDay) /\ DOMAIN new = DOMAIN days /\ new[to].strips = u
      /\ \A e \in DOMAIN days : e # to => new[e] = days[e]
  BY <1>3, <1>4, OneDayWritten
<1>6. Len(s) \in Nat /\ DOMAIN s = 1..Len(s) /\ DOMAIN u = 1..(Len(s) + 1) /\ j \in 1..(Len(s) + 1)
  BY <1>1, <1>3 DEF PutIn
<1>7. /\ \A m \in DOMAIN u : m # j => Old(m) \in DOMAIN s /\ u[m] = s[Old(m)]
      /\ \A m, n \in DOMAIN u : m # j /\ n # j /\ Old(m) = Old(n) => m = n
      /\ j \in DOMAIN u /\ u[j] = x
  BY <1>3, <1>6 DEF PutIn
<1>8. \A n \in DOMAIN s : \E m \in DOMAIN u : m # j /\ Old(m) = n
  <2> TAKE n \in DOMAIN s
  <2>1. CASE n < j
    <3>1. n \in DOMAIN u /\ n # j /\ Old(n) = n
      BY <1>6, <2>1
    <3>2. QED
      BY <3>1
  <2>2. CASE n >= j
    <3>1. n + 1 \in DOMAIN u /\ n + 1 # j /\ Old(n + 1) = n
      BY <1>6, <2>2
    <3>2. QED
      BY <3>1
  <2>3. QED
    BY <1>6, <2>1, <2>2
<1> HIDE DEF Old
(* Where each strip was, but the one that is put. *)
<1> DEFINE Was(d, m) == IF d = to THEN Old(m) ELSE m
           Here(d, m) == d = to /\ m = j
<1>9. \A d \in DOMAIN new : \A m \in DOMAIN new[d].strips : ~Here(d, m) =>
        /\ Was(d, m) \in DOMAIN days[d].strips
        /\ new[d].strips[m] = days[d].strips[Was(d, m)]
  BY <1>1, <1>5, <1>7
<1>10. \A d \in DOMAIN new : \A m, n \in DOMAIN new[d].strips :
         ~Here(d, m) /\ ~Here(d, n) /\ Was(d, m) = Was(d, n) => m = n
  BY <1>5, <1>7
<1>11. \A d \in DOMAIN days : \A n \in DOMAIN days[d].strips :
         \E m \in DOMAIN new[d].strips : ~Here(d, m) /\ Was(d, m) = n
  BY <1>1, <1>5, <1>8
<1>12. /\ to \in DOMAIN new /\ j \in DOMAIN new[to].strips
       /\ \A d, m : Here(d, m) => d = to /\ m = j /\ new[d].strips[m] = x
  BY <1>5, <1>7
<1> HIDE DEF Was, Here
<1>13. ASSUME NEW S, Stands(days, S), x \in S PROVE Stands(new, S)
  BY <1>5, <1>9, <1>12, <1>13 DEF Stands
<1>14. ASSUME NEW k, Shows(days, k) PROVE Shows(new, k)
  <2>1. PICK d \in DOMAIN days : \E n \in DOMAIN days[d].strips : days[d].strips[n].key = k
    BY <1>14 DEF Shows
  <2>2. PICK n \in DOMAIN days[d].strips : days[d].strips[n].key = k
    BY <2>1
  <2>3. PICK m \in DOMAIN new[d].strips : ~Here(d, m) /\ Was(d, m) = n
    BY <1>11
  <2>4. d \in DOMAIN new /\ new[d].strips[m].key = k
    BY <1>5, <1>9, <2>2, <2>3
  <2>5. QED
    BY <2>4 DEF Shows
<1>15. Shows(new, x.key)
  <2>1. new[to].strips[j] = x
    BY <1>5, <1>7
  <2>2. QED
    BY <1>12, <2>1 DEF Shows
<1>16. ASSUME Once(days), ~Shows(days, x.key) PROVE Once(new)
  <2>1. ASSUME NEW d \in DOMAIN new, NEW m \in DOMAIN new[d].strips, ~Here(d, m)
        PROVE  new[d].strips[m].key # x.key
    BY <1>5, <1>9, <1>16, <2>1 DEF Shows
  <2>2. ASSUME NEW d \in DOMAIN new, NEW e \in DOMAIN new, NEW m \in DOMAIN new[d].strips,
               NEW n \in DOMAIN new[e].strips, new[d].strips[m].key = new[e].strips[n].key
        PROVE  d = e /\ m = n
    <3>1. CASE ~Here(d, m) /\ ~Here(e, n)
      <4>1. d = e /\ Was(d, m) = Was(e, n)
        BY <1>5, <1>9, <1>16, <2>2, <3>1 DEF Once
      <4>2. QED
        BY <1>10, <3>1, <4>1
    <3>2. CASE Here(d, m)
      BY <1>12, <2>1, <2>2, <3>2
    <3>3. CASE Here(e, n)
      BY <1>12, <2>1, <2>2, <3>3
    <3>4. QED
      BY <3>1, <3>2, <3>3
  <2>3. QED
    BY <2>2 DEF Once
<1>17. QED
  BY <1>5, <1>13, <1>14, <1>15, <1>16 DEF PutOn

LEMMA StripMoved ==
  ASSUME NEW days \in Seq(ShootDay), NEW from \in DOMAIN days, NEW to \in DOMAIN days,
         NEW i \in DOMAIN days[from].strips, NEW x, x = days[from].strips[i],
         NEW taken, taken = Taking(days, from, i),
         NEW j \in 1..(Len(taken[to].strips) + 1),
         NEW new, new = Putting(taken, to, j, x)
  PROVE  new \in Seq(ShootDay) /\ Reordered(new, days)
<1>1. taken \in Seq(ShootDay) /\ DOMAIN taken = DOMAIN days /\ x \in Scenes /\ TakenOut(taken, days, x)
  BY StripTaken
<1>2. to \in DOMAIN taken
  BY <1>1
<1>3. new \in Seq(ShootDay) /\ PutOn(new, taken, x)
  BY <1>1, <1>2, StripPut
<1>4. QED
  BY <1>1, <1>3 DEF Reordered, TakenOut, PutOn

LEMMA OneDay ==
  ASSUME NEW days \in Seq(ShootDay), 0 \in 0..MaxMoves
  PROVE  OneDayAtLeast(days) \in Seq(ShootDay) /\ Reordered(OneDayAtLeast(days), days)
<1>1. CASE days = <<>>
  <2>1. Append(<<>>, Day(<<>>, 0)) = <<Day(<<>>, 0)>>
    OBVIOUS
  <2>2. OneDayAtLeast(days) = Append(days, Day(<<>>, 0))
    BY <1>1, <2>1 DEF OneDayAtLeast
  <2>3. QED
    BY <2>2, DayAdded
<1>2. CASE days # <<>>
  <2>1. OneDayAtLeast(days) = days
    BY <1>2 DEF OneDayAtLeast
  <2>2. QED
    BY <2>1, SameStrips
<1>3. QED
  BY <1>1, <1>2

-----------------------------------------------------------------------------
(* A number is in one day, at one place of it. *)
LEMMA DivMod ==
  ASSUME NEW m \in Nat \ {0}, NEW k \in Nat
  PROVE  k \div m \in Nat /\ k % m \in 0..(m - 1) /\ k = m * (k \div m) + (k % m)
OBVIOUS

LEMMA WholeDays ==
  ASSUME NEW m \in Nat \ {0}, NEW a \in Nat, NEW b \in Nat, a < b
  PROVE  a * m + m <= b * m
<1>1. (a + 1) * m <= b * m
  OBVIOUS
<1>2. QED
  BY <1>1

(* The number a strip has on the board, counted over its days. *)
NumberOf(d, i) == (d - 1) * MaxStrips + i

LEMMA OneDayOneNumber ==
  ASSUME NEW d \in Nat \ {0}, NEW e \in Nat \ {0}, NEW i \in 1..MaxStrips, NEW j \in 1..MaxStrips,
         NumberOf(d, i) = NumberOf(e, j)
  PROVE  d = e /\ i = j
<1>0. PICK m \in Nat \ {0} : m = MaxStrips /\ i \in 1..m /\ j \in 1..m /\ (d - 1) * m + i = (e - 1) * m + j
  BY StripsAssumption DEF NumberOf
<1>1. CASE d < e
  <2>1. (d - 1) * m + m <= (e - 1) * m
    BY <1>1, WholeDays
  <2>2. QED
    BY <1>0, <2>1
<1>2. CASE e < d
  <2>1. (e - 1) * m + m <= (d - 1) * m
    BY <1>2, WholeDays
  <2>2. QED
    BY <1>0, <2>1
<1>3. QED
  BY <1>0, <1>1, <1>2

CutOf(days, flat) ==
  /\ \A d \in DOMAIN days : \A i \in DOMAIN days[d].strips :
       /\ i \in 1..MaxStrips /\ d \in Nat \ {0} /\ NumberOf(d, i) \in DOMAIN flat
       /\ days[d].strips[i] = flat[NumberOf(d, i)]
  /\ \A k \in DOMAIN flat : \E d \in DOMAIN days : \E i \in DOMAIN days[d].strips : NumberOf(d, i) = k

(* The days of a sequence of strips: each strip is in one of them. *)
LEMMA CutInDays ==
  ASSUME NEW flat \in Seq(Scenes), NEW days, days = InDays(flat), 0 \in 0..MaxMoves
  PROVE  days \in Seq(ShootDay) /\ CutOf(days, flat)
<1> DEFINE n == Len(flat)
           m == MaxStrips
           count == (n + m - 1) \div m
           Upto(d) == IF d * m < n THEN d * m ELSE n
           part(d) == SubSeq(flat, (d - 1) * m + 1, Upto(d))
<1>1. n \in Nat /\ m \in Nat \ {0} /\ n + m - 1 \in Nat /\ DOMAIN flat = 1..n /\ Len(flat) = n
  BY StripsAssumption
<1>2. days = [d \in 1..count |-> Day(part(d), 0)]
  BY DEF InDays
<1>3. count \in Nat /\ m * count <= n + m - 1 /\ n + m - 1 <= m * count + m - 1
  <2>1. PICK k \in Nat : k = n + m - 1
    BY <1>1
  <2>2. k \div m \in Nat /\ k % m \in 0..(m - 1) /\ k = m * (k \div m) + (k % m)
    BY <1>1, DivMod
  <2>3. count = k \div m
    BY <2>1
  <2> HIDE DEF count, m, n
  <2>4. m * count \in Nat
    BY <1>1, <2>2, <2>3
  <2>5. QED
    BY <1>1, <2>1, <2>2, <2>3, <2>4
<1> HIDE DEF n, m, count
<1>4. ASSUME NEW d \in 1..count
      PROVE  (d - 1) * m \in Nat /\ (d - 1) * m < n /\ d * m = (d - 1) * m + m
  <2>1. (d - 1) * m \in Nat /\ d * m = (d - 1) * m + m
    BY <1>1, <1>3
  <2>2. d * m <= count * m
    BY <1>1, <1>3
  <2>3. count * m = m * count
    BY <1>1, <1>3
  <2>4. QED
    BY <1>1, <1>3, <2>1, <2>2, <2>3
<1>5. ASSUME NEW d \in 1..count
      PROVE  /\ part(d) \in Seq(Scenes) /\ Len(part(d)) \in 0..m
             /\ Len(part(d)) = Upto(d) - (d - 1) * m
             /\ \A i \in 1..Len(part(d)) : (d - 1) * m + i \in 1..n /\ part(d)[i] = flat[(d - 1) * m + i]
  <2>1. PICK a \in Nat : a = (d - 1) * m /\ a < n
    BY <1>4
  <2>2. PICK b \in Nat : b = Upto(d) /\ b >= a /\ b <= n /\ b <= a + m
    BY <1>1, <1>4, <2>1
  <2>3. part(d) = SubSeq(flat, a + 1, b)
    <3>1. (d - 1) * m + 1 = a + 1
      BY <2>1
    <3>2. QED
      BY <2>2, <3>1, Zenon
  <2>4. a + 1 \in 1..(Len(flat) + 1) /\ b \in ((a + 1) - 1)..Len(flat)
    <3>1. a < n /\ b >= a /\ b <= n
      BY <2>1, <2>2
    <3>2. QED
      BY <1>1, <3>1
  <2>5. /\ SubSeq(flat, a + 1, b) \in Seq(Scenes) /\ Len(SubSeq(flat, a + 1, b)) = b - (a + 1) + 1
        /\ \A k \in 1..(b - (a + 1) + 1) : SubSeq(flat, a + 1, b)[k] = flat[k + (a + 1) - 1]
    BY <2>4, PartOf
  <2> HIDE DEF part, Upto
  <2>6. Len(part(d)) = b - a /\ b - a \in 0..m
    BY <1>1, <2>1, <2>2, <2>3, <2>5
  <2>7. ASSUME NEW i \in 1..(b - a) PROVE a + i \in 1..n /\ part(d)[i] = flat[a + i]
    <3>1. i \in 1..(b - (a + 1) + 1) /\ i + (a + 1) - 1 = a + i /\ a + i \in 1..n
      BY <1>1, <2>1, <2>2
    <3>2. QED
      BY <2>3, <2>5, <3>1
  <2>8. QED
    BY <2>1, <2>2, <2>3, <2>5, <2>6, <2>7
<1>6. ASSUME NEW d \in 1..count PROVE days[d] \in ShootDay /\ days[d].strips = part(d)
  <2>1. days[d] = Day(part(d), 0)
    BY <1>2
  <2> HIDE DEF part
  <2>2. QED
    BY <1>5, <2>1 DEF Day, ShootDay
<1>7. days \in Seq(ShootDay) /\ DOMAIN days = 1..count
  <2> HIDE DEF part
  <2>1. DOMAIN days = 1..count
    BY <1>2
  <2>2. days = [d \in 1..count |-> days[d]]
    BY <1>2
  <2>3. QED
    BY <1>3, <1>6, <2>1, <2>2
<1>8. ASSUME NEW k \in 1..n
      PROVE  \E d \in 1..count : \E i \in 1..Len(part(d)) : k = (d - 1) * m + i
  <2>1. PICK q \in Nat, r \in 0..(m - 1) : k - 1 = m * q + r
    <3>1. k - 1 \in Nat
      BY <1>1
    <3>2. QED
      BY <1>1, <3>1, DivMod
  <2>2. PICK d : d = q + 1
    OBVIOUS
  <2>3. m * q = q * m
    BY <1>1
  <2>4. d \in 1..count
    <3>1. CASE count < d
      <4>1. count <= q
        BY <1>3, <2>2, <3>1
      <4>2. m * count <= m * q
        BY <1>1, <1>3, <4>1
      <4>3. n <= m * count
        BY <1>1, <1>3
      <4>4. m * count \in Nat /\ m * q \in Nat
        BY <1>1, <1>3
      <4>5. k - 1 >= m * q
        BY <1>1, <2>1, <4>4
      <4>6. QED
        BY <1>1, <4>2, <4>3, <4>4, <4>5
    <3>2. QED
      BY <1>3, <2>2, <3>1
  <2>5. PICK a \in Nat : a = (d - 1) * m /\ a = m * q
    BY <1>4, <2>2, <2>3, <2>4
  <2>6. r + 1 \in 1..Len(part(d)) /\ k = a + (r + 1)
    <3>1. Upto(d) - a >= r + 1
      BY <1>1, <1>4, <2>1, <2>4, <2>5
    <3>2. Len(part(d)) = Upto(d) - a
      BY <1>5, <2>4, <2>5
    <3>3. QED
      BY <1>1, <1>5, <2>1, <2>4, <2>5, <3>1, <3>2
  <2>7. QED
    BY <2>4, <2>5, <2>6
<1> HIDE DEF part, Upto
<1>9. \A d \in DOMAIN days : DOMAIN days[d].strips = 1..Len(part(d))
  BY <1>5, <1>6, <1>7
<1>10. ASSUME NEW d \in DOMAIN days, NEW i \in DOMAIN days[d].strips
       PROVE  /\ i \in 1..m /\ d \in Nat \ {0} /\ (d - 1) * m + i \in 1..n
              /\ days[d].strips[i] = flat[(d - 1) * m + i]
  <2>1. d \in 1..count /\ i \in 1..Len(part(d)) /\ d \in Nat \ {0} /\ i \in Nat
    BY <1>3, <1>5, <1>7, <1>9
  <2>2. i \in 1..m
    BY <1>1, <1>5, <2>1
  <2>3. QED
    BY <1>5, <1>6, <2>1, <2>2
<1>11. \A k \in 1..n : \E d \in DOMAIN days : \E i \in DOMAIN days[d].strips : k = (d - 1) * m + i
  BY <1>7, <1>8, <1>9
<1>12. \A d, i : NumberOf(d, i) = (d - 1) * m + i
  BY DEF NumberOf, m
<1>13. \A d \in DOMAIN days : \A i \in DOMAIN days[d].strips :
         /\ i \in 1..MaxStrips /\ d \in Nat \ {0} /\ NumberOf(d, i) \in DOMAIN flat
         /\ days[d].strips[i] = flat[NumberOf(d, i)]
  <2>1. m = MaxStrips
    BY DEF m
  <2>2. QED
    BY <1>1, <1>10, <1>12, <2>1, Zenon
<1>14. \A k \in DOMAIN flat : \E d \in DOMAIN days : \E i \in DOMAIN days[d].strips : NumberOf(d, i) = k
  <2> TAKE k \in DOMAIN flat
  <2>1. PICK d \in DOMAIN days : \E i \in DOMAIN days[d].strips : k = (d - 1) * m + i
    BY <1>1, <1>11
  <2>2. PICK i \in DOMAIN days[d].strips : k = (d - 1) * m + i
    BY <2>1
  <2>3. NumberOf(d, i) = k
    BY <1>12, <2>2, Zenon
  <2>4. QED
    BY <2>3
<1>15. QED
  BY <1>7, <1>13, <1>14 DEF CutOf

-----------------------------------------------------------------------------
LEMMA ScenesOfAScript ==
  ASSUME NEW scenes \in SceneLists \union {<<>>}
  PROVE  /\ scenes \in Seq(Scenes) /\ Len(scenes) \in Nat /\ DOMAIN scenes = 1..Len(scenes)
         /\ ToSet(scenes) = {scenes[n] : n \in DOMAIN scenes}
         /\ \A n \in DOMAIN scenes : scenes[n].key \in AllKeys
<1>1. CASE scenes = <<>>
  BY <1>1 DEF ToSet
<1>2. CASE scenes \in SceneLists
  <2>1. PICK s \in Scripts : scenes = SceneList(s)
    BY <1>2 DEF SceneLists
  <2>2. Len(s) \in Nat /\ DOMAIN s = 1..Len(s)
    BY PlaceAssumption
  <2>3. scenes = [n \in 1..Len(s) |-> scenes[n]] /\ DOMAIN scenes = 1..Len(s)
    BY <2>1, <2>2 DEF SceneList
  <2>4. \A n \in DOMAIN scenes : scenes[n] \in Scenes
    BY <2>1 DEF Scenes, ToSet
  <2>5. \A n \in DOMAIN scenes : scenes[n].key \in AllKeys
    BY <1>2 DEF AllKeys, Keys
  <2>6. scenes \in Seq(Scenes) /\ Len(scenes) = Len(s)
    BY <2>2, <2>3, <2>4
  <2>7. QED
    BY <2>2, <2>3, <2>5, <2>6 DEF ToSet
<1>3. QED
  BY <1>1, <1>2

(* By place is an order of the scenes. *)
LEMMA ByPlaceIsStrict ==
  ASSUME NEW scenes \in Seq(Scenes)
  PROVE  StrictOrder(DOMAIN scenes, ByPlace(scenes)) /\ IsFiniteSet(DOMAIN scenes)
         /\ Cardinality(DOMAIN scenes) = Len(scenes)
<1> DEFINE At(n) == {m \in DOMAIN scenes : Location(scenes[m]) = Location(scenes[n])}
           First(n) == Min(At(n))
<1>1. Len(scenes) \in Nat /\ DOMAIN scenes = 1..Len(scenes)
  OBVIOUS
<1>2. IsFiniteSet(DOMAIN scenes) /\ Cardinality(DOMAIN scenes) = Len(scenes)
  BY <1>1, FS_Interval
<1>3. ASSUME NEW n \in DOMAIN scenes PROVE First(n) \in Nat
  <2>1. At(n) \in SUBSET Nat /\ n \in At(n) /\ At(n) \in SUBSET (DOMAIN scenes)
    BY <1>1
  <2>2. IsFiniteSet(At(n))
    BY <1>2, <2>1, FS_Subset
  <2> HIDE DEF At
  <2>3. Min(At(n)) \in At(n)
    BY <2>1, <2>2, LargestNumber
  <2>4. QED
    BY <2>1, <2>3
<1>4. ByPlace(scenes) = {p \in (DOMAIN scenes) \X (DOMAIN scenes) :
                           First(p[1]) < First(p[2]) \/ (First(p[1]) = First(p[2]) /\ p[1] < p[2])}
  BY DEF ByPlace
<1> HIDE DEF First
<1>5. \A a, b \in DOMAIN scenes : <<a, b>> \in ByPlace(scenes) <=>
        First(a) < First(b) \/ (First(a) = First(b) /\ a < b)
  BY <1>4
<1>6. \A a, b \in DOMAIN scenes : a \in Nat /\ b \in Nat /\ First(a) \in Nat /\ First(b) \in Nat
  BY <1>1, <1>3
<1>7. StrictOrder(DOMAIN scenes, ByPlace(scenes))
  BY <1>5, <1>6 DEF StrictOrder
<1>8. QED
  BY <1>2, <1>7

(* The board that is suggested has all scenes. *)
LEMMA Suggested ==
  ASSUME NEW scenes \in SceneLists \union {<<>>}, 0 \in 0..MaxMoves
  PROVE  AutoSuggestDays(scenes) \in Seq(ShootDay) /\ Placed(AutoSuggestDays(scenes), scenes)
<1>1. PICK n \in Nat :
        /\ scenes \in Seq(Scenes) /\ n = Len(scenes) /\ DOMAIN scenes = 1..n
        /\ ToSet(scenes) = {scenes[m] : m \in DOMAIN scenes}
  BY ScenesOfAScript
<1>2. PICK places : places = InOrder(DOMAIN scenes, ByPlace(scenes))
  OBVIOUS
<1>3. /\ \A i \in 1..n : places[i] \in 1..n
      /\ \A i, j \in 1..n : places[i] = places[j] => i = j
      /\ \A x \in 1..n : \E i \in 1..n : places[i] = x
  <2>1. /\ StrictOrder(DOMAIN scenes, ByPlace(scenes)) /\ IsFiniteSet(DOMAIN scenes)
        /\ Cardinality(DOMAIN scenes) = n
    BY <1>1, ByPlaceIsStrict
  <2>2. /\ places \in Seq(DOMAIN scenes) /\ Len(places) = n
        /\ \A i, j \in 1..n : places[i] = places[j] => i = j
        /\ \A x \in DOMAIN scenes : \E i \in 1..n : places[i] = x
    BY <1>2, <2>1, InOrderIsABijection
  <2>3. \A i \in 1..n : places[i] \in DOMAIN scenes
    BY <2>2
  <2>4. QED
    BY <1>1, <2>2, <2>3
<1>4. PICK flat : flat = [i \in 1..n |-> scenes[places[i]]]
  OBVIOUS
<1>5. flat \in Seq(Scenes) /\ DOMAIN flat = 1..n /\ \A i \in 1..n : flat[i] = scenes[places[i]]
  <2>1. \A i \in 1..n : scenes[places[i]] \in Scenes
    BY <1>1, <1>3
  <2>2. flat \in [1..n -> Scenes]
    BY <1>4, <2>1
  <2>3. QED
    BY <1>4, <2>2
<1>6. PICK days : days = InDays(flat)
  OBVIOUS
<1>7. days \in Seq(ShootDay) /\ CutOf(days, flat)
  BY <1>5, <1>6, CutInDays
<1>8. \A d \in DOMAIN days : \A i \in DOMAIN days[d].strips :
        /\ NumberOf(d, i) \in 1..n /\ days[d].strips[i] = scenes[places[NumberOf(d, i)]]
  BY <1>5, <1>7 DEF CutOf
<1>9. ASSUME NEW d \in DOMAIN days, NEW e \in DOMAIN days, NEW i \in DOMAIN days[d].strips,
             NEW j \in DOMAIN days[e].strips, NumberOf(d, i) = NumberOf(e, j)
      PROVE  d = e /\ i = j
  <2>1. d \in Nat \ {0} /\ e \in Nat \ {0} /\ i \in 1..MaxStrips /\ j \in 1..MaxStrips
    BY <1>7 DEF CutOf
  <2>2. QED
    BY <1>9, <2>1, OneDayOneNumber
<1>10. \A k \in 1..n : \E d \in DOMAIN days : \E i \in DOMAIN days[d].strips : NumberOf(d, i) = k
  BY <1>5, <1>7 DEF CutOf
<1>11. Stands(days, ToSet(scenes))
  <2>1. ASSUME NEW d \in DOMAIN days, NEW i \in DOMAIN days[d].strips
        PROVE  days[d].strips[i] \in ToSet(scenes)
    <3>1. PICK k \in 1..n : days[d].strips[i] = scenes[places[k]]
      BY <1>8
    <3>2. places[k] \in DOMAIN scenes
      BY <1>1, <1>3
    <3>3. QED
      BY <1>1, <3>1, <3>2
  <2>2. QED
    BY <2>1 DEF Stands
<1>12. ASSUME NEW x \in ToSet(scenes) PROVE Shows(days, x.key)
  <2>1. PICK k \in 1..n : x = scenes[k]
    BY <1>1
  <2>2. PICK i \in 1..n : places[i] = k
    BY <1>3
  <2>3. PICK d \in DOMAIN days : \E j \in DOMAIN days[d].strips : NumberOf(d, j) = i
    BY <1>10
  <2>4. PICK j \in DOMAIN days[d].strips : NumberOf(d, j) = i
    BY <2>3
  <2>5. days[d].strips[j] = x
    BY <1>8, <2>1, <2>2, <2>4
  <2>6. QED
    BY <2>5 DEF Shows
<1>13. ASSUME DistinctKeys(scenes) PROVE Once(days)
  <2>1. ASSUME NEW d \in DOMAIN days, NEW e \in DOMAIN days, NEW i \in DOMAIN days[d].strips,
               NEW j \in DOMAIN days[e].strips, days[d].strips[i].key = days[e].strips[j].key
        PROVE  d = e /\ i = j
    <3>1. PICK a \in 1..n : a = NumberOf(d, i) /\ days[d].strips[i] = scenes[places[a]]
      BY <1>8
    <3>2. PICK b \in 1..n : b = NumberOf(e, j) /\ days[e].strips[j] = scenes[places[b]]
      BY <1>8
    <3>3. places[a] \in DOMAIN scenes /\ places[b] \in DOMAIN scenes
      BY <1>1, <1>3
    <3>4. places[a] = places[b]
      BY <1>13, <2>1, <3>1, <3>2, <3>3 DEF DistinctKeys
    <3>5. NumberOf(d, i) = NumberOf(e, j)
      BY <1>3, <3>1, <3>2, <3>4
    <3>6. QED
      BY <1>9, <3>5
  <2>2. QED
    BY <2>1 DEF Once
<1>14. Placed(days, scenes)
  BY <1>11, <1>12, <1>13, PlacedByDays
<1>15. AutoSuggestDays(scenes) = OneDayAtLeast(days)
  BY <1>1, <1>2, <1>4, <1>6 DEF AutoSuggestDays
<1>16. QED
  BY <1>7, <1>14, <1>15, OneDay, StillPlaced

-----------------------------------------------------------------------------
(* Rows of which no two are in one place, and no two of one heading. *)
Saved(rows) ==
  /\ IsFiniteSet(rows) /\ KeysApart(rows)
  /\ \A r \in rows : r.day \in Nat /\ r.position \in Nat /\ r.save \in Nat
  /\ \A a, b \in rows : SamePlace(a, b) => a = b

LEMMA SceneOfAKey ==
  ASSUME NEW scenes \in SceneLists \union {<<>>}, NEW key \in Keys(scenes)
  PROVE  /\ SceneOf(scenes, key) \in ToSet(scenes) /\ SceneOf(scenes, key) \in Scenes
         /\ SceneOf(scenes, key).key = key
<1> DEFINE S == {n \in DOMAIN scenes : scenes[n].key = key}
<1>1. /\ scenes \in Seq(Scenes) /\ Len(scenes) \in Nat /\ DOMAIN scenes = 1..Len(scenes)
      /\ ToSet(scenes) = {scenes[n] : n \in DOMAIN scenes}
  BY ScenesOfAScript
<1>2. S # {} /\ S \in SUBSET Nat /\ S \in SUBSET (1..Len(scenes))
  BY <1>1 DEF Keys
<1>3. IsFiniteSet(S)
  <2>1. IsFiniteSet(1..Len(scenes))
    BY <1>1, FS_Interval
  <2>2. QED
    BY <1>2, <2>1, FS_Subset
<1>4. PICK m \in S : m = Max(S)
  <2> HIDE DEF S
  <2>1. QED
    BY <1>2, <1>3, LargestNumber
<1>5. SceneOf(scenes, key) = scenes[m]
  BY <1>4 DEF SceneOf
<1>6. m \in DOMAIN scenes /\ scenes[m].key = key
  OBVIOUS
<1>7. scenes[m] \in Scenes /\ scenes[m] \in ToSet(scenes)
  BY <1>1, <1>6
<1>8. QED
  BY <1>5, <1>6, <1>7

LEMMA NotesKept ==
  ASSUME NEW metas, \A m \in metas : m.notes \in 0..MaxMoves, 0 \in 0..MaxMoves, NEW d
  PROVE  NotesOf(metas, d) \in 0..MaxMoves
<1> DEFINE notes == {m.notes : m \in {m \in metas : m.day = d}}
<1>1. notes \in SUBSET (0..MaxMoves)
  OBVIOUS
<1>2. NotesOf(metas, d) = IF notes = {} THEN 0 ELSE CHOOSE n \in notes : TRUE
  BY DEF NotesOf
<1> HIDE DEF notes
<1>3. QED
  BY <1>1, <1>2

LEMMA ByPositionIsStrict ==
  ASSUME NEW mine, \A r \in mine : r.position \in Nat /\ r.save \in Nat,
         \A a, b \in mine : a.position = b.position /\ a.save = b.save => a = b
  PROVE  StrictOrder(mine, ByPosition(mine))
<1>1. \A a, b \in mine : <<a, b>> \in ByPosition(mine) <=>
        a.position < b.position \/ (a.position = b.position /\ a.save < b.save)
  BY DEF ByPosition
<1>2. \A a \in mine : <<a, a>> \notin ByPosition(mine)
  BY <1>1
<1>3. \A a, b \in mine : a # b => <<a, b>> \in ByPosition(mine) \/ <<b, a>> \in ByPosition(mine)
  <2> TAKE a, b \in mine
  <2>1. \/ a.position < b.position \/ b.position < a.position
        \/ (a.position = b.position /\ (a.save < b.save \/ b.save < a.save \/ a.save = b.save))
    OBVIOUS
  <2>2. QED
    BY <1>1, <2>1
<1>4. \A a, b, c \in mine : <<a, b>> \in ByPosition(mine) /\ <<b, c>> \in ByPosition(mine)
                              => <<a, c>> \in ByPosition(mine)
  BY <1>1
<1>5. QED
  BY <1>2, <1>3, <1>4 DEF StrictOrder

(* A saved day: the scenes of its rows, once each. *)
DayOf(day, rows, d, scenes) ==
  /\ day \in ShootDay
  /\ \A i \in DOMAIN day.strips :
       /\ day.strips[i] \in ToSet(scenes)
       /\ \E r \in rows : r.day = d /\ r.key = day.strips[i].key
  /\ \A r \in rows : r.day = d => \E i \in DOMAIN day.strips : day.strips[i].key = r.key
  /\ \A i, j \in DOMAIN day.strips : day.strips[i].key = day.strips[j].key => i = j

LEMMA SavedDayHasItsRows ==
  ASSUME NEW scenes \in SceneLists \union {<<>>}, NEW rows, Saved(rows), \A r \in rows : r.key \in Keys(scenes),
         NEW metas, \A m \in metas : m.notes \in 0..MaxMoves, 0 \in 0..MaxMoves, NEW d,
         NEW day, day = SavedDay(rows, metas, d, scenes)
  PROVE  DayOf(day, rows, d, scenes)
<1>1. PICK mine : mine = {r \in rows : r.day = d}
  OBVIOUS
<1>2. PICK sorted : sorted = InOrder(mine, ByPosition(mine))
  OBVIOUS
<1>3. IsFiniteSet(mine) /\ \A r \in mine : r \in rows /\ r.day = d
  BY <1>1, FS_Subset DEF Saved
<1>4. StrictOrder(mine, ByPosition(mine))
  <2>1. \A r \in mine : r.position \in Nat /\ r.save \in Nat
    BY <1>3 DEF Saved
  <2>2. \A a, b \in mine : a.position = b.position /\ a.save = b.save => a = b
    BY <1>3 DEF Saved, SamePlace
  <2>3. QED
    BY <2>1, <2>2, ByPositionIsStrict
<1>5. PICK n \in Nat :
        /\ n = Cardinality(mine) /\ \A i \in 1..n : sorted[i] \in mine
        /\ \A i, j \in 1..n : sorted[i] = sorted[j] => i = j
        /\ \A x \in mine : \E i \in 1..n : sorted[i] = x
  <2>1. /\ Cardinality(mine) \in Nat /\ sorted \in Seq(mine) /\ Len(sorted) = Cardinality(mine)
        /\ \A i, j \in 1..Cardinality(mine) : sorted[i] = sorted[j] => i = j
        /\ \A x \in mine : \E i \in 1..Cardinality(mine) : sorted[i] = x
    BY <1>2, <1>3, <1>4, InOrderIsABijection
  <2>2. QED
    BY <2>1
<1>6. PICK u : u = [i \in 1..n |-> SceneOf(scenes, sorted[i].key)]
  OBVIOUS
<1>7. \A i \in 1..n : u[i] \in Scenes /\ u[i] \in ToSet(scenes) /\ u[i].key = sorted[i].key
  <2> TAKE i \in 1..n
  <2>1. sorted[i].key \in Keys(scenes)
    BY <1>3, <1>5
  <2>2. QED
    BY <1>6, <2>1, SceneOfAKey
<1>8. u \in Seq(Scenes) /\ DOMAIN u = 1..n
  <2>1. u \in [1..n -> Scenes]
    BY <1>6, <1>7
  <2>2. QED
    BY <2>1
<1>9. PICK notes \in 0..MaxMoves : notes = NotesOf(metas, d)
  BY NotesKept
<1>10. day = Day(u, notes)
  BY <1>1, <1>2, <1>5, <1>6, <1>9 DEF SavedDay
<1>11. day \in ShootDay /\ day.strips = u
  BY <1>8, <1>10 DEF Day, ShootDay
<1>12. \A i \in 1..n : \E r \in rows : r.day = d /\ r.key = u[i].key
  BY <1>3, <1>5, <1>7
<1>13. \A r \in rows : r.day = d => \E i \in 1..n : u[i].key = r.key
  <2> TAKE r \in rows
  <2>1. ASSUME r.day = d PROVE \E i \in 1..n : u[i].key = r.key
    <3>1. PICK i \in 1..n : sorted[i] = r
      BY <1>1, <1>5, <2>1
    <3>2. QED
      BY <1>7, <3>1
  <2>2. QED
    BY <2>1
<1>14. \A i, j \in 1..n : u[i].key = u[j].key => i = j
  <2> TAKE i, j \in 1..n
  <2>1. ASSUME u[i].key = u[j].key PROVE i = j
    <3>1. sorted[i] \in rows /\ sorted[j] \in rows /\ sorted[i].key = sorted[j].key
      BY <1>3, <1>5, <1>7, <2>1
    <3>2. sorted[i] = sorted[j]
      BY <3>1 DEF Saved, KeysApart
    <3>3. QED
      BY <1>5, <3>2
  <2>2. QED
    BY <2>1
<1>15. QED
  BY <1>7, <1>8, <1>11, <1>12, <1>13, <1>14 DEF DayOf

(* The saved days: the scenes that have a row, once each. *)
LEMMA SavedDaysHaveTheirRows ==
  ASSUME NEW scenes \in SceneLists \union {<<>>}, NEW saved, Saved(saved),
         NEW metas, \A m \in metas : m.notes \in 0..MaxMoves, 0 \in 0..MaxMoves,
         NEW days, days = SavedDays(saved, metas, scenes)
  PROVE  /\ days \in Seq(ShootDay) /\ Stands(days, ToSet(scenes)) /\ Once(days)
         /\ \A d \in DOMAIN days : \A i \in DOMAIN days[d].strips :
              \E r \in saved : r.key = days[d].strips[i].key
         /\ \A r \in saved : r.key \in Keys(scenes) => Shows(days, r.key)
<1>1. PICK rows : rows = {r \in saved : r.key \in Keys(scenes)}
  OBVIOUS
<1>2. Saved(rows) /\ \A r \in rows : r \in saved /\ r.key \in Keys(scenes)
  <2>1. IsFiniteSet(rows) /\ rows \subseteq saved
    BY <1>1, FS_Subset DEF Saved
  <2>2. QED
    BY <1>1, <2>1 DEF Saved, KeysApart
<1>3. PICK used : used = {r.day : r \in rows}
  OBVIOUS
<1>4. IsFiniteSet(used) /\ used \in SUBSET Nat
  <2>1. IsFiniteSet(rows)
    BY <1>2 DEF Saved
  <2>2. used \in SUBSET Nat
    BY <1>2, <1>3 DEF Saved
  <2>3. PICK f : f = [r \in rows |-> r.day]
    OBVIOUS
  <2>4. f \in Surjection(rows, used)
    BY <1>3, <2>3 DEF Surjection
  <2>5. QED
    BY <2>1, <2>2, <2>4, FS_Surjection
<1>5. PICK order : order = InOrder(used, Rising(used))
  OBVIOUS
<1>6. PICK n \in Nat :
        /\ n = Cardinality(used) /\ \A i \in 1..n : order[i] \in used
        /\ \A i, j \in 1..n : order[i] = order[j] => i = j
        /\ \A x \in used : \E i \in 1..n : order[i] = x
  <2>1. /\ Cardinality(used) \in Nat /\ order \in Seq(used) /\ Len(order) = Cardinality(used)
        /\ \A i, j \in 1..Cardinality(used) : order[i] = order[j] => i = j
        /\ \A x \in used : \E i \in 1..Cardinality(used) : order[i] = x
    BY <1>4, <1>5, RisingIsStrict, InOrderIsABijection
  <2>2. QED
    BY <2>1
<1>7. days = [i \in 1..n |-> SavedDay(rows, metas, order[i], scenes)]
  BY <1>1, <1>3, <1>5, <1>6 DEF SavedDays
<1>8. \A d \in 1..n : DayOf(days[d], rows, order[d], scenes)
  <2> TAKE d \in 1..n
  <2>1. days[d] = SavedDay(rows, metas, order[d], scenes)
    BY <1>7
  <2>2. QED
    BY <1>2, <2>1, SavedDayHasItsRows
<1>9. days \in Seq(ShootDay) /\ DOMAIN days = 1..n
  <2>1. DOMAIN days = 1..n /\ days = [d \in 1..n |-> days[d]]
    BY <1>7
  <2>2. days \in [1..n -> ShootDay]
    BY <1>8, <2>1 DEF DayOf
  <2>3. QED
    BY <2>1, <2>2
<1>10. Stands(days, ToSet(scenes))
  BY <1>8, <1>9 DEF Stands, DayOf
<1>11. ASSUME NEW d \in DOMAIN days, NEW i \in DOMAIN days[d].strips
       PROVE  \E r \in rows : r.day = order[d] /\ r.key = days[d].strips[i].key
  BY <1>8, <1>9 DEF DayOf
<1>12. ASSUME NEW r \in saved, r.key \in Keys(scenes) PROVE Shows(days, r.key)
  <2>1. r \in rows /\ r.day \in used
    BY <1>1, <1>3, <1>12
  <2>2. PICK d \in 1..n : order[d] = r.day
    BY <1>6, <2>1
  <2>3. \E i \in DOMAIN days[d].strips : days[d].strips[i].key = r.key
    BY <1>8, <2>1, <2>2 DEF DayOf
  <2>4. QED
    BY <1>9, <2>3 DEF Shows
<1>13. Once(days)
  <2>1. ASSUME NEW d \in DOMAIN days, NEW e \in DOMAIN days, NEW i \in DOMAIN days[d].strips,
               NEW j \in DOMAIN days[e].strips, days[d].strips[i].key = days[e].strips[j].key
        PROVE  d = e /\ i = j
    <3>1. PICK r \in rows : r.day = order[d] /\ r.key = days[d].strips[i].key
      BY <1>11
    <3>2. PICK q \in rows : q.day = order[e] /\ q.key = days[e].strips[j].key
      BY <1>11
    <3>3. r = q
      BY <1>2, <2>1, <3>1, <3>2 DEF Saved, KeysApart
    <3>4. d = e
      BY <1>6, <1>9, <3>1, <3>2, <3>3
    <3>5. QED
      BY <1>8, <1>9, <2>1, <3>4 DEF DayOf
  <2>2. QED
    BY <2>1 DEF Once
<1>14. \A d \in DOMAIN days : \A i \in DOMAIN days[d].strips :
         \E r \in saved : r.key = days[d].strips[i].key
  BY <1>2, <1>11
<1>15. QED
  BY <1>9, <1>10, <1>12, <1>13, <1>14

(* The board that is built from the saved rows has all scenes. *)
LEMMA Rebuilt ==
  ASSUME NEW scenes \in SceneLists \union {<<>>}, NEW saved, Saved(saved),
         NEW metas, \A m \in metas : m.notes \in 0..MaxMoves, 0 \in 0..MaxMoves,
         NEW built, built = BuildFromSaved(saved, metas, scenes)
  PROVE  built \in Seq(ShootDay) /\ Placed(built, scenes)
<1>1. /\ scenes \in Seq(Scenes) /\ ToSet(scenes) = {scenes[n] : n \in DOMAIN scenes}
  BY ScenesOfAScript
<1>2. PICK days : days = SavedDays(saved, metas, scenes)
  OBVIOUS
<1>3. /\ days \in Seq(ShootDay) /\ Stands(days, ToSet(scenes)) /\ Once(days)
      /\ \A d \in DOMAIN days : \A i \in DOMAIN days[d].strips :
           \E r \in saved : r.key = days[d].strips[i].key
      /\ \A r \in saved : r.key \in Keys(scenes) => Shows(days, r.key)
  BY <1>2, SavedDaysHaveTheirRows
<1>4. PICK places : places = {n \in DOMAIN scenes : scenes[n].key \notin {r.key : r \in saved}}
  OBVIOUS
<1>5. PICK new : new = Kept(scenes, places)
  OBVIOUS
<1>6. Uncovered(saved, scenes) = new
  BY <1>4, <1>5 DEF Uncovered
<1>7. /\ new \in Seq(Scenes)
      /\ \A k \in DOMAIN new : \E i \in places : new[k] = scenes[i]
      /\ \A i \in places : \E k \in DOMAIN new : new[k] = scenes[i]
      /\ (\A i, j \in places : scenes[i] = scenes[j] => i = j) =>
           \A k, m \in DOMAIN new : new[k] = new[m] => k = m
  <2>1. places \in SUBSET (DOMAIN scenes)
    BY <1>4
  <2>2. QED
    BY <1>1, <1>5, <2>1, KeptElements
<1>8. \A k \in DOMAIN new : new[k] \in ToSet(scenes) /\ \A r \in saved : r.key # new[k].key
  BY <1>1, <1>4, <1>7
<1>9. ASSUME NEW x \in ToSet(scenes)
      PROVE  Shows(days, x.key) \/ \E k \in DOMAIN new : new[k].key = x.key
  <2>1. PICK n \in DOMAIN scenes : x = scenes[n]
    BY <1>1
  <2>2. CASE n \in places
    BY <1>7, <2>1, <2>2
  <2>3. CASE n \notin places
    <3>1. PICK r \in saved : r.key = x.key
      BY <1>4, <2>1, <2>3
    <3>2. x.key \in Keys(scenes)
      BY <2>1 DEF Keys
    <3>3. QED
      BY <1>3, <3>1, <3>2
  <2>4. QED
    BY <2>2, <2>3
<1>10. ASSUME DistinctKeys(scenes) PROVE \A k, m \in DOMAIN new : new[k].key = new[m].key => k = m
  <2>1. \A i, j \in places : scenes[i].key = scenes[j].key => i = j
    BY <1>4, <1>10 DEF DistinctKeys
  <2>2. ASSUME NEW k \in DOMAIN new, NEW m \in DOMAIN new, new[k].key = new[m].key PROVE k = m
    <3>1. PICK i \in places : new[k] = scenes[i]
      BY <1>7
    <3>2. PICK j \in places : new[m] = scenes[j]
      BY <1>7
    <3>3. new[k] = new[m]
      BY <2>1, <2>2, <3>1, <3>2
    <3>4. QED
      BY <1>7, <2>1, <3>3
  <2>3. QED
    BY <2>2
<1>11. PICK all : all = days \o (IF new = <<>> THEN <<>> ELSE <<Day(new, 0)>>)
  OBVIOUS
<1>12. built = OneDayAtLeast(all)
  BY <1>2, <1>6, <1>11 DEF BuildFromSaved
<1>13. CASE new = <<>>
  <2>1. all = days
    BY <1>3, <1>11, <1>13
  <2>2. DOMAIN new = {}
    BY <1>13
  <2>3. \A x \in ToSet(scenes) : Shows(days, x.key)
    BY <1>9, <2>2
  <2>4. Placed(all, scenes)
    BY <1>3, <2>1, <2>3, PlacedByDays
  <2>5. QED
    BY <1>3, <1>12, <2>1, <2>4, OneDay, StillPlaced
<1>14. CASE new # <<>>
  <2>1. PICK last \in ShootDay : last = Day(new, 0) /\ last.strips = new
    <3>1. PICK day : day = Day(new, 0)
      OBVIOUS
    <3>2. day = [strips |-> new, notes |-> 0]
      BY <3>1 DEF Day
    <3>3. day \in ShootDay /\ day.strips = new
      BY <1>7, <3>2 DEF ShootDay
    <3>4. QED
      BY <3>1, <3>3
  <2>2. all = days \o <<last>>
    BY <1>11, <1>14, <2>1
  <2>3. PICK n \in Nat : n = Len(days) /\ DOMAIN days = 1..n
    BY <1>3
  <2>4. /\ all \in Seq(ShootDay) /\ DOMAIN all = 1..(n + 1) /\ all[n + 1] = last
        /\ \A d \in 1..n : all[d] = days[d]
    BY <1>3, <2>2, <2>3
  <2>5. \A d \in DOMAIN all : (d \in DOMAIN days /\ all[d] = days[d]) \/ (d = n + 1 /\ all[d].strips = new)
    BY <2>1, <2>3, <2>4
  <2>6. Stands(all, ToSet(scenes))
    BY <1>3, <1>8, <2>5 DEF Stands
  <2>7. ASSUME NEW x \in ToSet(scenes) PROVE Shows(all, x.key)
    <3>1. CASE Shows(days, x.key)
      <4>1. \A d \in DOMAIN days : d \in DOMAIN all /\ all[d] = days[d]
        BY <2>3, <2>4
      <4>2. QED
        BY <3>1, <4>1 DEF Shows
    <3>2. CASE \E k \in DOMAIN new : new[k].key = x.key
      <4>1. n + 1 \in DOMAIN all /\ all[n + 1].strips = new
        BY <2>1, <2>3, <2>4
      <4>2. QED
        BY <3>2, <4>1 DEF Shows
    <3>3. QED
      BY <1>9, <3>1, <3>2
  <2>8. ASSUME DistinctKeys(scenes) PROVE Once(all)
    <3>1. ASSUME NEW d \in DOMAIN all, NEW e \in DOMAIN all, NEW i \in DOMAIN all[d].strips,
                 NEW j \in DOMAIN all[e].strips, all[d].strips[i].key = all[e].strips[j].key
          PROVE  d = e /\ i = j
      <4>1. CASE d \in DOMAIN days /\ e \in DOMAIN days
        <5>1. all[d] = days[d] /\ all[e] = days[e]
          BY <2>3, <2>4, <4>1
        <5>2. QED
          BY <1>3, <3>1, <4>1, <5>1 DEF Once
      <4>2. CASE d = n + 1 /\ e = n + 1
        <5>1. all[d].strips = new /\ all[e].strips = new
          BY <2>1, <2>4, <4>2
        <5>2. QED
          BY <1>10, <2>8, <3>1, <4>2, <5>1
      <4>3. CASE d \in DOMAIN days /\ e = n + 1
        <5>1. all[d] = days[d] /\ all[e].strips = new
          BY <2>1, <2>3, <2>4, <4>3
        <5>2. PICK r \in saved : r.key = days[d].strips[i].key
          BY <1>3, <3>1, <4>3, <5>1
        <5>3. QED
          BY <1>8, <3>1, <5>1, <5>2
      <4>4. CASE d = n + 1 /\ e \in DOMAIN days
        <5>1. all[e] = days[e] /\ all[d].strips = new
          BY <2>1, <2>3, <2>4, <4>4
        <5>2. PICK r \in saved : r.key = days[e].strips[j].key
          BY <1>3, <3>1, <4>4, <5>1
        <5>3. QED
          BY <1>8, <3>1, <5>1, <5>2
      <4>5. QED
        BY <2>5, <4>1, <4>2, <4>3, <4>4
    <3>2. QED
      BY <3>1 DEF Once
  <2>9. Placed(all, scenes)
    BY <2>6, <2>7, <2>8, PlacedByDays
  <2>10. QED
    BY <1>12, <2>4, <2>9, OneDay, StillPlaced
<1>15. QED
  BY <1>13, <1>14

-----------------------------------------------------------------------------
(* What a request may carry. *)
Carries(r) ==
  /\ r \in Get \union Put /\ IsFiniteSet(r.strips)
  /\ r.verb = "get" \/ r.distinct => KeysApart(r.strips)
  /\ r.verb = "put" => DaysApart(r.days)

LEMMA Bounds == MaxMoves \in Nat /\ MaxStrips \in Nat /\ 0 \in 0..MaxMoves
BY StripsAssumption

LEMMA MoreSaves ==
  ASSUME saves \in Nat, saves' \in Nat, saves <= saves'
  PROVE  StripRow \subseteq StripRow' /\ DayRow \subseteq DayRow' /\ Get \subseteq Get' /\ Put \subseteq Put'
<1>1. 1..saves \subseteq 1..saves'
  OBVIOUS
<1>2. StripRow \subseteq StripRow' /\ DayRow \subseteq DayRow'
  BY <1>1 DEF StripRow, DayRow
<1>3. Get \subseteq Get' /\ Put \subseteq Put'
  BY <1>2 DEF Get, Put
<1>4. QED
  BY <1>2, <1>3

LEMMA AllRowsAreRows ==
  ASSUME Tables
  PROVE  AllRows \subseteq StripRow
<1>1. \A r \in exchanges : r.strips \subseteq StripRow
  BY DEF Tables, Get, Put
<1>2. QED
  BY <1>1 DEF Tables, AllRows

(* The tables stay, and a request that is new carries rows that were there. *)
LEMMA TablesStay ==
  ASSUME BoardInv, UNCHANGED <<saves, strips, dayMetas>>,
         \A q \in exchanges' : q \in exchanges \/ (Carries(q) /\ q.strips \subseteq AllRows)
  PROVE  Tables' /\ Identified'
<1>1. StripRow' = StripRow /\ DayRow' = DayRow /\ Get' = Get /\ Put' = Put
  BY DEF StripRow, DayRow, Get, Put
<1>2. Tables'
  <2>1. \A q \in exchanges' : Carries(q)
    BY DEF BoardInv, Tables, Carries
  <2>2. QED
    BY <1>1, <2>1 DEF BoardInv, Tables, Carries
<1>3. AllRows' \subseteq AllRows
  <2>1. \A q \in exchanges : q.strips \subseteq AllRows
    BY DEF AllRows
  <2>2. \A q \in exchanges' : q.strips \subseteq AllRows
    BY <2>1
  <2>3. QED
    BY <2>2 DEF AllRows
<1>4. Identified'
  BY <1>3 DEF BoardInv, Identified, SamePlace
<1>5. QED
  BY <1>2, <1>4

LEMMA BoardWritten ==
  ASSUME Boards, NEW c \in Clients, NEW after \in BoardState, board' = [board EXCEPT ![c] = after],
         after.phase = "shown" => Placed(after.days, after.scenes)
  PROVE  Boards'
<1>1. board' \in [Clients -> BoardState] /\ board'[c] = after /\ \A e \in Clients : e # c => board'[e] = board[e]
  BY DEF Boards
<1>2. QED
  BY <1>1 DEF Boards, OnBoard

LEMMA OpensAndCloses ==
  ASSUME BoardInv, NEW c \in Clients, OpenBoard(c) \/ CloseBoard(c)
  PROVE  BoardInv'
<1>1. Closed \in BoardState /\ Closed.phase = "closed"
  BY DEF Closed, BoardState, SceneLists
<1>2. CASE CloseBoard(c)
  <2>1. Boards'
    BY <1>1, <1>2, BoardWritten DEF CloseBoard, BoardInv
  <2>2. \A q \in exchanges' : q \in exchanges
    BY <1>2 DEF CloseBoard
  <2>3. UNCHANGED <<script, moves, saves, strips, dayMetas>>
    BY <1>2 DEF CloseBoard, boardCounters
  <2>4. Tables' /\ Identified'
    BY <2>2, <2>3, TablesStay
  <2>5. boardHistory' \in [finished : Nat, crossed : BOOLEAN, by : SUBSET Clients]
    BY <1>2 DEF CloseBoard, BoardInv, Counts
  <2>6. QED
    BY <2>1, <2>3, <2>4, <2>5 DEF BoardInv, Counts
<1>3. CASE OpenBoard(c)
  <2>0. PICK again \in BOOLEAN : again = (boardHistory.finished > 0)
    <3>1. boardHistory.finished \in Nat
      BY DEF BoardInv, Counts
    <3>2. (boardHistory.finished > 0) \in BOOLEAN
      BY <3>1
    <3>3. QED
      BY <3>2, Zenon
  <2>1. PICK after : after = [Closed EXCEPT !.phase = "loading", !.scenes = SceneList(script), !.again = again]
    OBVIOUS
  <2>2. SceneList(script) \in SceneLists
    BY DEF SceneLists, BoardInv
  <2>3. after \in BoardState /\ after.phase = "loading"
    <3>1. \A b \in BoardState : \A t \in SceneLists :
            LET new == [b EXCEPT !.phase = "loading", !.scenes = t, !.again = again]
            IN  new \in BoardState /\ new.phase = "loading"
      BY DEF BoardState
    <3>2. QED
      BY <1>1, <2>1, <2>2, <3>1
  <2>4. Boards'
    <3>1. board' = [board EXCEPT ![c] = after]
      BY <1>3, <2>0, <2>1, Zenon DEF OpenBoard
    <3>2. QED
      BY <2>3, <3>1, BoardWritten DEF BoardInv
  <2>5. PICK s : s = [verb |-> "get", client |-> c, stage |-> "sent", strips |-> {}, days |-> {}]
    OBVIOUS
  <2>6. Carries(s) /\ s.strips \subseteq AllRows
    BY <2>5, FS_EmptySet DEF Carries, Get, KeysApart
  <2>7. UNCHANGED <<script, moves, saves, strips, dayMetas, boardHistory>> /\ \A q \in exchanges' : q \in exchanges \/ q = s
    BY <1>3, <2>5 DEF OpenBoard
  <2>8. Tables' /\ Identified'
    BY <2>6, <2>7, TablesStay
  <2>9. QED
    BY <2>4, <2>7, <2>8 DEF BoardInv, Counts
<1>4. QED
  BY <1>2, <1>3

(* An answer, or its failure, shows a board with all scenes. *)
LEMMA ShowsABoard ==
  ASSUME Boards, NEW c \in Clients, NEW days \in Seq(ShootDay), Placed(days, board[c].scenes),
         NEW suggested \in BOOLEAN, ShowBoard(c, days, suggested)
  PROVE  Boards'
<1>1. PICK b \in BoardState : b = board[c]
  BY DEF Boards
<1>2. PICK after : after = [b EXCEPT !.phase = "shown", !.days = days, !.suggested = suggested]
  OBVIOUS
<1>3. after \in BoardState /\ after.days = days /\ after.scenes = b.scenes
  BY <1>2 DEF BoardState
<1>4. board' = [board EXCEPT ![c] = after]
  BY <1>1, <1>2 DEF ShowBoard
<1>5. QED
  BY <1>1, <1>3, <1>4, BoardWritten

LEMMA Loads ==
  ASSUME BoardInv, NEW r \in exchanges, LoadSchedule(r) \/ LoadScheduleFailed(r)
  PROVE  BoardInv'
<1>1. r.verb = "get"
  BY DEF LoadSchedule, LoadScheduleFailed
<1>2. r \in Get
  BY <1>1 DEF BoardInv, Tables, Put
<1>3. r.client \in Clients /\ board[r.client].scenes \in SceneLists \union {<<>>}
  <2>1. r.client \in Clients
    BY <1>2 DEF Get
  <2>2. board[r.client] \in BoardState
    BY <2>1 DEF BoardInv, Boards
  <2>3. QED
    BY <2>1, <2>2 DEF BoardState
<1>4. PICK c \in Clients, scenes \in SceneLists \union {<<>>} : c = r.client /\ scenes = board[c].scenes
  BY <1>3
<1>5. AutoSuggestDays(scenes) \in Seq(ShootDay) /\ Placed(AutoSuggestDays(scenes), scenes)
  BY Bounds, Suggested
<1>6. Boards'
  <2>1. CASE LoadScheduleFailed(r)
    <3>1. ShowBoard(c, AutoSuggestDays(scenes), TRUE)
      BY <1>4, <2>1 DEF LoadScheduleFailed
    <3>2. QED
      BY <1>4, <1>5, <3>1, ShowsABoard DEF BoardInv
  <2>2. CASE LoadSchedule(r)
    <3>1. PICK days, suggested : /\ days = (IF r.strips = {} THEN AutoSuggestDays(scenes)
                                             ELSE BuildFromSaved(r.strips, r.days, scenes))
                                 /\ suggested = (r.strips = {})
      OBVIOUS
    <3>2. ShowBoard(c, days, suggested)
      BY <1>4, <2>2, <3>1 DEF LoadSchedule
    <3>3. suggested \in BOOLEAN
      BY <3>1
    <3>4. Saved(r.strips)
      <4>1. IsFiniteSet(r.strips) /\ KeysApart(r.strips)
        BY <1>1 DEF BoardInv, Tables
      <4>2. r.strips \subseteq AllRows
        BY DEF AllRows
      <4>3. \A a \in r.strips : a.day \in Nat /\ a.position \in Nat /\ a.save \in Nat
        <5>1. \A a \in StripRow : a.day \in Nat /\ a.position \in Nat /\ a.save \in Nat
          BY DEF StripRow, BoardInv, Counts
        <5>2. QED
          BY <4>2, <5>1, AllRowsAreRows DEF BoardInv
      <4>4. QED
        BY <4>1, <4>2, <4>3 DEF Saved, BoardInv, Identified
    <3>5. \A m \in r.days : m.notes \in 0..MaxMoves
      BY <1>2 DEF Get, DayRow
    <3>6. days \in Seq(ShootDay) /\ Placed(days, scenes)
      <4>1. CASE r.strips = {}
        BY <1>5, <3>1, <4>1
      <4>2. CASE r.strips # {}
        <5>1. days = BuildFromSaved(r.strips, r.days, scenes)
          BY <3>1, <4>2
        <5>2. QED
          BY <3>4, <3>5, <5>1, Bounds, Rebuilt
      <4>3. QED
        BY <4>1, <4>2
    <3>7. QED
      BY <1>4, <3>2, <3>3, <3>6, ShowsABoard DEF BoardInv
  <2>3. QED
    BY <2>1, <2>2
<1>7. UNCHANGED <<script, moves, saves, strips, dayMetas, boardHistory>> /\ \A q \in exchanges' : q \in exchanges
  BY DEF LoadSchedule, LoadScheduleFailed, boardCounters
<1>8. Tables' /\ Identified'
  BY <1>7, TablesStay
<1>9. QED
  BY <1>6, <1>7, <1>8 DEF BoardInv, Counts

(* A board's days in its state. *)
LEMMA DaysWritten ==
  ASSUME Boards, NEW c \in Clients, OnBoard(c), NEW days \in Seq(ShootDay), Placed(days, board[c].scenes),
         NEW unsaved \in BOOLEAN, board' = [board EXCEPT ![c].days = days, ![c].unsaved = unsaved]
  PROVE  Boards'
<1>1. PICK b \in BoardState : b = board[c]
  BY DEF Boards
<1>2. PICK after : after = [b EXCEPT !.days = days, !.unsaved = unsaved]
  OBVIOUS
<1>3. after \in BoardState /\ after.days = days /\ after.scenes = b.scenes
  BY <1>2 DEF BoardState
<1>4. board' = [board EXCEPT ![c] = after]
  BY <1>1, <1>2
<1>5. QED
  BY <1>1, <1>3, <1>4, BoardWritten

LEMMA BoardHasDays ==
  ASSUME Boards, NEW c \in Clients
  PROVE  board[c].days \in Seq(ShootDay) /\ board[c].scenes \in SceneLists \union {<<>>}
         /\ (OnBoard(c) => Placed(board[c].days, board[c].scenes))
<1>1. board[c] \in BoardState
  BY DEF Boards
<1>2. QED
  BY <1>1 DEF Boards, BoardState

-----------------------------------------------------------------------------
LEMMA FinitelyManyPlaces ==
  ASSUME NEW days \in Seq(ShootDay)
  PROVE  IsFiniteSet(PlacesOn(days))
<1> DEFINE On(d) == {d} \X (DOMAIN days[d].strips)
           f == [d \in DOMAIN days |-> On(d)]
           all == {On(d) : d \in DOMAIN days}
<1>1. ASSUME NEW d \in DOMAIN days PROVE IsFiniteSet(On(d))
  <2>1. PICK s \in Seq(Scenes) : s = days[d].strips
    BY StripsOfADay
  <2>2. IsFiniteSet(DOMAIN s)
    <3>1. DOMAIN s = 1..Len(s) /\ Len(s) \in Nat
      OBVIOUS
    <3>2. QED
      BY <3>1, FS_Interval
  <2>3. IsFiniteSet({d})
    BY FS_Singleton
  <2>4. QED
    BY <2>1, <2>2, <2>3, FS_Product
<1>2. IsFiniteSet(DOMAIN days)
  <2>1. DOMAIN days = 1..Len(days) /\ Len(days) \in Nat
    OBVIOUS
  <2>2. QED
    BY <2>1, FS_Interval
<1> HIDE DEF On
<1>3. f \in Surjection(DOMAIN days, all)
  BY DEF Surjection
<1>4. IsFiniteSet(all)
  BY <1>2, <1>3, FS_Surjection
<1>5. IsFiniteSet(UNION all)
  BY <1>1, <1>4, FS_UNION
<1>6. PlacesOn(days) = UNION all
  BY DEF PlacesOn, On
<1>7. QED
  BY <1>5, <1>6

(* The rows of a save: one for each place, and one for each day. *)
LEMMA RowsOfASave ==
  ASSUME NEW days \in Seq(ShootDay), NEW scenes \in SceneLists \union {<<>>}, Placed(days, scenes), NEW save,
         NEW rows, rows = StripRows(days, save)
  PROVE  /\ IsFiniteSet(rows)
         /\ \A r \in rows : /\ r.key \in AllKeys /\ r.day \in Nat \ {0} /\ r.position \in Nat /\ r.save = save
                            /\ r = [key |-> r.key, day |-> r.day, position |-> r.position, save |-> r.save]
         /\ \A a, b \in rows : SamePlace(a, b) => a = b
         /\ OncePlaced(days) => KeysApart(rows)
<1> DEFINE Row(p) == [key |-> StripAt(days, p).key, day |-> p[1], position |-> p[2] - 1, save |-> save]
           f == [p \in PlacesOn(days) |-> Row(p)]
<1>1. rows = {Row(p) : p \in PlacesOn(days)}
  BY DEF StripRows
<1>2. \A p : /\ Row(p).key = StripAt(days, p).key /\ Row(p).day = p[1] /\ Row(p).position = p[2] - 1
             /\ Row(p).save = save
             /\ Row(p) = [key |-> Row(p).key, day |-> Row(p).day, position |-> Row(p).position, save |-> Row(p).save]
  OBVIOUS
<1> HIDE DEF Row
<1>3. IsFiniteSet(rows)
  <2>1. f \in Surjection(PlacesOn(days), rows)
    BY <1>1 DEF Surjection
  <2>2. QED
    BY <2>1, FinitelyManyPlaces, FS_Surjection
<1>4. \A p \in PlacesOn(days) : p = <<p[1], p[2]>> /\ p[1] \in Nat \ {0} /\ p[2] \in Nat \ {0}
  <2> TAKE p \in PlacesOn(days)
  <2>1. PICK d, i : d \in DOMAIN days /\ i \in DOMAIN days[d].strips /\ p = <<d, i>>
    BY PlacePairs
  <2>2. PICK s \in Seq(Scenes) : s = days[d].strips
    BY <2>1, StripsOfADay
  <2>3. DOMAIN days = 1..Len(days) /\ DOMAIN s = 1..Len(s) /\ Len(s) \in Nat /\ Len(days) \in Nat
    OBVIOUS
  <2>4. d \in Nat \ {0} /\ i \in Nat \ {0}
    BY <2>1, <2>2, <2>3
  <2>5. QED
    BY <2>1, <2>4
<1>5. \A p \in PlacesOn(days) : StripAt(days, p).key \in AllKeys
  BY ScenesOfAScript DEF Placed
<1>6. ASSUME NEW r \in rows
      PROVE  /\ r.key \in AllKeys /\ r.day \in Nat \ {0} /\ r.position \in Nat /\ r.save = save
             /\ r = [key |-> r.key, day |-> r.day, position |-> r.position, save |-> r.save]
  <2>1. PICK p \in PlacesOn(days) : r = Row(p)
    BY <1>1
  <2>2. r.key \in AllKeys /\ r.day \in Nat \ {0} /\ r.save = save
    BY <1>2, <1>4, <1>5, <2>1
  <2>3. r.position \in Nat
    <3>1. r.position = p[2] - 1 /\ p[2] \in Nat \ {0}
      BY <1>2, <1>4, <2>1
    <3>2. QED
      BY <3>1
  <2>4. r = [key |-> r.key, day |-> r.day, position |-> r.position, save |-> r.save]
    BY <1>2, <2>1
  <2>5. QED
    BY <2>2, <2>3, <2>4
<1>7. ASSUME NEW a \in rows, NEW b \in rows, SamePlace(a, b) PROVE a = b
  <2>1. PICK p \in PlacesOn(days) : a = Row(p)
    BY <1>1
  <2>2. PICK q \in PlacesOn(days) : b = Row(q)
    BY <1>1
  <2>3. p[1] = q[1] /\ p[2] - 1 = q[2] - 1
    BY <1>2, <1>7, <2>1, <2>2 DEF SamePlace
  <2>4. p[2] = q[2]
    BY <1>4, <2>3
  <2>5. p = q
    BY <1>4, <2>3, <2>4
  <2>6. QED
    BY <2>1, <2>2, <2>5
<1>8. ASSUME OncePlaced(days) PROVE KeysApart(rows)
  <2>1. ASSUME NEW a \in rows, NEW b \in rows, a.key = b.key PROVE a = b
    <3>1. PICK p \in PlacesOn(days) : a = Row(p)
      BY <1>1
    <3>2. PICK q \in PlacesOn(days) : b = Row(q)
      BY <1>1
    <3>3. StripAt(days, p).key = StripAt(days, q).key
      BY <1>2, <2>1, <3>1, <3>2
    <3>4. p = q
      BY <1>8, <3>3 DEF OncePlaced
    <3>5. QED
      BY <3>1, <3>2, <3>4
  <2>2. QED
    BY <2>1 DEF KeysApart
<1>9. QED
  BY <1>3, <1>6, <1>7, <1>8

LEMMA DaysOfASave ==
  ASSUME NEW days \in Seq(ShootDay), NEW save, NEW rows, rows = DayRows(days, save)
  PROVE  /\ \A m \in rows : /\ m.day \in Nat \ {0} /\ m.notes \in 0..MaxMoves /\ m.save = save
                            /\ m = [day |-> m.day, notes |-> m.notes, save |-> m.save]
         /\ DaysApart(rows)
<1> DEFINE Row(d) == [day |-> d, notes |-> days[d].notes, save |-> save]
<1>1. rows = {Row(d) : d \in DOMAIN days}
  BY DEF DayRows
<1>2. \A d : /\ Row(d).day = d /\ Row(d).notes = days[d].notes /\ Row(d).save = save
             /\ Row(d) = [day |-> Row(d).day, notes |-> Row(d).notes, save |-> Row(d).save]
  OBVIOUS
<1> HIDE DEF Row
<1>3. \A d \in DOMAIN days : d \in Nat \ {0} /\ days[d].notes \in 0..MaxMoves
  <2> TAKE d \in DOMAIN days
  <2>1. days[d] \in ShootDay /\ d \in Nat \ {0}
    OBVIOUS
  <2>2. QED
    BY <2>1 DEF ShootDay
<1>4. QED
  BY <1>1, <1>2, <1>3 DEF DaysApart

(* persist *)
LEMMA Persists ==
  ASSUME BoardInv, NEW c \in Clients, OnBoard(c), NEW days \in Seq(ShootDay), Reordered(days, board[c].days),
         Persist(c, days), UNCHANGED <<script, strips, dayMetas>>, moves' \in Nat
  PROVE  BoardInv'
<1>1. PICK scenes \in SceneLists \union {<<>>} : scenes = board[c].scenes
  BY BoardHasDays DEF BoardInv
<1>2. Placed(days, scenes)
  BY <1>1, BoardHasDays, StillPlaced DEF BoardInv
<1>3. Boards'
  BY <1>1, <1>2, DaysWritten DEF BoardInv, Persist
<1>4. saves \in Nat /\ saves' = saves + 1 /\ saves' \in Nat /\ saves <= saves'
  BY DEF BoardInv, Counts, Persist
<1>5. PICK rows : rows = StripRows(days, saves')
  OBVIOUS
<1>6. PICK dayRows : dayRows = DayRows(days, saves')
  OBVIOUS
<1>7. PICK distinct \in BOOLEAN : distinct = OncePlaced(days)
  BY DEF OncePlaced
<1>8. PICK s : s = [verb |-> "put", stage |-> "sent", strips |-> rows, days |-> dayRows,
                    seen |-> {}, seenDays |-> {}, distinct |-> distinct]
  OBVIOUS
<1>9. exchanges' = exchanges \union {s}
  BY <1>4, <1>5, <1>6, <1>7, <1>8 DEF Persist
<1>10. /\ IsFiniteSet(rows)
       /\ \A r \in rows : /\ r.key \in AllKeys /\ r.day \in Nat \ {0} /\ r.position \in Nat /\ r.save = saves'
                          /\ r = [key |-> r.key, day |-> r.day, position |-> r.position, save |-> r.save]
       /\ \A a, b \in rows : SamePlace(a, b) => a = b
       /\ OncePlaced(days) => KeysApart(rows)
  BY <1>2, <1>5, RowsOfASave
<1>11. /\ \A m \in dayRows : /\ m.day \in Nat \ {0} /\ m.notes \in 0..MaxMoves /\ m.save = saves'
                             /\ m = [day |-> m.day, notes |-> m.notes, save |-> m.save]
       /\ DaysApart(dayRows)
  BY <1>6, DaysOfASave
<1>12. rows \subseteq StripRow' /\ dayRows \subseteq DayRow'
  <2>1. saves' \in 1..saves'
    BY <1>4
  <2>2. ASSUME NEW r \in rows PROVE r \in StripRow'
    BY <1>10, <2>1 DEF StripRow
  <2>3. ASSUME NEW m \in dayRows PROVE m \in DayRow'
    BY <1>11, <2>1 DEF DayRow
  <2>4. QED
    BY <2>2, <2>3
<1>13. StripRow \subseteq StripRow' /\ DayRow \subseteq DayRow' /\ Get \subseteq Get' /\ Put \subseteq Put'
  BY <1>4, MoreSaves
<1>14. s \in Put' /\ s.strips = rows /\ s.days = dayRows /\ s.verb = "put" /\ s.distinct = distinct
  BY <1>8, <1>12 DEF Put
<1>15. Tables'
  <2>1. strips' = strips /\ dayMetas' = dayMetas
    OBVIOUS
  <2>2. ASSUME NEW r \in exchanges'
        PROVE  /\ r \in Get' \union Put' /\ IsFiniteSet(r.strips)
               /\ r.verb = "get" \/ r.distinct => KeysApart(r.strips)
               /\ r.verb = "put" => DaysApart(r.days)
    <3>1. CASE r \in exchanges
      BY <1>13, <3>1 DEF BoardInv, Tables
    <3>2. CASE r = s
      BY <1>7, <1>10, <1>11, <1>14, <3>2
    <3>3. QED
      BY <1>9, <3>1, <3>2
  <2>3. QED
    BY <1>13, <2>1, <2>2 DEF BoardInv, Tables
<1>16. AllRows' \subseteq AllRows \union rows
  <2>1. \A r \in exchanges' : r.strips \subseteq AllRows \union rows
    BY <1>9, <1>14 DEF AllRows
  <2>2. strips' \subseteq AllRows
    BY DEF AllRows
  <2>3. QED
    BY <2>1, <2>2 DEF AllRows
<1>17. Identified'
  <2>1. \A r \in AllRows : r.save \in Nat /\ r.save # saves'
    <3>1. \A r \in StripRow : r.save \in Nat /\ r.save # saves'
      BY <1>4 DEF StripRow
    <3>2. QED
      BY <3>1, AllRowsAreRows DEF BoardInv
  <2>2. \A a, b \in AllRows \union rows : SamePlace(a, b) => a = b
    <3>1. \A a, b \in AllRows : SamePlace(a, b) => a = b
      BY DEF BoardInv, Identified
    <3>2. \A a \in AllRows, b \in rows : ~SamePlace(a, b) /\ ~SamePlace(b, a)
      BY <1>10, <2>1 DEF SamePlace
    <3>3. QED
      BY <1>10, <3>1, <3>2
  <2>3. QED
    BY <1>16, <2>2 DEF Identified, SamePlace
<1>18. boardHistory' \in [finished : Nat, crossed : BOOLEAN, by : SUBSET Clients]
  <2>1. PICK h \in [finished : Nat, crossed : BOOLEAN, by : SUBSET Clients] : h = boardHistory
    BY DEF BoardInv, Counts
  <2>2. PICK crossed \in BOOLEAN : crossed = (h.crossed \/ Puts # {})
    OBVIOUS
  <2>3. boardHistory' = [h EXCEPT !.crossed = crossed, !.by = {c}]
    BY <2>1, <2>2 DEF Persist
  <2>4. QED
    BY <2>3
<1>19. QED
  BY <1>3, <1>4, <1>15, <1>17, <1>18 DEF BoardInv, Counts

(* A change of a board: its strips stay, and it is saved or is not yet. *)
NotSaved(c, days) ==
  /\ board' = [board EXCEPT ![c].days = days, ![c].unsaved = TRUE]
  /\ UNCHANGED <<exchanges, saves, boardHistory>>

Changed(c, days) ==
  /\ OnBoard(c) /\ moves' \in Nat /\ UNCHANGED <<script, strips, dayMetas, losses>>
  /\ days \in Seq(ShootDay) /\ Reordered(days, board[c].days)
  /\ Persist(c, days) \/ NotSaved(c, days)

LEMMA MovesChange ==
  ASSUME BoardInv, NEW c \in Clients, OnDrop(c) \/ AddDay(c) \/ RemoveDay(c) \/ CloseCallSheet(c) \/ OnEscape(c)
  PROVE  \E days : Changed(c, days)
<1>1. OnBoard(c) /\ moves < MaxMoves /\ moves' = moves + 1 /\ moves \in Nat
  BY DEF OnDrop, AddDay, RemoveDay, CloseCallSheet, OnEscape, Move, BoardInv, Counts
<1>2. moves' \in Nat /\ moves + 1 \in 0..MaxMoves
  BY <1>1, Bounds
<1>3. UNCHANGED <<script, strips, dayMetas, losses>>
  BY DEF OnDrop, AddDay, RemoveDay, CloseCallSheet, OnEscape, MoveRest
<1>4. PICK days \in Seq(ShootDay) : days = board[c].days
  BY BoardHasDays DEF BoardInv
<1>5. CASE OnDrop(c)
  <2>0. \E from, to \in DOMAIN board[c].days : \E i \in DOMAIN board[c].days[from].strips :
          \E j \in 1..Len(Taking(board[c].days, from, i)[to].strips) + 1 :
             Persist(c, Putting(Taking(board[c].days, from, i), to, j, board[c].days[from].strips[i]))
    BY <1>5, Zenon DEF OnDrop, Taking, Putting
  <2>1. PICK from \in DOMAIN days, to \in DOMAIN days : \E i \in DOMAIN days[from].strips :
          \E j \in 1..Len(Taking(days, from, i)[to].strips) + 1 :
             Persist(c, Putting(Taking(days, from, i), to, j, days[from].strips[i]))
    BY <1>4, <2>0
  <2>2. PICK i \in DOMAIN days[from].strips :
          \E j \in 1..Len(Taking(days, from, i)[to].strips) + 1 :
             Persist(c, Putting(Taking(days, from, i), to, j, days[from].strips[i]))
    BY <2>1
  <2>3. PICK taken : taken = Taking(days, from, i)
    OBVIOUS
  <2>4. PICK j \in 1..Len(taken[to].strips) + 1 : Persist(c, Putting(taken, to, j, days[from].strips[i]))
    BY <2>2, <2>3
  <2>5. PICK new : new = Putting(taken, to, j, days[from].strips[i])
    OBVIOUS
  <2>6. new \in Seq(ShootDay) /\ Reordered(new, days)
    BY <2>3, <2>5, StripMoved
  <2>7. Persist(c, new)
    BY <2>4, <2>5
  <2>8. QED
    BY <1>1, <1>2, <1>3, <1>4, <2>6, <2>7 DEF Changed
<1>6. CASE AddDay(c)
  <2>1. PICK new : new = Append(days, Day(<<>>, 0))
    OBVIOUS
  <2>2. new \in Seq(ShootDay) /\ Reordered(new, days)
    BY <2>1, Bounds, DayAdded
  <2>3. board' = [board EXCEPT ![c].days = new, ![c].unsaved = TRUE]
    BY <1>4, <1>6, <2>1 DEF AddDay
  <2>4. NotSaved(c, new)
    BY <1>6, <2>3 DEF AddDay, NotSaved
  <2>5. QED
    BY <1>1, <1>2, <1>3, <1>4, <2>2, <2>4 DEF Changed
<1>7. CASE RemoveDay(c)
  <2>1. PICK d \in DOMAIN days : days[d].strips = <<>> /\ Persist(c, RemoveAt(days, d))
    BY <1>4, <1>7 DEF RemoveDay
  <2>2. PICK new : new = RemoveAt(days, d)
    OBVIOUS
  <2>3. new \in Seq(ShootDay) /\ Reordered(new, days)
    BY <2>1, <2>2, DayRemoved
  <2>4. QED
    BY <1>1, <1>2, <1>3, <1>4, <2>1, <2>2, <2>3 DEF Changed
<1>8. CASE CloseCallSheet(c)
  <2>1. PICK d \in DOMAIN days : Persist(c, [days EXCEPT ![d].notes = moves + 1])
    BY <1>4, <1>8 DEF CloseCallSheet
  <2>2. PICK n \in 0..MaxMoves : n = moves + 1
    BY <1>2
  <2>3. PICK new : new = [days EXCEPT ![d].notes = n]
    OBVIOUS
  <2>4. new \in Seq(ShootDay) /\ Reordered(new, days)
    BY <2>3, NotesWritten
  <2>5. Persist(c, new)
    BY <2>1, <2>2, <2>3
  <2>6. QED
    BY <1>1, <1>2, <1>3, <1>4, <2>4, <2>5 DEF Changed
<1>9. CASE OnEscape(c)
  <2>1. PICK d \in DOMAIN days : board' = [board EXCEPT ![c].days[d].notes = moves + 1, ![c].unsaved = TRUE]
    BY <1>4, <1>9 DEF OnEscape
  <2>2. PICK n \in 0..MaxMoves : n = moves + 1
    BY <1>2
  <2>3. PICK new : new = [days EXCEPT ![d].notes = n]
    OBVIOUS
  <2>4. new \in Seq(ShootDay) /\ Reordered(new, days)
    BY <2>3, NotesWritten
  <2>5. board' = [board EXCEPT ![c].days = new, ![c].unsaved = TRUE]
    BY <1>4, <2>1, <2>2, <2>3
  <2>6. NotSaved(c, new)
    BY <1>9, <2>5 DEF OnEscape, NotSaved
  <2>7. QED
    BY <1>1, <1>2, <1>3, <1>4, <2>4, <2>6 DEF Changed
<1>10. QED
  BY <1>5, <1>6, <1>7, <1>8, <1>9

LEMMA Moves ==
  ASSUME BoardInv, NEW c \in Clients, NEW days, Changed(c, days)
  PROVE  BoardInv'
<1>1. /\ OnBoard(c) /\ moves' \in Nat /\ UNCHANGED <<script, strips, dayMetas, losses>>
      /\ days \in Seq(ShootDay) /\ Reordered(days, board[c].days)
  BY DEF Changed
<1>2. CASE Persist(c, days)
  BY <1>1, <1>2, Persists
<1>3. CASE NotSaved(c, days)
  <2>1. Boards'
    BY <1>1, <1>3, BoardHasDays, StillPlaced, DaysWritten DEF BoardInv, NotSaved
  <2>2. Tables' /\ Identified'
    BY <1>1, <1>3, TablesStay DEF NotSaved
  <2>3. QED
    BY <1>1, <1>3, <2>1, <2>2 DEF BoardInv, Counts, NotSaved
<1>4. QED
  BY <1>2, <1>3 DEF Changed

(* A request goes one step on. *)
LEMMA GoesOn ==
  ASSUME BoardInv, NEW r \in exchanges, NEW s, Advance(r, s), Carries(s), s.strips \subseteq AllRows,
         UNCHANGED <<script, board, strips, dayMetas, boardCounters, saves, boardHistory>>
  PROVE  BoardInv'
<1>1. \A q \in exchanges' : q \in exchanges \/ q = s
  BY DEF Advance
<1>2. Tables' /\ Identified'
  BY <1>1, TablesStay
<1>3. QED
  BY <1>2 DEF BoardInv, Boards, OnBoard, Counts, boardCounters

(* getSchedule reads, Replace deletes. *)
LEMMA Serves ==
  ASSUME BoardInv, NEW r \in exchanges, ListStrips(r) \/ ListDays(r) \/ DeleteStrips(r) \/ DeleteDays(r)
  PROVE  BoardInv'
<1>1. /\ strips \subseteq StripRow /\ IsFiniteSet(strips) /\ KeysApart(strips) /\ dayMetas \subseteq DayRow
      /\ strips \subseteq AllRows /\ r.strips \subseteq AllRows /\ Carries(r)
  BY DEF BoardInv, Tables, AllRows, Carries
<1>2. CASE ListStrips(r)
  <2>1. PICK s : s = [r EXCEPT !.stage = "strips", !.strips = strips]
    OBVIOUS
  <2>2. r \in Get
    BY <1>1, <1>2 DEF ListStrips, Carries, Put
  <2>3. s \in Get /\ s.strips = strips /\ s.verb = "get"
    BY <1>1, <2>1, <2>2 DEF Get
  <2>4. Carries(s)
    BY <1>1, <2>3 DEF Carries
  <2>5. QED
    BY <1>1, <1>2, <2>1, <2>3, <2>4, GoesOn DEF ListStrips
<1>3. CASE ListDays(r)
  <2>1. PICK s : s = [r EXCEPT !.stage = "both", !.days = dayMetas]
    OBVIOUS
  <2>2. r \in Get
    BY <1>1, <1>3 DEF ListDays, Carries, Put
  <2>3. s \in Get /\ s.strips = r.strips /\ s.verb = "get"
    BY <1>1, <2>1, <2>2 DEF Get
  <2>4. Carries(s)
    BY <1>1, <1>3, <2>3 DEF Carries, ListDays
  <2>5. QED
    BY <1>1, <1>3, <2>1, <2>3, <2>4, GoesOn DEF ListDays
<1>4. CASE DeleteStrips(r)
  <2>1. PICK s : s = [r EXCEPT !.stage = "strips", !.seen = strips]
    OBVIOUS
  <2>2. r \in Put
    BY <1>1, <1>4 DEF DeleteStrips, Carries, Get
  <2>3. s \in Put /\ s.strips = r.strips /\ s.days = r.days /\ s.verb = "put" /\ s.distinct = r.distinct
    BY <1>1, <2>1, <2>2 DEF Put
  <2>4. Carries(s)
    BY <1>1, <1>4, <2>3 DEF Carries, DeleteStrips
  <2>5. QED
    BY <1>1, <1>4, <2>1, <2>3, <2>4, GoesOn DEF DeleteStrips
<1>5. CASE DeleteDays(r)
  <2>1. PICK s : s = [r EXCEPT !.stage = "days", !.seenDays = dayMetas]
    OBVIOUS
  <2>2. r \in Put
    BY <1>1, <1>5 DEF DeleteDays, Carries, Get
  <2>3. s \in Put /\ s.strips = r.strips /\ s.days = r.days /\ s.verb = "put" /\ s.distinct = r.distinct
    BY <1>1, <2>1, <2>2 DEF Put
  <2>4. Carries(s)
    BY <1>1, <1>5, <2>3 DEF Carries, DeleteDays
  <2>5. QED
    BY <1>1, <1>5, <2>1, <2>3, <2>4, GoesOn DEF DeleteDays
<1>6. QED
  BY <1>2, <1>3, <1>4, <1>5

(* What a save leaves: the rows it did not see and its own, no heading twice. *)
LEMMA Commits ==
  ASSUME BoardInv, NEW r \in exchanges, Commit(r)
  PROVE  BoardInv'
<1>1. r \in Put /\ IsFiniteSet(r.strips) /\ (r.distinct => KeysApart(r.strips)) /\ DaysApart(r.days)
  BY DEF Commit, BoardInv, Tables, Get
<1>2. r.strips \subseteq StripRow /\ r.days \subseteq DayRow
  BY <1>1 DEF Put
<1>3. UNCHANGED <<script, board, saves, moves>> /\ exchanges' = exchanges \ {r}
  BY DEF Commit, boardCounters
<1>4. StripRow' = StripRow /\ DayRow' = DayRow /\ Get' = Get /\ Put' = Put
  BY <1>3 DEF StripRow, DayRow, Get, Put
<1>5. /\ strips' \subseteq StripRow /\ IsFiniteSet(strips') /\ KeysApart(strips')
      /\ dayMetas' \subseteq DayRow /\ DaysApart(dayMetas')
      /\ strips' \subseteq AllRows
  <2>1. /\ strips \subseteq StripRow /\ IsFiniteSet(strips) /\ KeysApart(strips)
        /\ dayMetas \subseteq DayRow /\ DaysApart(dayMetas)
        /\ strips \subseteq AllRows /\ r.strips \subseteq AllRows
    BY DEF BoardInv, Tables, AllRows
  <2>2. CASE InsertsRefused(r)
    <3>1. UNCHANGED <<strips, dayMetas>>
      BY <2>2 DEF Commit
    <3>2. QED
      BY <2>1, <3>1
  <2>3. CASE ~InsertsRefused(r)
    <3>1. strips' = (strips \ r.seen) \union r.strips /\ dayMetas' = (dayMetas \ r.seenDays) \union r.days
      BY <2>3 DEF Commit
    <3>2. /\ r.distinct
          /\ \A a \in strips \ r.seen, b \in r.strips : a.key # b.key
          /\ \A a \in dayMetas \ r.seenDays, b \in r.days : a.day # b.day
      BY <2>3 DEF InsertsRefused
    <3>3. IsFiniteSet(strips')
      <4>1. IsFiniteSet(strips \ r.seen)
        BY <2>1, FS_Subset
      <4>2. QED
        BY <1>1, <3>1, <4>1, FS_Union
    <3>4. KeysApart(strips')
      BY <1>1, <2>1, <3>1, <3>2 DEF KeysApart
    <3>5. DaysApart(dayMetas')
      BY <1>1, <2>1, <3>1, <3>2 DEF DaysApart
    <3>6. strips' \subseteq StripRow /\ dayMetas' \subseteq DayRow /\ strips' \subseteq AllRows
      BY <1>2, <2>1, <3>1
    <3>7. QED
      BY <3>3, <3>4, <3>5, <3>6
  <2>4. QED
    BY <2>2, <2>3
<1>6. Tables'
  BY <1>3, <1>4, <1>5 DEF BoardInv, Tables
<1>7. Identified'
  <2>1. AllRows' \subseteq AllRows
    BY <1>3, <1>5 DEF AllRows
  <2>2. QED
    BY <2>1 DEF BoardInv, Identified, SamePlace
<1>8. boardHistory' \in [finished : Nat, crossed : BOOLEAN, by : SUBSET Clients]
  BY DEF Commit, BoardInv, Counts
<1>9. QED
  BY <1>3, <1>6, <1>7, <1>8 DEF BoardInv, Boards, OnBoard, Counts

LEMMA BoardInvInit == BoardInit => BoardInv
<1> SUFFICES ASSUME BoardInit PROVE BoardInv
  OBVIOUS
<1>1. Closed \in BoardState /\ Closed.phase = "closed"
  BY DEF Closed, BoardState, SceneLists
<1>2. Boards
  BY <1>1 DEF BoardInit, Boards, OnBoard
<1>3. Tables
  BY FS_EmptySet DEF BoardInit, Tables, KeysApart, DaysApart
<1>4. Identified
  BY DEF BoardInit, Identified, AllRows
<1>5. Counts
  BY DEF BoardInit, Counts
<1>6. QED
  BY <1>2, <1>3, <1>4, <1>5 DEF BoardInit, BoardInv

LEMMA BoardInvNext == BoardInv /\ [BoardNext]_boardVars => BoardInv'
<1> SUFFICES ASSUME BoardInv, [BoardNext]_boardVars PROVE BoardInv'
  OBVIOUS
<1>1. CASE Rewrite
  <2>1. UNCHANGED <<board, strips, dayMetas, exchanges, moves, saves, boardHistory>> /\ script' \in Scripts
    BY <1>1 DEF Rewrite
  <2>2. Tables' /\ Identified'
    BY <2>1, TablesStay
  <2>3. QED
    BY <2>1, <2>2 DEF BoardInv, Boards, OnBoard, Counts
<1>2. CASE \E c \in Clients : OpenBoard(c) \/ CloseBoard(c)
  BY <1>2, OpensAndCloses
<1>3. CASE \E c \in Clients : OnDrop(c) \/ AddDay(c) \/ RemoveDay(c) \/ CloseCallSheet(c) \/ OnEscape(c)
  BY <1>3, MovesChange, Moves
<1>4. CASE \E r \in exchanges : LoadSchedule(r) \/ LoadScheduleFailed(r)
  BY <1>4, Loads
<1>5. CASE \E r \in exchanges : ListStrips(r) \/ ListDays(r) \/ DeleteStrips(r) \/ DeleteDays(r)
  BY <1>5, Serves
<1>6. CASE \E r \in exchanges : Commit(r)
  BY <1>6, Commits
<1>7. CASE \E r \in exchanges : ReplaceFailed(r)
  <2>1. /\ UNCHANGED <<script, board, strips, dayMetas, moves, saves, boardHistory>>
        /\ \A q \in exchanges' : q \in exchanges
    BY <1>7 DEF ReplaceFailed
  <2>2. Tables' /\ Identified'
    BY <2>1, TablesStay
  <2>3. QED
    BY <2>1, <2>2 DEF BoardInv, Boards, OnBoard, Counts
<1>8. CASE UNCHANGED boardVars
  <2>1. /\ UNCHANGED <<script, board, strips, dayMetas, moves, saves, boardHistory>>
        /\ \A q \in exchanges' : q \in exchanges
    BY <1>8 DEF boardVars, boardCounters
  <2>2. Tables' /\ Identified'
    BY <2>1, TablesStay
  <2>3. QED
    BY <2>1, <2>2 DEF BoardInv, Boards, OnBoard, Counts
<1>9. QED
  BY <1>1, <1>2, <1>3, <1>4, <1>5, <1>6, <1>7, <1>8 DEF BoardNext

LEMMA BoardInvAlways == BoardSpec => []BoardInv
BY BoardInvInit, BoardInvNext, PTL DEF BoardSpec

(* The types of the boards, of the saved rows and of the requests. *)
THEOREM BoardTypes == BoardSpec => []BoardTypeOK
<1>1. BoardInv => BoardTypeOK
  <2> SUFFICES ASSUME BoardInv PROVE BoardTypeOK
    OBVIOUS
  <2>1. ASSUME NEW c \in Clients
        PROVE  /\ board[c].phase \in {"closed", "loading", "shown"}
               /\ \A d \in DOMAIN board[c].days :
                    board[c].days[d].strips \in Seq(Scenes) /\ board[c].days[d].notes \in 0..MaxMoves
    <3>1. board[c] \in BoardState
      BY DEF BoardInv, Boards
    <3>2. PICK days \in Seq(ShootDay) : days = board[c].days
      BY <3>1 DEF BoardState
    <3>3. \A d \in DOMAIN days : days[d] \in ShootDay
      OBVIOUS
    <3>4. \A d \in DOMAIN days : days[d].strips \in Seq(Scenes) /\ days[d].notes \in 0..MaxMoves
      BY <3>3 DEF ShootDay
    <3>5. QED
      BY <3>1, <3>2, <3>4 DEF BoardState
  <2>2. \A r \in strips : r.day > 0 /\ r.save \in 1..saves
    <3>1. \A r \in StripRow : r.day > 0 /\ r.save \in 1..saves
      BY DEF StripRow
    <3>2. QED
      BY <3>1 DEF BoardInv, Tables
  <2>3. \A m \in dayMetas : m.notes \in 0..MaxMoves /\ \A n \in dayMetas : m.day = n.day => m = n
    BY DEF BoardInv, Tables, DayRow, DaysApart
  <2>4. \A r \in exchanges : r.verb \in {"get", "put"} /\ r.stage \in {"sent", "strips", "both", "days"}
    BY DEF BoardInv, Tables, Get, Put
  <2>5. QED
    BY <2>1, <2>2, <2>3, <2>4 DEF BoardTypeOK, BoardInv
<1>2. QED
  BY <1>1, BoardInvAlways, PTL

(* No scene of the script is lost from a board or put on it twice (load, build-  *)
(* FromSaved, autoSuggestDays, onDrop): whatever was saved, by however many      *)
(* people, and however the script has changed since.                             *)
THEOREM ScenesStayOnTheBoard == BoardSpec => []EverySceneOnBoard
<1>1. BoardInv => EverySceneOnBoard
  <2> SUFFICES ASSUME BoardInv, NEW c \in Clients, OnBoard(c), DistinctKeys(board[c].scenes)
               PROVE  LET days == board[c].days IN
                      /\ {StripAt(days, p) : p \in PlacesOn(days)} = ToSet(board[c].scenes)
                      /\ \A p, q \in PlacesOn(days) : StripAt(days, p) = StripAt(days, q) => p = q
    BY DEF EverySceneOnBoard
  <2>1. PICK scenes, days :
          scenes \in SceneLists \union {<<>>} /\ scenes = board[c].scenes /\ days = board[c].days /\ Placed(days, scenes) /\ DistinctKeys(scenes)
    BY BoardHasDays DEF BoardInv
  <2>2. ToSet(scenes) = {scenes[n] : n \in DOMAIN scenes}
    BY <2>1, ScenesOfAScript
  <2>3. ASSUME NEW x \in ToSet(scenes) PROVE \E p \in PlacesOn(days) : StripAt(days, p) = x
    <3>1. PICK p \in PlacesOn(days) : StripAt(days, p).key = x.key
      BY <2>1 DEF Placed
    <3>2. PICK m \in DOMAIN scenes : scenes[m] = StripAt(days, p)
      BY <2>1, <2>2 DEF Placed
    <3>3. PICK n \in DOMAIN scenes : scenes[n] = x
      BY <2>2
    <3>4. m = n
      BY <2>1, <3>1, <3>2, <3>3 DEF DistinctKeys
    <3>5. QED
      BY <3>2, <3>3, <3>4
  <2>4. {StripAt(days, p) : p \in PlacesOn(days)} = ToSet(scenes)
    BY <2>1, <2>3 DEF Placed
  <2>5. \A p, q \in PlacesOn(days) : StripAt(days, p) = StripAt(days, q) => p = q
    BY <2>1 DEF Placed, OncePlaced
  <2>6. QED
    BY <2>1, <2>4, <2>5
<1>2. QED
  BY <1>1, BoardInvAlways, PTL

-----------------------------------------------------------------------------
LEMMA OpenBoardsStay ==
  ASSUME OpenBoards, \A e \in Clients : board'[e].phase = board[e].phase /\ board'[e].scenes = board[e].scenes,
         \A q \in exchanges' : q.verb = "get" =>
           \E r \in exchanges : r.verb = "get" /\ r.client = q.client /\ r.client \in Clients
  PROVE  OpenBoards'
BY DEF OpenBoards

LEMMA OpenBoardsInit == BoardInit => OpenBoards
BY DEF BoardInit, OpenBoards, Closed

(* A request that is served is the same request, one step on. *)
LEMMA ServedRequest ==
  ASSUME BoardInv, NEW r \in exchanges, ListStrips(r) \/ ListDays(r) \/ DeleteStrips(r) \/ DeleteDays(r)
  PROVE  \E s : Advance(r, s) /\ s.verb = r.verb /\ (r.verb = "get" => s.client = r.client)
<1>0. r \in Get \union Put
  BY DEF BoardInv, Tables
<1>1. CASE ListStrips(r) \/ ListDays(r)
  <2>1. r \in Get
    BY <1>0, <1>1 DEF ListStrips, ListDays, Put
  <2>2. PICK st, x, y : Advance(r, [r EXCEPT !.stage = st, !.strips = x]) \/ Advance(r, [r EXCEPT !.stage = st, !.days = y])
    BY <1>1, Zenon DEF ListStrips, ListDays
  <2>3. /\ [r EXCEPT !.stage = st, !.strips = x].verb = r.verb /\ [r EXCEPT !.stage = st, !.strips = x].client = r.client
        /\ [r EXCEPT !.stage = st, !.days = y].verb = r.verb /\ [r EXCEPT !.stage = st, !.days = y].client = r.client
    BY <2>1 DEF Get
  <2>4. QED
    BY <2>2, <2>3
<1>2. CASE DeleteStrips(r) \/ DeleteDays(r)
  <2>1. r \in Put /\ r.verb = "put"
    BY <1>0, <1>2 DEF DeleteStrips, DeleteDays, Get
  <2>2. PICK st, x, y : Advance(r, [r EXCEPT !.stage = st, !.seen = x]) \/ Advance(r, [r EXCEPT !.stage = st, !.seenDays = y])
    BY <1>2, Zenon DEF DeleteStrips, DeleteDays
  <2>3. /\ [r EXCEPT !.stage = st, !.seen = x].verb = r.verb
        /\ [r EXCEPT !.stage = st, !.seenDays = y].verb = r.verb
    BY <2>1 DEF Put
  <2>4. QED
    BY <2>1, <2>2, <2>3
<1>3. QED
  BY <1>1, <1>2

LEMMA OpenBoardsNext == BoardInv /\ OpenBoards /\ [BoardNext]_boardVars => OpenBoards'
<1> SUFFICES ASSUME BoardInv, OpenBoards, [BoardNext]_boardVars PROVE OpenBoards'
  OBVIOUS
<1>1. /\ board \in [Clients -> BoardState]
      /\ \A r \in exchanges : r \in Get \union Put /\ (r.verb = "get" => r.client \in Clients)
  BY DEF BoardInv, Boards, Tables, Get, Put
<1>2. ASSUME NEW c \in Clients, OpenBoard(c) PROVE OpenBoards'
  <2>1. SceneList(script) \in SceneLists
    BY DEF BoardInv, SceneLists
  <2>2. board'[c].phase = "loading" /\ board'[c].scenes = SceneList(script)
        /\ \A e \in Clients : e # c => board'[e] = board[e]
    BY <1>1, <1>2 DEF OpenBoard, Closed
  <2>3. \A q \in exchanges' : q \in exchanges \/ q.client = c
    BY <1>2 DEF OpenBoard
  <2>4. QED
    BY <1>1, <2>1, <2>2, <2>3 DEF OpenBoards
<1>3. ASSUME NEW c \in Clients, CloseBoard(c) PROVE OpenBoards'
  <2>1. board'[c].phase = "closed" /\ \A e \in Clients : e # c => board'[e] = board[e]
    BY <1>1, <1>3 DEF CloseBoard, Closed
  <2>2. \A q \in exchanges' : q \in exchanges /\ (q.verb = "get" => q.client # c)
    BY <1>3 DEF CloseBoard
  <2>3. QED
    BY <1>1, <2>1, <2>2 DEF OpenBoards
<1>4. ASSUME NEW r \in exchanges, LoadSchedule(r) \/ LoadScheduleFailed(r) PROVE OpenBoards'
  <2>1. PICK c \in Clients, b \in BoardState : c = r.client /\ b = board[c] /\ r.verb = "get"
    BY <1>1, <1>4 DEF LoadSchedule, LoadScheduleFailed
  <2>2. PICK days, suggested : ShowBoard(c, days, suggested)
    BY <1>4, <2>1, Zenon DEF LoadSchedule, LoadScheduleFailed
  <2>3. board'[c] = [b EXCEPT !.phase = "shown", !.days = days, !.suggested = suggested]
        /\ \A e \in Clients : e # c => board'[e] = board[e]
    BY <1>1, <2>1, <2>2 DEF ShowBoard
  <2>4. board'[c].phase = "shown" /\ board'[c].scenes = board[c].scenes
    BY <2>1, <2>3 DEF BoardState
  <2>5. \A q \in exchanges' : q \in exchanges
    BY <1>4 DEF LoadSchedule, LoadScheduleFailed
  <2>6. QED
    BY <1>1, <2>1, <2>3, <2>4, <2>5 DEF OpenBoards
<1>5. ASSUME NEW c \in Clients, NEW days, Changed(c, days) PROVE OpenBoards'
  <2>1. PICK unsaved : board' = [board EXCEPT ![c].days = days, ![c].unsaved = unsaved]
    BY <1>5 DEF Changed, Persist, NotSaved
  <2>2. PICK b \in BoardState : b = board[c]
    BY <1>1
  <2>3. board'[c] = [b EXCEPT !.days = days, !.unsaved = unsaved]
        /\ \A e \in Clients : e # c => board'[e] = board[e]
    BY <1>1, <2>1, <2>2
  <2>4. board'[c].phase = board[c].phase /\ board'[c].scenes = board[c].scenes
    BY <2>2, <2>3 DEF BoardState
  <2>5. \A q \in exchanges' : q \in exchanges \/ q.verb = "put"
    BY <1>5 DEF Changed, Persist, NotSaved
  <2>6. QED
    BY <1>1, <2>3, <2>4, <2>5, OpenBoardsStay
<1>6. ASSUME NEW r \in exchanges, ListStrips(r) \/ ListDays(r) \/ DeleteStrips(r) \/ DeleteDays(r) PROVE OpenBoards'
  <2>1. UNCHANGED board
    BY <1>6 DEF ListStrips, ListDays, DeleteStrips, DeleteDays
  <2>2. PICK s : Advance(r, s) /\ s.verb = r.verb /\ (r.verb = "get" => s.client = r.client)
    BY <1>6, ServedRequest
  <2>3. \A q \in exchanges' : q \in exchanges \/ q = s
    BY <2>2 DEF Advance
  <2>4. QED
    BY <1>1, <2>1, <2>2, <2>3, OpenBoardsStay
<1>7. ASSUME UNCHANGED board, \A q \in exchanges' : q \in exchanges PROVE OpenBoards'
  BY <1>1, <1>7, OpenBoardsStay
<1>8. CASE Rewrite
  BY <1>7, <1>8 DEF Rewrite
<1>9. CASE \E r \in exchanges : Commit(r) \/ ReplaceFailed(r)
  BY <1>7, <1>9 DEF Commit, ReplaceFailed
<1>10. CASE UNCHANGED boardVars
  BY <1>7, <1>10 DEF boardVars
<1>11. CASE \E c \in Clients : OnDrop(c) \/ AddDay(c) \/ RemoveDay(c) \/ CloseCallSheet(c) \/ OnEscape(c)
  BY <1>5, <1>11, MovesChange
<1>12. QED
  BY <1>2, <1>3, <1>4, <1>6, <1>8, <1>9, <1>10, <1>11 DEF BoardNext

-----------------------------------------------------------------------------
LEMMA OneSaveEach ==
  ASSUME NEW T, OfOneSaveEach(T), NEW N, OneSave(N), \A X \in T : OfOtherSaves(X, N),
         NEW U, U \subseteq T \union {{}, N}
  PROVE  OfOneSaveEach(U)
<1>1. ASSUME NEW X \in U PROVE OneSave(X)
  <2>1. X \in T \/ X = {} \/ X = N
    OBVIOUS
  <2>2. QED
    BY <2>1 DEF OneSave, OfOneSaveEach
<1>2. ASSUME NEW X \in U, NEW Y \in U PROVE X = Y \/ OfOtherSaves(X, Y)
  <2>1. (X \in T \/ X = {} \/ X = N) /\ (Y \in T \/ Y = {} \/ Y = N)
    OBVIOUS
  <2>2. CASE X = {} \/ Y = {}
    BY <2>2 DEF OfOtherSaves
  <2>3. CASE X \in T /\ Y \in T
    BY <2>3 DEF OfOneSaveEach
  <2>4. CASE X \in T /\ Y = N
    BY <2>4
  <2>5. CASE X = N /\ Y \in T
    BY <2>5 DEF OfOtherSaves
  <2>6. QED
    BY <2>1, <2>2, <2>3, <2>4, <2>5
<1>3. QED
  BY <1>1, <1>2 DEF OfOneSaveEach

(* No save is new; what a save has seen was there. *)
Follows(q) ==
  /\ \E r \in Puts : q.strips = r.strips /\ q.days = r.days
  /\ q.seen \in StripTables /\ q.seenDays \in DayTables \union {{}}

LEMMA WholeStays ==
  ASSUME Whole, strips' \in StripTables, dayMetas' \in DayTables, OneSave(strips' \union dayMetas'),
         \A q \in Puts' : q \in Puts \/ Follows(q)
  PROVE  Whole'
<1>1. StripTables' \subseteq StripTables \union {{}, {}} /\ DayTables' \subseteq DayTables \union {{}, {}}
  BY DEF StripTables, DayTables, Follows
<1>2. OneSave({}) /\ (\A X \in StripTables \union DayTables : OfOtherSaves(X, {})) /\ HasScenes({}) /\ HasDayOne({})
  BY DEF OneSave, OfOtherSaves, HasScenes, HasDayOne
<1>3. OfOneSaveEach(StripTables')
  <2>1. OfOneSaveEach(StripTables) /\ \A X \in StripTables : OfOtherSaves(X, {})
    BY <1>2 DEF Whole
  <2>2. QED
    BY <1>1, <1>2, <2>1, OneSaveEach
<1>4. OfOneSaveEach(DayTables')
  <2>1. OfOneSaveEach(DayTables) /\ \A X \in DayTables : OfOtherSaves(X, {})
    BY <1>2 DEF Whole
  <2>2. QED
    BY <1>1, <1>2, <2>1, OneSaveEach
<1>5. (\A X \in StripTables' : HasScenes(X)) /\ (\A X \in DayTables' : HasDayOne(X))
  BY <1>1, <1>2 DEF Whole
<1>6. \A r \in Puts' : r.strips # {} /\ r.days # {} /\ OneSave(r.strips \union r.days)
  BY DEF Whole, Follows
<1>7. QED
  BY <1>3, <1>4, <1>5, <1>6 DEF Whole

LEMMA TablesAsTheyWere ==
  ASSUME Whole, UNCHANGED <<strips, dayMetas>>, \A q \in Puts' : q \in Puts \/ Follows(q)
  PROVE  Whole'
<1>1. strips' \in StripTables /\ dayMetas' \in DayTables /\ OneSave(strips' \union dayMetas')
  BY DEF Whole, StripTables, DayTables
<1>2. QED
  BY <1>1, WholeStays

LEMMA SaveGoesOn ==
  ASSUME BoardInv, Whole, NEW r \in exchanges, DeleteStrips(r) \/ DeleteDays(r)
  PROVE  Whole'
<1>1. UNCHANGED <<strips, dayMetas>>
  BY DEF DeleteStrips, DeleteDays
<1>2. r \in Put /\ r \in Puts
  BY DEF DeleteStrips, DeleteDays, BoardInv, Tables, Get, Puts
<1>3. r.seen \in StripTables /\ r.seenDays \in DayTables
  BY <1>2 DEF StripTables, DayTables
<1>4. PICK s : Advance(r, s) /\ Follows(s)
  <2>1. CASE DeleteStrips(r)
    <3>1. PICK s : s = [r EXCEPT !.stage = "strips", !.seen = strips]
      OBVIOUS
    <3>2. s.strips = r.strips /\ s.days = r.days /\ s.seen = strips /\ s.seenDays = r.seenDays
      BY <1>2, <3>1 DEF Put
    <3>3. strips \in StripTables
      BY DEF StripTables
    <3>4. Follows(s)
      BY <1>2, <1>3, <3>2, <3>3 DEF Follows
    <3>5. QED
      BY <2>1, <3>1, <3>4 DEF DeleteStrips
  <2>2. CASE DeleteDays(r)
    <3>1. PICK s : s = [r EXCEPT !.stage = "days", !.seenDays = dayMetas]
      OBVIOUS
    <3>2. s.strips = r.strips /\ s.days = r.days /\ s.seen = r.seen /\ s.seenDays = dayMetas
      BY <1>2, <3>1 DEF Put
    <3>3. dayMetas \in DayTables
      BY DEF DayTables
    <3>4. Follows(s)
      BY <1>2, <1>3, <3>2, <3>3 DEF Follows
    <3>5. QED
      BY <2>2, <3>1, <3>4 DEF DeleteDays
  <2>3. QED
    BY <2>1, <2>2
<1>5. \A q \in Puts' : q \in Puts \/ Follows(q)
  BY <1>4 DEF Advance, Puts
<1>6. QED
  BY <1>1, <1>5, TablesAsTheyWere

(* A save that is taken has seen all that was stored: rows it has not seen are    *)
(* all of another save, and stand in its way with a scene or with their first day. *)
LEMMA SaveReplacesAll ==
  ASSUME VersionsShareAScene, BoardInv, Whole, NEW r \in exchanges, Commit(r)
  PROVE  Whole'
<1>1. r \in Puts /\ exchanges' = exchanges \ {r}
  BY DEF Commit, Puts
<1>2. \A q \in Puts' : q \in Puts
  BY <1>1 DEF Puts
<1>3. CASE InsertsRefused(r)
  <2>1. UNCHANGED <<strips, dayMetas>>
    BY <1>3 DEF Commit
  <2>2. QED
    BY <1>2, <2>1, TablesAsTheyWere
<1>4. CASE ~InsertsRefused(r)
  <2>1. /\ strips' = (strips \ r.seen) \union r.strips /\ dayMetas' = (dayMetas \ r.seenDays) \union r.days
        /\ \A a \in strips \ r.seen, b \in r.strips : a.key # b.key
        /\ \A a \in dayMetas \ r.seenDays, b \in r.days : a.day # b.day
    BY <1>4 DEF Commit, InsertsRefused
  <2>2. /\ strips \in StripTables /\ r.seen \in StripTables /\ r.strips \in StripTables
        /\ dayMetas \in DayTables /\ r.seenDays \in DayTables /\ r.days \in DayTables
    BY <1>1 DEF StripTables, DayTables
  <2>3. r.strips # {} /\ r.days # {} /\ OneSave(r.strips \union r.days)
    BY <1>1 DEF Whole
  <2>4. strips \ r.seen = {}
    <3>1. SUFFICES ASSUME strips \ r.seen # {} PROVE FALSE
      OBVIOUS
    <3>2. OfOtherSaves(strips, r.seen)
      BY <2>2, <3>1 DEF Whole, OfOneSaveEach
    <3>3. strips \ r.seen = strips
      BY <3>2 DEF OfOtherSaves
    <3>4. PICK s \in SceneLists : {a.key : a \in strips} = Keys(s)
      BY <2>2, <3>1 DEF Whole, HasScenes
    <3>5. PICK t \in SceneLists : {a.key : a \in r.strips} = Keys(t)
      BY <2>2, <2>3 DEF Whole, HasScenes
    <3>6. PICK k : k \in Keys(s) /\ k \in Keys(t)
      BY DEF VersionsShareAScene, SceneLists
    <3>7. QED
      BY <2>1, <3>3, <3>4, <3>5, <3>6
  <2>5. dayMetas \ r.seenDays = {}
    <3>1. SUFFICES ASSUME dayMetas \ r.seenDays # {} PROVE FALSE
      OBVIOUS
    <3>2. OfOtherSaves(dayMetas, r.seenDays)
      BY <2>2, <3>1 DEF Whole, OfOneSaveEach
    <3>3. dayMetas \ r.seenDays = dayMetas
      BY <3>2 DEF OfOtherSaves
    <3>4. PICK m \in dayMetas : m.day = 1
      BY <2>2, <3>1 DEF Whole, HasDayOne
    <3>5. PICK n \in r.days : n.day = 1
      BY <2>2, <2>3 DEF Whole, HasDayOne
    <3>6. QED
      BY <2>1, <3>3, <3>4, <3>5
  <2>6. strips' = r.strips /\ dayMetas' = r.days
    BY <2>1, <2>4, <2>5
  <2>7. QED
    BY <1>2, <2>2, <2>3, <2>6, WholeStays
<1>5. QED
  BY <1>3, <1>4

(* A save is of a board, and of no rows but its own. *)
LEMMA SaveIsWhole ==
  ASSUME VersionsShareAScene, BoardInv, OpenBoards, Whole, NEW c \in Clients, OnBoard(c),
         NEW days \in Seq(ShootDay), Placed(days, board[c].scenes), Persist(c, days), UNCHANGED <<strips, dayMetas>>
  PROVE  Whole'
<1>1. PICK scenes \in SceneLists : scenes = board[c].scenes
  BY DEF OnBoard, OpenBoards
<1>2. PICK rows : rows = StripRows(days, saves + 1)
  OBVIOUS
<1>3. PICK dayRows : dayRows = DayRows(days, saves + 1)
  OBVIOUS
<1>4. PICK save \in Nat : save = saves + 1 /\ saves \in Nat
  BY DEF BoardInv, Counts
<1>5. PICK s : /\ exchanges' = exchanges \union {s} /\ s.strips = rows /\ s.days = dayRows
               /\ s.seen = {} /\ s.seenDays = {} /\ s.verb = "put"
  <2>1. PICK distinct \in BOOLEAN : distinct = OncePlaced(days)
    BY DEF OncePlaced
  <2>2. PICK s : s = [verb |-> "put", stage |-> "sent", strips |-> rows, days |-> dayRows,
                      seen |-> {}, seenDays |-> {}, distinct |-> distinct]
    OBVIOUS
  <2>3. exchanges' = exchanges \union {s}
    BY <1>2, <1>3, <2>1, <2>2 DEF Persist
  <2>4. s.strips = rows /\ s.days = dayRows /\ s.seen = {} /\ s.seenDays = {} /\ s.verb = "put"
    BY <2>2
  <2>5. QED
    BY <2>3, <2>4, Zenon
<1>6. /\ \A q \in Puts' : q \in Puts \/ q = s
      /\ StripTables' \subseteq StripTables \union {{}, rows} /\ DayTables' \subseteq DayTables \union {{}, dayRows}
  <2>1. \A q \in Puts' : q \in Puts \/ q = s
    BY <1>5 DEF Puts
  <2>2. QED
    BY <1>5, <2>1 DEF StripTables, DayTables
<1>7. \A a \in rows \union dayRows : a.save = save
  <2>1. \A a \in rows : a.save = save
    BY <1>1, <1>2, <1>4, RowsOfASave
  <2>2. \A a \in dayRows : a.save = save
    BY <1>3, <1>4, DaysOfASave
  <2>3. QED
    BY <2>1, <2>2
<1>8. OneSave(rows \union dayRows) /\ OneSave(rows) /\ OneSave(dayRows)
  BY <1>7 DEF OneSave
<1>9. \A X \in StripTables : \A a \in X : a.save # save
  <2>1. \A a \in StripRow : a.save # save
    BY <1>4 DEF StripRow
  <2>2. \A r \in Puts : r \in Put
    BY DEF Puts, BoardInv, Tables, Get
  <2>3. \A X \in StripTables : X \subseteq StripRow
    BY <2>2 DEF StripTables, BoardInv, Tables, Put
  <2>4. QED
    BY <2>1, <2>3
<1>10. \A X \in DayTables : \A a \in X : a.save # save
  <2>1. \A a \in DayRow : a.save # save
    BY <1>4 DEF DayRow
  <2>2. \A r \in Puts : r \in Put
    BY DEF Puts, BoardInv, Tables, Get
  <2>3. \A X \in DayTables : X \subseteq DayRow
    BY <2>2 DEF DayTables, BoardInv, Tables, Put
  <2>4. QED
    BY <2>1, <2>3
<1>11. OfOneSaveEach(StripTables')
  <2>1. \A X \in StripTables : OfOtherSaves(X, rows)
    BY <1>7, <1>9 DEF OfOtherSaves
  <2>2. OfOneSaveEach(StripTables)
    BY DEF Whole
  <2>3. QED
    BY <1>6, <1>8, <2>1, <2>2, OneSaveEach
<1>12. OfOneSaveEach(DayTables')
  <2>1. \A X \in DayTables : OfOtherSaves(X, dayRows)
    BY <1>7, <1>10 DEF OfOtherSaves
  <2>2. OfOneSaveEach(DayTables)
    BY DEF Whole
  <2>3. QED
    BY <1>6, <1>8, <2>1, <2>2, OneSaveEach
<1>13. {a.key : a \in rows} = Keys(scenes) /\ rows # {} /\ \E p \in PlacesOn(days) : TRUE
  <2>1. \A a \in rows : \E p \in PlacesOn(days) : a.key = StripAt(days, p).key
    BY <1>2 DEF StripRows
  <2>2. ASSUME NEW p \in PlacesOn(days) PROVE \E a \in rows : a.key = StripAt(days, p).key
    <3>1. PICK a : a = [key |-> StripAt(days, p).key, day |-> p[1], position |-> p[2] - 1, save |-> saves + 1]
      OBVIOUS
    <3>2. a \in rows /\ a.key = StripAt(days, p).key
      BY <1>2, <3>1 DEF StripRows
    <3>3. QED
      BY <3>2
  <2>3. ToSet(scenes) = {scenes[n] : n \in DOMAIN scenes}
    BY ScenesOfAScript
  <2>4. \A p \in PlacesOn(days) : StripAt(days, p).key \in Keys(scenes)
    BY <1>1, <2>3 DEF Placed, Keys
  <2>5. \A k \in Keys(scenes) : \E p \in PlacesOn(days) : StripAt(days, p).key = k
    BY <1>1, <2>3 DEF Placed, Keys
  <2>6. \E k : k \in Keys(scenes)
    BY DEF VersionsShareAScene, SceneLists
  <2>7. ASSUME NEW k \in Keys(scenes) PROVE \E a \in rows : a.key = k
    BY <2>2, <2>5
  <2>8. \A a \in rows : a.key \in Keys(scenes)
    BY <2>1, <2>4
  <2>9. {a.key : a \in rows} = Keys(scenes)
    BY <2>7, <2>8
  <2>10. QED
    BY <2>5, <2>6, <2>7, <2>9
<1>14. \E m \in dayRows : m.day = 1
  <2>1. PICK d, i : d \in DOMAIN days /\ i \in DOMAIN days[d].strips
    BY <1>13, PlacePairs
  <2>2. 1 \in DOMAIN days
    <3>1. DOMAIN days = 1..Len(days) /\ Len(days) \in Nat
      OBVIOUS
    <3>2. QED
      BY <2>1, <3>1
  <2>3. PICK m : m = [day |-> 1, notes |-> days[1].notes, save |-> saves + 1]
    OBVIOUS
  <2>4. m \in dayRows /\ m.day = 1
    BY <1>3, <2>2, <2>3 DEF DayRows
  <2>5. QED
    BY <2>4
<1>15. (\A X \in StripTables' : HasScenes(X)) /\ (\A X \in DayTables' : HasDayOne(X))
  <2>1. HasScenes(rows) /\ HasScenes({}) /\ HasDayOne(dayRows) /\ HasDayOne({})
    BY <1>13, <1>14 DEF HasScenes, HasDayOne
  <2>2. QED
    BY <1>6, <2>1 DEF Whole
<1>16. \A r \in Puts' : r.strips # {} /\ r.days # {} /\ OneSave(r.strips \union r.days)
  BY <1>5, <1>6, <1>8, <1>13, <1>14 DEF Whole
<1>17. OneSave(strips' \union dayMetas')
  BY DEF Whole
<1>18. QED
  BY <1>11, <1>12, <1>15, <1>16, <1>17 DEF Whole

LEMMA WholeInit == BoardInit => Whole
<1> SUFFICES ASSUME BoardInit PROVE Whole
  OBVIOUS
<1>1. Puts = {} /\ StripTables = {{}} /\ DayTables = {{}}
  BY DEF BoardInit, Puts, StripTables, DayTables
<1>2. QED
  BY <1>1 DEF Whole, BoardInit, OfOneSaveEach, OneSave, HasScenes, HasDayOne

LEMMA WholeNext ==
  ASSUME VersionsShareAScene, BoardInv, OpenBoards, Whole, [BoardNext]_boardVars
  PROVE  Whole'
<1>1. ASSUME UNCHANGED <<strips, dayMetas>>, \A q \in exchanges' : q \in exchanges \/ q.verb = "get" PROVE Whole'
  <2>1. \A q \in Puts' : q \in Puts
    BY <1>1 DEF Puts
  <2>2. QED
    BY <1>1, <2>1, TablesAsTheyWere
<1>2. CASE Rewrite \/ UNCHANGED boardVars
  BY <1>1, <1>2 DEF Rewrite, boardVars
<1>3. CASE \E c \in Clients : OpenBoard(c)
  <2>1. \A q \in exchanges' : q \in exchanges \/ q.verb = "get"
    BY <1>3 DEF OpenBoard
  <2>2. UNCHANGED <<strips, dayMetas>>
    BY <1>3 DEF OpenBoard
  <2>3. QED
    BY <1>1, <2>1, <2>2
<1>4. CASE \E c \in Clients : CloseBoard(c)
  BY <1>1, <1>4 DEF CloseBoard
<1>5. CASE \E r \in exchanges : LoadSchedule(r) \/ LoadScheduleFailed(r) \/ ReplaceFailed(r)
  BY <1>1, <1>5 DEF LoadSchedule, LoadScheduleFailed, ReplaceFailed
<1>6. ASSUME NEW r \in exchanges, ListStrips(r) \/ ListDays(r) PROVE Whole'
  <2>1. r \in Get
    BY <1>6 DEF ListStrips, ListDays, BoardInv, Tables, Put
  <2>2. PICK s : Advance(r, s) /\ s.verb = "get"
    <3>1. CASE ListStrips(r)
      <4>1. [r EXCEPT !.stage = "strips", !.strips = strips].verb = "get"
        BY <2>1 DEF Get
      <4>2. QED
        BY <3>1, <4>1 DEF ListStrips
    <3>2. CASE ListDays(r)
      <4>1. [r EXCEPT !.stage = "both", !.days = dayMetas].verb = "get"
        BY <2>1 DEF Get
      <4>2. QED
        BY <3>2, <4>1 DEF ListDays
    <3>3. QED
      BY <1>6, <3>1, <3>2
  <2>3. UNCHANGED <<strips, dayMetas>>
    BY <1>6 DEF ListStrips, ListDays
  <2>4. QED
    BY <1>1, <2>2, <2>3 DEF Advance
<1>7. CASE \E r \in exchanges : DeleteStrips(r) \/ DeleteDays(r)
  BY <1>7, SaveGoesOn
<1>8. CASE \E r \in exchanges : Commit(r)
  BY <1>8, SaveReplacesAll
<1>9. ASSUME NEW c \in Clients, NEW days, Changed(c, days) PROVE Whole'
  <2>1. UNCHANGED <<strips, dayMetas>> /\ OnBoard(c) /\ days \in Seq(ShootDay) /\ Reordered(days, board[c].days)
    BY <1>9 DEF Changed
  <2>2. CASE Persist(c, days)
    <3>1. Placed(days, board[c].scenes)
      BY <2>1, BoardHasDays, StillPlaced DEF BoardInv
    <3>2. QED
      BY <2>1, <2>2, <3>1, SaveIsWhole
  <2>3. CASE NotSaved(c, days)
    BY <1>1, <2>1, <2>3 DEF NotSaved
  <2>4. QED
    BY <1>9, <2>2, <2>3 DEF Changed
<1>10. CASE \E c \in Clients : OnDrop(c) \/ AddDay(c) \/ RemoveDay(c) \/ CloseCallSheet(c) \/ OnEscape(c)
  BY <1>9, <1>10, MovesChange
<1>11. QED
  BY <1>2, <1>3, <1>4, <1>5, <1>6, <1>7, <1>8, <1>10 DEF BoardNext

(* What is stored is one board, however saves overlap (Replace): of two saves that *)
(* cross, the second is refused, if any two versions of the script share a scene.  *)
THEOREM OneBoardIsStored ==
  ASSUME VersionsShareAScene
  PROVE  BoardSpec => []ScheduleIsOneBoard
<1>1. BoardInit => BoardInv /\ OpenBoards /\ Whole
  BY BoardInvInit, OpenBoardsInit, WholeInit
<1>2. BoardInv /\ OpenBoards /\ Whole /\ [BoardNext]_boardVars => (BoardInv /\ OpenBoards /\ Whole)'
  BY BoardInvNext, OpenBoardsNext, WholeNext
<1>3. BoardInv /\ OpenBoards /\ Whole => ScheduleIsOneBoard
  BY DEF Whole, OneSave, ScheduleIsOneBoard
<1>4. QED
  BY <1>1, <1>2, <1>3, PTL DEF BoardSpec

-----------------------------------------------------------------------------
(* The rows of a day, in their places, are its strips. *)
LEMMA DayReadsBack ==
  ASSUME NEW scenes \in SceneLists, DistinctKeys(scenes), NEW days \in Seq(ShootDay), Placed(days, scenes),
         NEW save \in Nat, NEW rows, rows = StripRows(days, save), NEW metas, metas = DayRows(days, save),
         NEW d \in DOMAIN days
  PROVE  SavedDay(rows, metas, d, scenes) = days[d]
<1>1. PICK s \in Seq(Scenes) : s = days[d].strips
  BY StripsOfADay
<1>2. PICK n \in Nat : n = Len(s) /\ DOMAIN s = 1..n
  OBVIOUS
<1>3. PICK f : f = [i \in 1..n |-> [key |-> s[i].key, day |-> d, position |-> i - 1, save |-> save]]
  OBVIOUS
<1>4. \A i \in 1..n : /\ f[i] = [key |-> s[i].key, day |-> d, position |-> i - 1, save |-> save]
                      /\ f[i].key = s[i].key /\ f[i].day = d /\ f[i].position = i - 1 /\ f[i].save = save
  BY <1>3
<1>u. \A i \in 1..n : f[i].position = i - 1 /\ f[i].save = save /\ i - 1 \in Nat /\ i \in Nat
  <2>1. \A i \in 1..n : i - 1 \in Nat /\ i \in Nat
    OBVIOUS
  <2>2. \A i \in 1..n : f[i].position = i - 1 /\ f[i].save = save
    BY <1>4, Zenon
  <2>3. QED
    BY <2>1, <2>2
<1>5. PICK mine : mine = {r \in rows : r.day = d}
  OBVIOUS
<1>6. ASSUME NEW i \in 1..n PROVE f[i] \in mine
  <2>1. PICK p : p = <<d, i>>
    OBVIOUS
  <2>2. p \in PlacesOn(days) /\ StripAt(days, p) = s[i] /\ p[1] = d /\ p[2] = i
    BY <1>1, <1>2, <2>1, PlacePairs
  <2>3. f[i] \in rows
    BY <1>4, <2>2 DEF StripRows
  <2>4. QED
    BY <1>4, <1>5, <2>3
<1>7. ASSUME NEW x \in mine PROVE \E i \in 1..n : f[i] = x
  <2>1. PICK p \in PlacesOn(days) :
          x = [key |-> StripAt(days, p).key, day |-> p[1], position |-> p[2] - 1, save |-> save]
    BY <1>5 DEF StripRows
  <2>2. PICK e, i : e \in DOMAIN days /\ i \in DOMAIN days[e].strips /\ p = <<e, i>>
    BY PlacePairs
  <2>3. x.day = p[1] /\ p[1] = e /\ p[2] = i /\ StripAt(days, p) = days[e].strips[i]
    BY <2>1, <2>2, PlacePairs
  <2>4. e = d
    BY <1>5, <2>3
  <2>5. i \in 1..n /\ x = [key |-> s[i].key, day |-> d, position |-> i - 1, save |-> save]
    BY <1>1, <1>2, <2>1, <2>2, <2>3, <2>4
  <2>6. QED
    BY <1>4, <2>5
<1>8. StrictOrder(mine, ByPosition(mine))
  <2>1. \A r \in mine : r.position \in Nat /\ r.save \in Nat
    BY <1>7, <1>u
  <2>2. ASSUME NEW a \in mine, NEW b \in mine, a.position = b.position PROVE a = b
    <3>1. PICK i \in 1..n : f[i] = a
      BY <1>7
    <3>2. PICK j \in 1..n : f[j] = b
      BY <1>7
    <3>3. i - 1 = j - 1
      BY <1>4, <2>2, <3>1, <3>2
    <3>4. QED
      BY <3>1, <3>2, <3>3
  <2>3. QED
    BY <2>1, <2>2, ByPositionIsStrict
<1>9. \A i, j \in 1..n : i < j => <<f[i], f[j]>> \in ByPosition(mine)
  <2> SUFFICES ASSUME NEW i \in 1..n, NEW j \in 1..n, i < j PROVE <<f[i], f[j]>> \in ByPosition(mine)
    OBVIOUS
  <2>1. f[i].position < f[j].position
    BY <1>u
  <2>2. QED
    BY <1>6, <2>1 DEF ByPosition
<1>10. f \in [1..n -> mine]
  BY <1>3, <1>6
<1>11. PICK sorted : sorted = InOrder(mine, ByPosition(mine))
  OBVIOUS
<1>12. Cardinality(mine) = n /\ \A i \in 1..n : sorted[i] = f[i]
  <2>1. PICK order : order = ByPosition(mine)
    OBVIOUS
  <2>2. LaysOut(f, n, mine, order)
    BY <1>7, <1>9, <1>10, <2>1 DEF LaysOut
  <2>3. QED
    BY <1>8, <1>11, <2>1, <2>2, LaidOut
<1>13. ASSUME NEW i \in 1..n PROVE SceneOf(scenes, sorted[i].key) = s[i]
  <2>1. ToSet(scenes) = {scenes[m] : m \in DOMAIN scenes}
    BY ScenesOfAScript
  <2>2. <<d, i>> \in PlacesOn(days) /\ StripAt(days, <<d, i>>) = s[i]
    BY <1>1, <1>2, PlacePairs
  <2>3. PICK m \in DOMAIN scenes : s[i] = scenes[m]
    BY <2>1, <2>2 DEF Placed
  <2>4. PICK key : key = s[i].key /\ key \in Keys(scenes)
    BY <2>3 DEF Keys
  <2>5. SceneOf(scenes, key) \in ToSet(scenes) /\ SceneOf(scenes, key).key = key
    BY <2>4, SceneOfAKey
  <2>6. PICK k \in DOMAIN scenes : SceneOf(scenes, key) = scenes[k]
    BY <2>1, <2>5
  <2>7. scenes[k].key = scenes[m].key
    BY <2>3, <2>4, <2>5, <2>6
  <2>8. k = m
    BY <2>7 DEF DistinctKeys
  <2>9. sorted[i].key = key
    BY <1>4, <1>12, <2>4
  <2>10. QED
    BY <2>3, <2>6, <2>8, <2>9
<1>14. [i \in 1..n |-> SceneOf(scenes, sorted[i].key)] = s
  <2>1. s = [i \in 1..n |-> s[i]]
    BY <1>2
  <2>2. QED
    BY <1>13, <2>1
<1>15. NotesOf(metas, d) = days[d].notes
  <2>1. PICK m : m = [day |-> d, notes |-> days[d].notes, save |-> save]
    OBVIOUS
  <2>2. m \in metas /\ m.day = d /\ m.notes = days[d].notes
    BY <2>1 DEF DayRows
  <2>3. \A k \in metas : k.day = d => k = m
    BY <2>1 DEF DayRows
  <2>4. {k.notes : k \in {k \in metas : k.day = d}} = {days[d].notes}
    BY <2>2, <2>3
  <2>5. QED
    BY <2>4 DEF NotesOf
<1>16. SavedDay(rows, metas, d, scenes) = Day(s, days[d].notes)
  BY <1>5, <1>11, <1>12, <1>14, <1>15 DEF SavedDay
<1>17. Day(s, days[d].notes) = days[d]
  <2>1. PICK day \in ShootDay : day = days[d]
    OBVIOUS
  <2>2. QED
    BY <1>1, <2>1 DEF ShootDay, Day
<1>18. QED
  BY <1>16, <1>17

(* The board that is built from the rows of a board is that board, without its empty days. *)
LEMMA ReadsBack ==
  ASSUME NEW scenes \in SceneLists, scenes # <<>>, DistinctKeys(scenes),
         NEW days \in Seq(ShootDay), Placed(days, scenes),
         NEW save \in Nat, NEW rows, rows = StripRows(days, save), NEW metas, metas = DayRows(days, save)
  PROVE  BuildFromSaved(rows, metas, scenes) = Kept(days, {d \in DOMAIN days : days[d].strips # <<>>})
<1>1. /\ scenes \in Seq(Scenes) /\ Len(scenes) \in Nat /\ DOMAIN scenes = 1..Len(scenes)
      /\ ToSet(scenes) = {scenes[n] : n \in DOMAIN scenes}
  BY ScenesOfAScript
<1>2. /\ \A r \in rows : \E p \in PlacesOn(days) : r.key = StripAt(days, p).key /\ r.day = p[1]
      /\ \A p \in PlacesOn(days) : \E r \in rows : r.key = StripAt(days, p).key /\ r.day = p[1]
  <2>1. ASSUME NEW p \in PlacesOn(days)
        PROVE  \E r \in rows : r.key = StripAt(days, p).key /\ r.day = p[1]
    <3>1. PICK r : r = [key |-> StripAt(days, p).key, day |-> p[1], position |-> p[2] - 1, save |-> save]
      OBVIOUS
    <3>2. r \in rows /\ r.key = StripAt(days, p).key /\ r.day = p[1]
      BY <3>1 DEF StripRows
    <3>3. QED
      BY <3>2
  <2>2. QED
    BY <2>1 DEF StripRows
<1>3. {r \in rows : r.key \in Keys(scenes)} = rows
  <2>1. \A p \in PlacesOn(days) : StripAt(days, p).key \in Keys(scenes)
    BY <1>1 DEF Placed, Keys
  <2>2. QED
    BY <1>2, <2>1
<1>4. PICK places : places = {d \in DOMAIN days : days[d].strips # <<>>}
  OBVIOUS
<1>5. places \in SUBSET Nat /\ IsFiniteSet(places)
  <2>1. DOMAIN days = 1..Len(days) /\ Len(days) \in Nat
    OBVIOUS
  <2>2. IsFiniteSet(1..Len(days))
    BY <2>1, FS_Interval
  <2>3. QED
    BY <1>4, <2>1, <2>2, FS_Subset
<1>6. {r.day : r \in rows} = places
  <2>1. ASSUME NEW r \in rows PROVE r.day \in places
    <3>1. PICK p \in PlacesOn(days) : r.day = p[1]
      BY <1>2
    <3>2. PICK d, i : d \in DOMAIN days /\ i \in DOMAIN days[d].strips /\ p = <<d, i>>
      BY PlacePairs
    <3>3. days[d].strips # <<>>
      BY <3>2
    <3>4. QED
      BY <1>4, <3>1, <3>2, <3>3
  <2>2. ASSUME NEW d \in places PROVE \E r \in rows : r.day = d
    <3>1. PICK s \in Seq(Scenes) : s = days[d].strips /\ s # <<>> /\ d \in DOMAIN days
      BY <1>4, StripsOfADay
    <3>2. 1 \in DOMAIN days[d].strips
      <4>1. 1 \in DOMAIN s
        BY <3>1
      <4>2. QED
        BY <3>1, <4>1
    <3>3. <<d, 1>> \in PlacesOn(days) /\ <<d, 1>>[1] = d
      BY <3>1, <3>2, PlacePairs
    <3>4. QED
      BY <1>2, <3>3
  <2>3. QED
    BY <2>1, <2>2
<1>7. PICK order : order = InOrder(places, Rising(places))
  OBVIOUS
<1>8. PICK n \in Nat : n = Cardinality(places) /\ \A i \in 1..n : order[i] \in places
  <2>1. Cardinality(places) \in Nat /\ order \in Seq(places) /\ Len(order) = Cardinality(places)
    BY <1>5, <1>7, RisingIsStrict, InOrderIsABijection
  <2>2. QED
    BY <2>1
<1>9. PICK kept : kept = [i \in 1..n |-> days[order[i]]]
  OBVIOUS
<1>10. Kept(days, places) = kept
  BY <1>7, <1>8, <1>9 DEF Kept
<1>11. SavedDays(rows, metas, scenes) = kept
  <2>1. SavedDays(rows, metas, scenes) = [i \in 1..n |-> SavedDay(rows, metas, order[i], scenes)]
    BY <1>3, <1>6, <1>7, <1>8 DEF SavedDays
  <2>2. \A i \in 1..n : SavedDay(rows, metas, order[i], scenes) = days[order[i]]
    BY <1>4, <1>8, DayReadsBack
  <2>3. QED
    BY <1>9, <2>1, <2>2
<1>12. Uncovered(rows, scenes) = <<>>
  <2>1. ASSUME NEW m \in DOMAIN scenes PROVE scenes[m].key \in {r.key : r \in rows}
    <3>1. PICK p \in PlacesOn(days) : StripAt(days, p).key = scenes[m].key
      BY <1>1 DEF Placed
    <3>2. QED
      BY <1>2, <3>1
  <2>2. {m \in DOMAIN scenes : scenes[m].key \notin {r.key : r \in rows}} = {}
    BY <2>1
  <2>3. Uncovered(rows, scenes) = Kept(scenes, {})
    BY <2>2 DEF Uncovered
  <2>4. Cardinality({}) = 0
    BY FS_EmptySet
  <2>5. PICK order0 : order0 = InOrder({}, Rising({}))
    OBVIOUS
  <2>6. Kept(scenes, {}) = [i \in 1..0 |-> scenes[order0[i]]]
    BY <2>4, <2>5 DEF Kept
  <2>7. [i \in 1..0 |-> scenes[order0[i]]] = <<>>
    OBVIOUS
  <2>8. QED
    BY <2>3, <2>6, <2>7
<1>13. kept \in Seq(ShootDay) /\ Len(kept) = n
  <2>1. \A i \in 1..n : days[order[i]] \in ShootDay
    BY <1>4, <1>8
  <2>2. QED
    BY <1>9, <2>1
<1>14. kept # <<>>
  <2>1. 1 \in DOMAIN scenes
    BY <1>1
  <2>2. scenes[1] \in ToSet(scenes)
    BY <1>1, <2>1
  <2>3. PICK p \in PlacesOn(days) : StripAt(days, p).key = scenes[1].key
    BY <2>2 DEF Placed
  <2>4. PICK d : d \in places
    BY <1>2, <1>6
  <2>5. n # 0
    BY <1>5, <1>8, <2>4, FS_EmptySet
  <2>6. QED
    BY <1>13, <2>5
<1>15. BuildFromSaved(rows, metas, scenes) = OneDayAtLeast(kept \o <<>>)
  BY <1>11, <1>12 DEF BuildFromSaved
<1>16. kept \o <<>> = kept
  BY <1>13
<1>17. QED
  BY <1>4, <1>10, <1>14, <1>15, <1>16 DEF OneDayAtLeast


-----------------------------------------------------------------------------
LEMMA LoadingStays ==
  ASSUME Loading, losses' \in Nat, \A c \in boardHistory'.by : board'[c].phase = "shown",
         \A q \in exchanges' : q.verb = "get" =>
           q \in exchanges /\ board'[q.client].phase = board[q.client].phase
  PROVE  Loading'
BY DEF Loading, OnBoard

LEMMA LoadingInit == BoardInit => Loading
BY DEF BoardInit, Loading

LEMMA LoadingNext == BoardInv /\ OpenBoards /\ Loading /\ [BoardNext]_boardVars => Loading'
<1> SUFFICES ASSUME BoardInv, OpenBoards, Loading, [BoardNext]_boardVars PROVE Loading'
  OBVIOUS
<1>1. /\ board \in [Clients -> BoardState] /\ boardHistory.by \subseteq Clients
      /\ boardHistory \in [finished : Nat, crossed : BOOLEAN, by : SUBSET Clients]
      /\ \A r \in exchanges : r \in Get \union Put /\ (r.verb = "get" => r.client \in Clients)
      /\ losses \in Nat
      /\ \A c \in boardHistory.by : board[c].phase = "shown"
  BY DEF BoardInv, Boards, Counts, Tables, Get, Put, Loading, OnBoard
<1>2. ASSUME NEW c \in Clients, OpenBoard(c) PROVE Loading'
  <2>1. board'[c].phase = "loading" /\ (\A e \in Clients : e # c => board'[e] = board[e])
        /\ UNCHANGED <<losses, boardHistory>>
    BY <1>1, <1>2 DEF OpenBoard, Closed
  <2>2. PICK s : s.verb = "get" /\ s.client = c /\ exchanges' = exchanges \union {s}
    BY <1>2 DEF OpenBoard
  <2>3. \A r \in exchanges : r.verb = "get" => r.client \in Clients /\ r.client # c
    BY <1>1, <1>2 DEF OpenBoard, OpenBoards
  <2>4. c \notin boardHistory.by
    BY <1>1, <1>2 DEF OpenBoard
  <2>5. \A q \in exchanges' : q.verb = "get" => board'[q.client].phase = "loading"
    BY <2>1, <2>2, <2>3 DEF Loading
  <2>6. \A q, r \in exchanges' : q.verb = "get" /\ r.verb = "get" /\ q.client = r.client => q = r
    BY <2>2, <2>3 DEF Loading
  <2>7. \A e \in boardHistory'.by : board'[e].phase = "shown"
    BY <1>1, <2>1, <2>4
  <2>8. QED
    BY <1>1, <2>1, <2>5, <2>6, <2>7 DEF Loading, OnBoard
<1>3. ASSUME NEW c \in Clients, CloseBoard(c) PROVE Loading'
  <2>1. (\A e \in Clients : e # c => board'[e] = board[e]) /\ UNCHANGED losses
        /\ boardHistory'.by = boardHistory.by \ {c}
    BY <1>1, <1>3 DEF CloseBoard, boardCounters
  <2>2. \A q \in exchanges' : q \in exchanges /\ (q.verb = "get" => q.client # c)
    BY <1>3 DEF CloseBoard
  <2>3. QED
    BY <1>1, <2>1, <2>2, LoadingStays
<1>4. ASSUME NEW r \in exchanges, LoadSchedule(r) \/ LoadScheduleFailed(r) PROVE Loading'
  <2>1. PICK c \in Clients, b \in BoardState : c = r.client /\ b = board[c] /\ r.verb = "get"
    BY <1>1, <1>4 DEF LoadSchedule, LoadScheduleFailed
  <2>2. PICK days, suggested : ShowBoard(c, days, suggested)
    BY <1>4, <2>1, Zenon DEF LoadSchedule, LoadScheduleFailed
  <2>3. \A e \in Clients : e # c => board'[e] = board[e]
    BY <1>1, <2>1, <2>2 DEF ShowBoard
  <2>4. exchanges' = exchanges \ {r} /\ losses' \in Nat /\ UNCHANGED boardHistory
    <3>1. CASE LoadSchedule(r)
      BY <1>1, <3>1 DEF LoadSchedule, boardCounters
    <3>2. CASE LoadScheduleFailed(r)
      <4>1. losses' = losses + 1 /\ exchanges' = exchanges \ {r} /\ UNCHANGED boardHistory
        BY <3>2, Zenon DEF LoadScheduleFailed
      <4>2. QED
        BY <1>1, <4>1
    <3>3. QED
      BY <1>4, <3>1, <3>2
  <2>5. \A q \in exchanges' : q.verb = "get" => q \in exchanges /\ q.client \in Clients /\ q.client # c
    BY <1>1, <2>1, <2>4 DEF Loading
  <2>6. c \notin boardHistory.by
    BY <1>1, <2>1 DEF Loading
  <2>7. QED
    BY <1>1, <2>3, <2>4, <2>5, <2>6, LoadingStays
<1>5. ASSUME NEW c \in Clients, NEW days, Changed(c, days) PROVE Loading'
  <2>1. PICK unsaved : board' = [board EXCEPT ![c].days = days, ![c].unsaved = unsaved]
    BY <1>5 DEF Changed, Persist, NotSaved
  <2>2. PICK b \in BoardState : b = board[c]
    BY <1>1
  <2>3. board'[c] = [b EXCEPT !.days = days, !.unsaved = unsaved]
        /\ \A e \in Clients : e # c => board'[e] = board[e]
    BY <1>1, <2>1, <2>2
  <2>4. \A e \in Clients : board'[e].phase = board[e].phase
    BY <2>2, <2>3 DEF BoardState
  <2>5. \A q \in exchanges' : q \in exchanges \/ q.verb = "put"
    BY <1>5 DEF Changed, Persist, NotSaved
  <2>6. \A e \in boardHistory'.by : e \in Clients /\ board[e].phase = "shown"
    <3>1. board[c].phase = "shown"
      BY <1>5 DEF Changed, OnBoard
    <3>2. boardHistory'.by = {c} \/ boardHistory' = boardHistory
      <4>1. CASE Persist(c, days)
        <5>1. PICK crossed : boardHistory' = [boardHistory EXCEPT !.crossed = crossed, !.by = {c}]
          BY <4>1, Zenon DEF Persist
        <5>2. QED
          BY <1>1, <5>1
      <4>2. CASE NotSaved(c, days)
        BY <4>2 DEF NotSaved
      <4>3. QED
        BY <1>5, <4>1, <4>2 DEF Changed
    <3>3. QED
      BY <1>1, <3>1, <3>2
  <2>7. UNCHANGED losses
    BY <1>5 DEF Changed
  <2>8. QED
    BY <1>1, <2>4, <2>5, <2>6, <2>7, LoadingStays
<1>6. ASSUME NEW r \in exchanges, ListStrips(r) \/ ListDays(r) \/ DeleteStrips(r) \/ DeleteDays(r) PROVE Loading'
  <2>1. UNCHANGED <<board, losses, boardHistory>>
    BY <1>6 DEF ListStrips, ListDays, DeleteStrips, DeleteDays, boardCounters
  <2>2. PICK s : Advance(r, s) /\ s.verb = r.verb /\ (r.verb = "get" => s.client = r.client)
    BY <1>6, ServedRequest
  <2>3. exchanges' = (exchanges \ {r}) \union {s}
    BY <2>2 DEF Advance
  <2>4. QED
    BY <1>1, <2>1, <2>2, <2>3 DEF Loading, OnBoard
<1>7. ASSUME UNCHANGED <<board, boardHistory>>, losses' \in Nat, \A q \in exchanges' : q \in exchanges PROVE Loading'
  BY <1>1, <1>7, LoadingStays
<1>8. CASE Rewrite
  BY <1>1, <1>7, <1>8 DEF Rewrite
<1>9. ASSUME NEW r \in exchanges, Commit(r) PROVE Loading'
  <2>1. UNCHANGED <<board, losses>> /\ boardHistory'.by = boardHistory.by /\ exchanges' = exchanges \ {r}
    BY <1>1, <1>9 DEF Commit, boardCounters
  <2>2. QED
    BY <1>1, <2>1, LoadingStays
<1>10. CASE \E r \in exchanges : ReplaceFailed(r)
  BY <1>1, <1>7, <1>10 DEF ReplaceFailed
<1>11. CASE UNCHANGED boardVars
  BY <1>1, <1>7, <1>11 DEF boardVars, boardCounters
<1>12. CASE \E c \in Clients : OnDrop(c) \/ AddDay(c) \/ RemoveDay(c) \/ CloseCallSheet(c) \/ OnEscape(c)
  BY <1>5, <1>12, MovesChange
<1>13. QED
  BY <1>2, <1>3, <1>4, <1>6, <1>8, <1>9, <1>10, <1>11, <1>12 DEF BoardNext

-----------------------------------------------------------------------------
LEMMA NothingSaved ==
  ASSUME OneAtATime, LastSave, UNCHANGED <<strips, dayMetas, saves>>, Puts' = Puts,
         boardHistory'.crossed = boardHistory.crossed, boardHistory'.by \subseteq boardHistory.by,
         losses' = 0 => losses = 0,
         \A c \in boardHistory'.by : board'[c].unsaved \/ board'[c] = board[c]
  PROVE  OneAtATime' /\ LastSave'
<1>1. OneAtATime'
  BY DEF OneAtATime
<1>2. SUFFICES ASSUME ~boardHistory'.crossed, losses' = 0, NEW c \in boardHistory'.by, ~board'[c].unsaved,
                      DistinctKeys(board'[c].scenes)
               PROVE  IF Puts' = {} THEN SavedAs(strips, dayMetas, board[c].days)'
                      ELSE \A r \in Puts' : r.distinct /\ SavedAs(r.strips, r.days, board[c].days)'
  BY <1>1 DEF LastSave
<1>3. /\ ~boardHistory.crossed /\ losses = 0 /\ c \in boardHistory.by /\ board'[c] = board[c]
      /\ ~board[c].unsaved /\ DistinctKeys(board[c].scenes)
  BY <1>2
<1>4. IF Puts = {} THEN SavedAs(strips, dayMetas, board[c].days)
      ELSE \A r \in Puts : r.distinct /\ SavedAs(r.strips, r.days, board[c].days)
  BY <1>3 DEF LastSave
<1>5. QED
  BY <1>3, <1>4 DEF SavedAs

(* The save of a board is the only one, or it has crossed another. *)
LEMMA SavedLast ==
  ASSUME BoardInv, NEW c \in Clients, OnBoard(c), NEW days, Reordered(days, board[c].days), Persist(c, days)
  PROVE  OneAtATime' /\ LastSave'
<1>1. PICK b \in BoardState : b = board[c] /\ board \in [Clients -> BoardState] /\ Placed(b.days, b.scenes)
  BY DEF BoardInv, Boards
<1>2. board'[c] = [b EXCEPT !.days = days, !.unsaved = FALSE]
  BY <1>1 DEF Persist
<1>3. board'[c].days = days /\ board'[c].scenes = b.scenes
  BY <1>2 DEF BoardState
<1>4. boardHistory'.by = {c} /\ (boardHistory'.crossed <=> boardHistory.crossed \/ Puts # {})
  <2>1. PICK h \in [finished : Nat, crossed : BOOLEAN, by : SUBSET Clients] : h = boardHistory
    BY DEF BoardInv, Counts
  <2>2. PICK crossed \in BOOLEAN : crossed = (h.crossed \/ Puts # {})
    OBVIOUS
  <2>3. boardHistory' = [h EXCEPT !.crossed = crossed, !.by = {c}]
    BY <2>1, <2>2, Zenon DEF Persist
  <2>4. QED
    BY <2>1, <2>2, <2>3
<1>5. PICK s : /\ exchanges' = exchanges \union {s} /\ s.stage = "sent" /\ s.verb = "put"
               /\ s.strips = StripRows(days, saves + 1) /\ s.days = DayRows(days, saves + 1)
               /\ s.distinct = OncePlaced(days)
  <2>1. PICK distinct \in BOOLEAN : distinct = OncePlaced(days)
    BY DEF OncePlaced
  <2>2. PICK s : s = [verb |-> "put", stage |-> "sent", strips |-> StripRows(days, saves + 1),
                      days |-> DayRows(days, saves + 1), seen |-> {}, seenDays |-> {}, distinct |-> distinct]
    OBVIOUS
  <2>3. exchanges' = exchanges \union {s}
    BY <2>1, <2>2 DEF Persist
  <2>4. /\ s.stage = "sent" /\ s.verb = "put" /\ s.distinct = distinct
        /\ s.strips = StripRows(days, saves + 1) /\ s.days = DayRows(days, saves + 1)
    BY <2>2
  <2>5. QED
    BY <2>1, <2>3, <2>4, Zenon
<1>6. ASSUME ~boardHistory'.crossed PROVE Puts' = {s}
  BY <1>4, <1>5, <1>6 DEF Puts
<1>7. OneAtATime'
  BY <1>5, <1>6 DEF OneAtATime
<1>8. saves + 1 \in 1..saves'
  BY DEF BoardInv, Counts, Persist
<1>9. ASSUME DistinctKeys(b.scenes) PROVE OncePlaced(days)
  BY <1>1, <1>9, StillPlaced DEF Placed
<1>10. SavedAs(s.strips, s.days, days)'
  BY <1>5, <1>8 DEF SavedAs
<1>11. LastSave'
  BY <1>3, <1>4, <1>5, <1>6, <1>9, <1>10 DEF LastSave
<1>12. QED
  BY <1>7, <1>11

LEMMA SaveServed ==
  ASSUME BoardInv, OneAtATime, LastSave, NEW r \in exchanges, DeleteStrips(r) \/ DeleteDays(r)
  PROVE  OneAtATime' /\ LastSave'
<1>1. UNCHANGED <<board, strips, dayMetas, losses, saves, boardHistory>>
  BY DEF DeleteStrips, DeleteDays, boardCounters
<1>2. r \in Put /\ r \in Puts
  BY DEF DeleteStrips, DeleteDays, BoardInv, Tables, Get, Puts
<1>3. PICK s : /\ Advance(r, s) /\ s.verb = "put" /\ s.strips = r.strips /\ s.days = r.days /\ s.distinct = r.distinct
               /\ \/ s.stage = "strips" /\ s.seen = strips
                  \/ r.stage = "strips" /\ s.stage = "days" /\ s.seen = r.seen /\ s.seenDays = dayMetas
  <2>1. CASE DeleteStrips(r)
    <3>1. PICK s : s = [r EXCEPT !.stage = "strips", !.seen = strips]
      OBVIOUS
    <3>2. /\ s.strips = r.strips /\ s.days = r.days /\ s.seen = strips /\ s.stage = "strips"
          /\ s.verb = r.verb /\ s.distinct = r.distinct
      BY <1>2, <3>1 DEF Put
    <3>3. Advance(r, s) /\ r.verb = "put"
      BY <2>1, <3>1 DEF DeleteStrips
    <3>4. QED
      BY <3>2, <3>3
  <2>2. CASE DeleteDays(r)
    <3>1. PICK s : s = [r EXCEPT !.stage = "days", !.seenDays = dayMetas]
      OBVIOUS
    <3>2. /\ s.strips = r.strips /\ s.days = r.days /\ s.seen = r.seen /\ s.seenDays = dayMetas
          /\ s.stage = "days" /\ s.verb = r.verb /\ s.distinct = r.distinct
      BY <1>2, <3>1 DEF Put
    <3>3. Advance(r, s) /\ r.verb = "put" /\ r.stage = "strips"
      BY <2>2, <3>1 DEF DeleteDays
    <3>4. QED
      BY <3>2, <3>3
  <2>3. QED
    BY <2>1, <2>2
<1>4. ASSUME ~boardHistory'.crossed PROVE Puts = {r} /\ Puts' = {s}
  BY <1>1, <1>2, <1>3, <1>4 DEF OneAtATime, Advance, Puts
<1>5. OneAtATime'
  BY <1>1, <1>2, <1>3, <1>4 DEF OneAtATime
<1>6. LastSave'
  BY <1>1, <1>3, <1>4 DEF LastSave, SavedAs
<1>7. QED
  BY <1>5, <1>6

(* A save that has seen all that is stored is taken and replaces it. *)
LEMMA SaveTaken ==
  ASSUME BoardInv, OneAtATime, LastSave, NEW r \in exchanges, Commit(r)
  PROVE  OneAtATime' /\ LastSave'
<1>1. UNCHANGED <<board, losses, saves>> /\ exchanges' = exchanges \ {r} /\ r \in Puts /\ r.stage = "days"
  BY DEF Commit, boardCounters, Puts
<1>2. boardHistory'.crossed = boardHistory.crossed /\ boardHistory'.by = boardHistory.by
  BY DEF Commit, BoardInv, Counts
<1>3. ASSUME ~boardHistory'.crossed
      PROVE  Puts = {r} /\ Puts' = {} /\ r.seen = strips /\ r.seenDays = dayMetas
  BY <1>1, <1>2, <1>3 DEF OneAtATime, Puts
<1>4. OneAtATime'
  BY <1>3 DEF OneAtATime
<1>5. SUFFICES ASSUME ~boardHistory'.crossed, losses' = 0, NEW c \in boardHistory'.by, ~board'[c].unsaved,
                      DistinctKeys(board'[c].scenes)
               PROVE  SavedAs(strips, dayMetas, board[c].days)'
  BY <1>3, <1>4 DEF LastSave
<1>6. r.distinct /\ SavedAs(r.strips, r.days, board[c].days)
  BY <1>1, <1>2, <1>3, <1>5 DEF LastSave
<1>7. strips' = r.strips /\ dayMetas' = r.days
  <2>1. ~InsertsRefused(r)
    BY <1>3, <1>5, <1>6 DEF InsertsRefused
  <2>2. strips' = (strips \ r.seen) \union r.strips /\ dayMetas' = (dayMetas \ r.seenDays) \union r.days
    BY <2>1 DEF Commit
  <2>3. QED
    BY <1>3, <1>5, <2>2
<1>8. QED
  BY <1>1, <1>6, <1>7 DEF SavedAs

LEMMA LastSaveInit == BoardInit => OneAtATime /\ LastSave
BY DEF BoardInit, OneAtATime, LastSave, Puts

LEMMA LastSaveNext ==
  ASSUME BoardInv, OpenBoards, Loading, OneAtATime, LastSave, [BoardNext]_boardVars
  PROVE  OneAtATime' /\ LastSave'
<1>1. /\ board \in [Clients -> BoardState] /\ losses \in Nat /\ boardHistory.by \subseteq Clients
      /\ boardHistory \in [finished : Nat, crossed : BOOLEAN, by : SUBSET Clients]
      /\ \A r \in exchanges : r \in Get \union Put /\ (r.verb = "get" => r.client \in Clients)
      /\ \A c \in boardHistory.by : board[c].phase = "shown"
  BY DEF BoardInv, Boards, Tables, Counts, Get, Put, Loading, OnBoard
<1>2. ASSUME NEW c \in Clients, UNCHANGED <<strips, dayMetas, losses, saves>>, Puts' = Puts,
             boardHistory' = boardHistory \/ boardHistory' = [boardHistory EXCEPT !.by = @ \ {c}],
             \A e \in Clients : e # c => board'[e] = board[e], c \notin boardHistory'.by
      PROVE  OneAtATime' /\ LastSave'
  <2>1. boardHistory'.crossed = boardHistory.crossed /\ boardHistory'.by \subseteq boardHistory.by
    BY <1>1, <1>2
  <2>2. \A e \in boardHistory'.by : board'[e] = board[e]
    BY <1>1, <1>2, <2>1
  <2>3. QED
    BY <1>2, <2>1, <2>2, NothingSaved
<1>3. ASSUME NEW c \in Clients, OpenBoard(c) PROVE OneAtATime' /\ LastSave'
  <2>1. \A e \in Clients : e # c => board'[e] = board[e]
    BY <1>1, <1>3 DEF OpenBoard
  <2>2. \A q \in exchanges' : q \in exchanges \/ q.verb = "get"
    BY <1>3 DEF OpenBoard
  <2>3. Puts' = Puts
    BY <1>3, <2>2 DEF OpenBoard, Puts
  <2>4. c \notin boardHistory'.by
    BY <1>1, <1>3 DEF OpenBoard
  <2>5. UNCHANGED <<strips, dayMetas, losses, saves, boardHistory>>
    BY <1>3 DEF OpenBoard
  <2>6. QED
    BY <1>2, <2>1, <2>3, <2>4, <2>5
<1>4. ASSUME NEW c \in Clients, CloseBoard(c) PROVE OneAtATime' /\ LastSave'
  <2>1. \A e \in Clients : e # c => board'[e] = board[e]
    BY <1>1, <1>4 DEF CloseBoard
  <2>2. Puts' = Puts
    BY <1>4 DEF CloseBoard, Puts
  <2>3. boardHistory' = [boardHistory EXCEPT !.by = @ \ {c}] /\ c \notin boardHistory'.by
    BY <1>1, <1>4 DEF CloseBoard
  <2>4. UNCHANGED <<strips, dayMetas, losses, saves>>
    BY <1>4 DEF CloseBoard, boardCounters
  <2>5. QED
    BY <1>2, <2>1, <2>2, <2>3, <2>4
<1>5. ASSUME NEW r \in exchanges, LoadSchedule(r) \/ LoadScheduleFailed(r) PROVE OneAtATime' /\ LastSave'
  <2>1. PICK c \in Clients, b \in BoardState : c = r.client /\ b = board[c] /\ r.verb = "get"
    BY <1>1, <1>5 DEF LoadSchedule, LoadScheduleFailed
  <2>2. PICK days, suggested : ShowBoard(c, days, suggested)
    BY <1>5, <2>1, Zenon DEF LoadSchedule, LoadScheduleFailed
  <2>3. \A e \in Clients : e # c => board'[e] = board[e]
    BY <1>1, <2>1, <2>2 DEF ShowBoard
  <2>4. c \notin boardHistory.by
    BY <1>1, <2>1 DEF Loading
  <2>5. exchanges' = exchanges \ {r} /\ UNCHANGED <<strips, dayMetas, saves, boardHistory>>
    BY <1>5 DEF LoadSchedule, LoadScheduleFailed
  <2>6. Puts' = Puts
    BY <2>1, <2>5 DEF Puts
  <2>7. losses' = 0 => losses = 0
    <3>1. losses' = losses \/ losses' = losses + 1
      BY <1>5, Zenon DEF LoadSchedule, LoadScheduleFailed, boardCounters
    <3>2. QED
      BY <1>1, <3>1
  <2>8. \A e \in boardHistory'.by : board'[e] = board[e]
    BY <1>1, <2>3, <2>4, <2>5
  <2>9. QED
    BY <2>5, <2>6, <2>7, <2>8, NothingSaved
<1>6. ASSUME NEW c \in Clients, NEW days, Changed(c, days) PROVE OneAtATime' /\ LastSave'
  <2>1. OnBoard(c) /\ Reordered(days, board[c].days) /\ UNCHANGED <<strips, dayMetas, losses>>
    BY <1>6 DEF Changed
  <2>2. CASE Persist(c, days)
    BY <2>1, <2>2, SavedLast
  <2>3. CASE NotSaved(c, days)
    <3>1. PICK b \in BoardState : b = board[c]
      BY <1>1
    <3>2. board'[c] = [b EXCEPT !.days = days, !.unsaved = TRUE] /\ \A e \in Clients : e # c => board'[e] = board[e]
      BY <1>1, <2>3, <3>1 DEF NotSaved
    <3>3. board'[c].unsaved
      BY <3>1, <3>2 DEF BoardState
    <3>4. UNCHANGED <<exchanges, saves, boardHistory>>
      BY <2>3 DEF NotSaved
    <3>5. \A e \in boardHistory'.by : board'[e].unsaved \/ board'[e] = board[e]
      BY <1>1, <3>2, <3>3, <3>4
    <3>6. QED
      BY <2>1, <3>4, <3>5, NothingSaved DEF Puts
  <2>4. QED
    BY <1>6, <2>2, <2>3 DEF Changed
<1>7. ASSUME UNCHANGED <<board, strips, dayMetas, losses, saves, boardHistory>>, Puts' = Puts
      PROVE  OneAtATime' /\ LastSave'
  BY <1>7, NothingSaved
<1>8. CASE Rewrite \/ UNCHANGED boardVars
  BY <1>7, <1>8 DEF Rewrite, boardVars, boardCounters, Puts
<1>9. ASSUME NEW r \in exchanges, ListStrips(r) \/ ListDays(r) PROVE OneAtATime' /\ LastSave'
  <2>1. PICK s : Advance(r, s) /\ s.verb = r.verb
    BY <1>9, ServedRequest
  <2>2. r.verb = "get" /\ UNCHANGED <<board, strips, dayMetas, losses, saves, boardHistory>>
    BY <1>9 DEF ListStrips, ListDays, boardCounters
  <2>3. Puts' = Puts
    BY <2>1, <2>2 DEF Puts, Advance
  <2>4. QED
    BY <1>7, <2>2, <2>3
<1>10. CASE \E r \in exchanges : DeleteStrips(r) \/ DeleteDays(r)
  BY <1>10, SaveServed
<1>11. CASE \E r \in exchanges : Commit(r)
  BY <1>11, SaveTaken
<1>12. ASSUME NEW r \in exchanges, ReplaceFailed(r) PROVE OneAtATime' /\ LastSave'
  <2>1. UNCHANGED <<strips, dayMetas, boardHistory>> /\ exchanges' = exchanges \ {r} /\ losses' # 0
    BY <1>1, <1>12 DEF ReplaceFailed
  <2>2. \A q \in Puts' : q \in Puts
    BY <2>1 DEF Puts
  <2>3. QED
    BY <2>1, <2>2 DEF OneAtATime, LastSave
<1>13. CASE \E c \in Clients : OnDrop(c) \/ AddDay(c) \/ RemoveDay(c) \/ CloseCallSheet(c) \/ OnEscape(c)
  BY <1>6, <1>13, MovesChange
<1>14. QED
  BY <1>3, <1>4, <1>5, <1>8, <1>9, <1>10, <1>11, <1>12, <1>13 DEF BoardNext

(* What a schedule was saved as is what a reload shows (persist, Replace, build-  *)
(* FromSaved): its days in their order, their scenes and call sheets, without the *)
(* empty days, once the saves are served, if none crossed another or was lost.    *)
THEOREM SavedBoardsComeBack == BoardSpec => []SavedBoardComesBack
<1>1. BoardInit => BoardInv /\ OpenBoards /\ Loading /\ OneAtATime /\ LastSave
  BY BoardInvInit, OpenBoardsInit, LoadingInit, LastSaveInit
<1>2. BoardInv /\ OpenBoards /\ Loading /\ OneAtATime /\ LastSave /\ [BoardNext]_boardVars
        => (BoardInv /\ OpenBoards /\ Loading /\ OneAtATime /\ LastSave)'
  BY BoardInvNext, OpenBoardsNext, LoadingNext, LastSaveNext
<1>3. BoardInv /\ OpenBoards /\ Loading /\ OneAtATime /\ LastSave => SavedBoardComesBack
  <2> SUFFICES ASSUME BoardInv, OpenBoards, LastSave, NEW c \in Clients,
                      OnBoard(c), boardHistory.by = {c}, ~board[c].unsaved, Puts = {}, ~boardHistory.crossed, losses = 0,
                      board[c].scenes # <<>>, DistinctKeys(board[c].scenes)
               PROVE  BuildFromSaved(strips, dayMetas, board[c].scenes)
                        = Kept(board[c].days, {d \in DOMAIN board[c].days : board[c].days[d].strips # <<>>})
    BY DEF SavedBoardComesBack
  <2>1. PICK scenes \in SceneLists : scenes = board[c].scenes
    BY DEF OnBoard, OpenBoards
  <2>2. PICK days \in Seq(ShootDay) : days = board[c].days /\ Placed(days, scenes)
    BY <2>1, BoardHasDays DEF BoardInv
  <2>3. SavedAs(strips, dayMetas, days)
    BY <2>2 DEF LastSave
  <2>4. PICK save \in 1..saves : strips = StripRows(days, save) /\ dayMetas = DayRows(days, save)
    BY <2>3 DEF SavedAs
  <2>5. save \in Nat
    BY DEF BoardInv, Counts
  <2>6. BuildFromSaved(strips, dayMetas, scenes) = Kept(days, {d \in DOMAIN days : days[d].strips # <<>>})
    BY <2>1, <2>2, <2>4, <2>5, ReadsBack
  <2>7. QED
    BY <2>1, <2>2, <2>6
<1>4. QED
  BY <1>1, <1>2, <1>3, PTL DEF BoardSpec
=============================================================================
