----------------------- MODULE ProductionPagesProofs -----------------------
(***************************************************************************)
(* What is proved of the pages, for every page, every bound and however     *)
(* requests cross: no text is blanked by a page that has not loaded it,      *)
(* one row is chosen, a row that is shown stays until it is removed, and a   *)
(* page that has heard every answer shows what is stored.                    *)
(*                                                                          *)
(* Every step is seen through one relation, Steps, which says what it can    *)
(* leave of the requests, the stored rows and the lists; the inductive       *)
(* invariants are proved from it, and not once per action.                  *)
(***************************************************************************)
EXTENDS ProductionPages, OrdersProofs

-----------------------------------------------------------------------------
ShownRow == [id : Nat, words : Nat, chosen : BOOLEAN]
StoredRow == [id : Nat, words : Nat, chosen : BOOLEAN, pos : Nat]
Seen(r) == [id |-> r.id, words |-> r.words, chosen |-> r.chosen]

GoodRows(R) ==
  /\ R \subseteq StoredRow /\ IsFiniteSet(R)
  /\ \A r, s \in R : r.id = s.id => r = s

LEMMA OrderByIsStrict ==
  ASSUME NEW list, NEW R, GoodRows(R)
  PROVE  StrictOrder(R, OrderBy(list, R))
<1> DEFINE Older(a, b) == a.pos < b.pos \/ (a.pos = b.pos /\ a.id < b.id)
<1>1. \A r \in R : r.pos \in Nat /\ r.id \in Nat
  BY DEF GoodRows, StoredRow
<1>2. \A a, b \in R : a.id = b.id => a = b
  BY DEF GoodRows
<1>3. CASE list.latest
  <2>1. \A a, b \in R : <<a, b>> \in OrderBy(list, R) <=> Older(b, a)
    BY <1>3 DEF OrderBy
  <2>2. QED
    BY <1>1, <1>2, <2>1 DEF StrictOrder
<1>4. CASE ~list.latest
  <2>1. \A a, b \in R : <<a, b>> \in OrderBy(list, R) <=> Older(a, b)
    BY <1>4 DEF OrderBy
  <2>2. QED
    BY <1>1, <1>2, <2>1 DEF StrictOrder
<1>5. QED
  BY <1>3, <1>4

LEMMA Listed ==
  ASSUME NEW list, NEW R, GoodRows(R)
  PROVE  /\ Listing(list, R) \in Seq(ShownRow)
         /\ \A k \in DOMAIN Listing(list, R) : \E r \in R : Listing(list, R)[k] = Seen(r)
         /\ \A r \in R : \E k \in DOMAIN Listing(list, R) : Listing(list, R)[k] = Seen(r)
         /\ \A j, k \in DOMAIN Listing(list, R) : Listing(list, R)[j].id = Listing(list, R)[k].id => j = k
<1> DEFINE s == InOrder(R, OrderBy(list, R))
           n == Cardinality(R)
           shown == [i \in 1..n |-> Seen(s[i])]
<1>1. IsFiniteSet(R)
  BY DEF GoodRows
<1>2. /\ n \in Nat /\ s \in Seq(R) /\ Len(s) = n
      /\ \A i, j \in 1..n : s[i] = s[j] => i = j
      /\ \A x \in R : \E i \in 1..n : s[i] = x
  BY <1>1, OrderByIsStrict, InOrderIsABijection
<1>3. Listing(list, R) = shown
  BY DEF Listing, Seen
<1> HIDE DEF s, n
<1>4. \A i \in 1..n : s[i] \in R /\ Seen(s[i]) \in ShownRow /\ Seen(s[i]).id = s[i].id
  BY <1>2 DEF GoodRows, Seen, ShownRow, StoredRow
<1>5. /\ shown \in Seq(ShownRow) /\ DOMAIN shown = 1..n
      /\ \A i \in 1..n : shown[i] = Seen(s[i])
  BY <1>2, <1>4
<1> HIDE DEF shown
<1>6. \A r \in R : \E k \in 1..n : shown[k] = Seen(r)
  BY <1>2, <1>5
<1>7. \A j, k \in 1..n : shown[j].id = shown[k].id => j = k
  <2>1. \A a, b \in R : a.id = b.id => a = b
    BY DEF GoodRows
  <2>2. QED
    BY <1>2, <1>4, <1>5, <2>1
<1>8. QED
  BY <1>3, <1>4, <1>5, <1>6, <1>7

GoodList(p, l) ==
  LET list == p.lists[l] IN
  /\ list.api \subseteq {"post", "put", "delete", "choose", "reorder"}
  /\ list.via \in p.gets
  /\ list.keyed \in BOOLEAN /\ list.blank \in BOOLEAN
  /\ list.keyed => list.api \subseteq {"put"} /\ list.joins = 0 /\ ~list.filled
  /\ list.blank => p.gate /\ list.via \in p.awaited
  /\ list.joins \in {0} \union DOMAIN p.lists
  /\ list.joins # 0 => /\ ~ p.gate /\ list.joins # l
                       /\ ~ p.lists[list.joins].keyed
                       /\ "choose" \notin p.lists[list.joins].api
  /\ list.shows = "reload" => ~ p.gate
  /\ "choose" \in list.api => /\ list.shows = "at once" /\ list.joins = 0
                              /\ "reorder" \notin list.api
                              /\ p.gate /\ p.gets = {list.via} /\ p.awaited = {list.via}
                              /\ DOMAIN p.lists = {l}

IsRows(list, api, via, shows, joins) ==
  /\ list.api = api /\ list.via = via /\ list.shows = shows /\ list.joins = joins
  /\ list.keyed = FALSE /\ list.blank = FALSE
IsText(list, api, via, shows) ==
  /\ list.api = api /\ list.via = via /\ list.shows = shows /\ list.joins = 0
  /\ list.keyed = TRUE /\ list.blank = FALSE /\ list.filled = FALSE
IsBlankText(list, api, via) ==
  /\ list.api = api /\ list.via = via /\ list.shows = "at once" /\ list.joins = 0
  /\ list.keyed = TRUE /\ list.blank = TRUE /\ list.filled = FALSE

LEMMA PlainRows ==
  ASSUME NEW api, NEW via, NEW list, list = RowList(api, via)
  PROVE  IsRows(list, api, via, "at once", 0)
BY DEF IsRows, IsText, IsBlankText, RowList

LEMMA FilledRows ==
  ASSUME NEW api, NEW via, NEW list, list = NeverEmpty(RowList(api, via))
  PROVE  IsRows(list, api, via, "at once", 0)
BY DEF IsRows, RowList, NeverEmpty

LEMMA ShownRows ==
  ASSUME NEW api, NEW via, NEW way, NEW list, list = ShownBy(way, RowList(api, via))
  PROVE  IsRows(list, api, via, way, 0)
BY DEF IsRows, IsText, IsBlankText, RowList, ShownBy

LEMMA NewestRows ==
  ASSUME NEW api, NEW via, NEW way, NEW list, list = NewestFirst(ShownBy(way, RowList(api, via)))
  PROVE  IsRows(list, api, via, way, 0)
BY DEF IsRows, IsText, IsBlankText, RowList, ShownBy, NewestFirst

LEMMA JoiningRows ==
  ASSUME NEW api, NEW via, NEW way, NEW list, list = [ShownBy(way, RowList(api, via)) EXCEPT !.busy = TRUE, !.joins = 1]
  PROVE  IsRows(list, api, via, way, 1)
BY DEF IsRows, IsText, IsBlankText, RowList, ShownBy

LEMMA PlainText ==
  ASSUME NEW api, NEW via, NEW list, list = Text(api, via)
  PROVE  IsText(list, api, via, "at once")
BY DEF IsRows, IsText, IsBlankText, RowList, Text

LEMMA BlankText ==
  ASSUME NEW api, NEW via, NEW list, list = SavedBlank(Text(api, via))
  PROVE  IsBlankText(list, api, via)
BY DEF IsRows, IsText, IsBlankText, RowList, Text, SavedBlank

LEMMA ShownText ==
  ASSUME NEW api, NEW via, NEW way, NEW list, list = ShownBy(way, Text(api, via))
  PROVE  IsText(list, api, via, way)
BY DEF IsRows, IsText, IsBlankText, RowList, Text, ShownBy

LEMMA DrawerMade ==
  \A lists : /\ Drawer(lists).gets = {"rows"} /\ Drawer(lists).lists = lists
             /\ Drawer(lists).gate = TRUE /\ Drawer(lists).awaited = {"rows"}
BY DEF Drawer

LEMMA OneListDrawers ==
  ASSUME NEW p, NEW api \in SUBSET {"post", "put", "delete", "choose"},
         p = Drawer(<<RowList(api, "rows")>>)
  PROVE  \A l \in DOMAIN p.lists : GoodList(p, l)
<1>1. DOMAIN p.lists = {1} /\ p.lists[1] = RowList(api, "rows")
  BY DrawerMade
<1>2. p.gets = {"rows"} /\ p.gate /\ p.awaited = {"rows"}
  BY DrawerMade
<1>3. IsRows(p.lists[1], api, "rows", "at once", 0)
  BY <1>1, PlainRows, ShownRows, NewestRows, JoiningRows, PlainText, BlankText, ShownText
<1>4. GoodList(p, 1)
  <2> DEFINE L == p.lists[1]
  <2>1. /\ L.api = api /\ L.via = "rows" /\ L.keyed = FALSE /\ L.blank = FALSE
        /\ L.shows = "at once" /\ L.joins = 0
    BY <1>3 DEF IsRows
  <2>3. "reorder" \notin api /\ L.api \subseteq {"post", "put", "delete", "choose", "reorder"}
    BY <2>1
  <2>5. DOMAIN p.lists = {1} /\ p.gets = {L.via} /\ p.awaited = {L.via} /\ p.gate
    BY <2>1, <1>1, <1>2
  <2> HIDE DEF L
  <2>2. QED
    BY <2>1, <2>3, <2>5 DEF GoodList, L
<1>5. QED
  BY <1>1, <1>4

LEMMA OneTextDrawers ==
  ASSUME NEW p, NEW api \in {{"put"}}, p = Drawer(<<SavedBlank(Text(api, "rows"))>>)
  PROVE  \A l \in DOMAIN p.lists : GoodList(p, l)
<1>1. DOMAIN p.lists = {1} /\ p.lists[1] = SavedBlank(Text(api, "rows"))
  BY DrawerMade
<1>2. p.gets = {"rows"} /\ p.gate /\ p.awaited = {"rows"}
  BY DrawerMade
<1>3. IsBlankText(p.lists[1], api, "rows")
  BY <1>1, PlainRows, ShownRows, NewestRows, JoiningRows, PlainText, BlankText, ShownText
<1>4. GoodList(p, 1)
  <2>1. PICK list : list = p.lists[1]
    OBVIOUS
  <2>2. /\ list.api = {"put"} /\ list.via = "rows" /\ list.shows = "at once" /\ list.joins = 0
        /\ list.keyed = TRUE /\ list.blank = TRUE /\ list.filled = FALSE
    BY <1>3, <2>1 DEF IsBlankText
  <2>3. list.api \subseteq {"post", "put", "delete", "choose", "reorder"} /\ "choose" \notin list.api
    BY <2>2
  <2>4. QED
    BY <1>2, <2>1, <2>2, <2>3 DEF GoodList
<1>5. QED
  BY <1>1, <1>4

LEMMA PressKitIsGood == \A l \in DOMAIN PressKit.lists : GoodList(PressKit, l)
<1> DEFINE p == PressKit
<1>1. /\ DOMAIN p.lists = {1, 2, 3}
      /\ p.lists[1] = Text(PressKitService.kit, "rows")
      /\ p.lists[2] = RowList(PressKitService.stills, "rows")
      /\ p.lists[3] = Text(PressKitService.bios, "rows")
  BY DrawerMade DEF PressKit
<1>2. p.gets = {"rows"} /\ p.gate /\ p.awaited = {"rows"}
  BY DrawerMade DEF PressKit
<1>3. /\ IsText(p.lists[1], PressKitService.kit, "rows", "at once")
      /\ IsRows(p.lists[2], PressKitService.stills, "rows", "at once", 0)
      /\ IsText(p.lists[3], PressKitService.bios, "rows", "at once")
  BY <1>1, PlainRows, ShownRows, NewestRows, JoiningRows, PlainText, BlankText, ShownText
<1>4. GoodList(p, 1) /\ GoodList(p, 3)
  <2> HIDE DEF p
  <2>1. QED
    BY <1>2, <1>3 DEF IsRows, IsText, IsBlankText, GoodList, PressKitService
<1>5. GoodList(p, 2)
  <2> HIDE DEF p
  <2>1. /\ PressKitService.stills \subseteq {"post", "put", "delete", "choose", "reorder"}
       /\ "choose" \notin PressKitService.stills
    BY DEF PressKitService
  <2>2. QED
    BY <1>1, <1>2, <1>3, <2>1 DEF IsRows, IsText, IsBlankText, GoodList
<1>6. QED
  BY <1>1, <1>4, <1>5

LEMMA FestivalTrackerIsGood == \A l \in DOMAIN FestivalTracker.lists : GoodList(FestivalTracker, l)
<1> DEFINE p == FestivalTracker
<1>1. /\ DOMAIN p.lists = {1, 2}
      /\ p.lists[1] = RowList({"post", "put", "delete"}, "festivals")
      /\ p.lists[2] = RowList({"post", "put", "delete"}, "links")
  BY DEF FestivalTracker, Drawer, DistributionService
<1>2. p.gets = {"festivals", "links"} /\ p.gate
  BY DEF FestivalTracker, Drawer
<1>3. /\ IsRows(p.lists[1], {"post", "put", "delete"}, "festivals", "at once", 0)
      /\ IsRows(p.lists[2], {"post", "put", "delete"}, "links", "at once", 0)
  BY <1>1, PlainRows, ShownRows, NewestRows, JoiningRows, PlainText, BlankText, ShownText
<1>4. GoodList(p, 1) /\ GoodList(p, 2)
  <2> HIDE DEF p
  <2>1. QED
    BY <1>2, <1>3 DEF IsRows, IsText, IsBlankText, GoodList
<1>5. QED
  BY <1>1, <1>4

LEMMA BudgetEstimatorIsGood == \A l \in DOMAIN BudgetEstimator.lists : GoodList(BudgetEstimator, l)
<1> DEFINE p == BudgetEstimator
<1>1. /\ DOMAIN p.lists = {1, 2}
      /\ p.lists[1] = SavedBlank(Text({"put"}, "budget"))
      /\ p.lists[2] = RowList({"post", "delete"}, "budget")
  BY DEF BudgetEstimator, Drawer, BudgetService
<1>2. p.gets = {"schedule", "breakdown", "budget"} /\ p.gate /\ p.awaited = {"budget"}
  BY DEF BudgetEstimator, Drawer
<1>3. /\ IsBlankText(p.lists[1], {"put"}, "budget")
      /\ IsRows(p.lists[2], {"post", "delete"}, "budget", "at once", 0)
  BY <1>1, PlainRows, ShownRows, NewestRows, JoiningRows, PlainText, BlankText, ShownText
<1>4. GoodList(p, 1)
  <2> HIDE DEF p
  <2>1. QED
    BY <1>2, <1>3 DEF IsRows, IsText, IsBlankText, GoodList
<1>5. GoodList(p, 2)
  <2> HIDE DEF p
  <2>1. QED
    BY <1>2, <1>3 DEF IsRows, IsText, IsBlankText, GoodList
<1>6. QED
  BY <1>1, <1>4, <1>5

LEMMA StoryPageIsGood == \A l \in DOMAIN StoryPage.lists : GoodList(StoryPage, l)
<1> DEFINE p == StoryPage
<1>1. /\ DOMAIN p.lists = {1, 2, 3}
      /\ p.lists[1] = Text({"put"}, "story")
      /\ p.lists[2] = NeverEmpty(RowList({"post", "put", "delete", "reorder"}, "story"))
      /\ p.lists[3] = Text({"put"}, "story")
  BY DEF StoryPage, StoryService
<1>2. p.gets = {"project", "role", "story"}
  BY DEF StoryPage
<1>3. /\ IsText(p.lists[1], {"put"}, "story", "at once")
      /\ IsRows(p.lists[2], {"post", "put", "delete", "reorder"}, "story", "at once", 0)
      /\ IsText(p.lists[3], {"put"}, "story", "at once")
  BY <1>1, FilledRows, ShownRows, NewestRows, JoiningRows, PlainText, BlankText, ShownText
<1>4. GoodList(p, 1) /\ GoodList(p, 3)
  <2> HIDE DEF p
  <2>1. QED
    BY <1>2, <1>3 DEF IsRows, IsText, IsBlankText, GoodList
<1>5. GoodList(p, 2)
  <2> HIDE DEF p
  <2>1. QED
    BY <1>2, <1>3 DEF IsRows, IsText, IsBlankText, GoodList
<1>6. QED
  BY <1>1, <1>4, <1>5

LEMMA DashboardIsGood == \A l \in DOMAIN Dashboard.lists : GoodList(Dashboard, l)
<1> DEFINE p == Dashboard
<1>1. /\ DOMAIN p.lists = {1, 2}
      /\ p.lists[1] = NewestFirst(ShownBy("on answer", RowList(ProjectService.all, "projects")))
      /\ p.lists[2] = [ShownBy("on answer", RowList(MembershipService.mine, "invites")) EXCEPT !.busy = TRUE, !.joins = 1]
  BY DEF Dashboard
<1>2. p.gets = {"projects", "invites"} /\ ~ p.gate
  BY DEF Dashboard
<1>3. /\ IsRows(p.lists[1], ProjectService.all, "projects", "on answer", 0)
      /\ IsRows(p.lists[2], MembershipService.mine, "invites", "on answer", 1)
  BY <1>1, PlainRows, ShownRows, NewestRows, JoiningRows, PlainText, BlankText, ShownText
<1>4. GoodList(p, 1)
  <2> HIDE DEF p
  <2>1. /\ ProjectService.all \subseteq {"post", "put", "delete", "choose", "reorder"}
       /\ "choose" \notin ProjectService.all
    BY DEF ProjectService
  <2>2. QED
    BY <1>1, <1>2, <1>3, <2>1 DEF IsRows, IsText, IsBlankText, GoodList
<1>5. GoodList(p, 2)
  <2> HIDE DEF p
  <2>1. /\ MembershipService.mine \subseteq {"post", "put", "delete", "choose", "reorder"}
       /\ "choose" \notin MembershipService.mine
    BY DEF MembershipService
  <2>2. ProjectService.all \subseteq {"post", "put", "delete", "choose", "reorder"} /\ "choose" \notin ProjectService.all
    BY DEF ProjectService
  <2>3. QED
    BY <1>1, <1>2, <1>3, <2>1, <2>2 DEF IsRows, IsText, IsBlankText, GoodList
<1>6. QED
  BY <1>1, <1>4, <1>5

LEMMA ProjectPageIsGood == \A l \in DOMAIN ProjectPage.lists : GoodList(ProjectPage, l)
<1> DEFINE p == ProjectPage
<1>1. /\ DOMAIN p.lists = {1, 2}
      /\ p.lists[1] = NewestFirst(ShownBy("on answer", RowList(ScriptService.all, "scripts")))
      /\ p.lists[2] = ShownBy("on answer", Text(ProjectService.one, "project"))
  BY DEF ProjectPage
<1>2. p.gets = {"project", "scripts", "role"}
  BY DEF ProjectPage
<1>3. /\ IsRows(p.lists[1], ScriptService.all, "scripts", "on answer", 0)
      /\ IsText(p.lists[2], ProjectService.one, "project", "on answer")
  BY <1>1, PlainRows, ShownRows, NewestRows, JoiningRows, PlainText, BlankText, ShownText
<1>4. GoodList(p, 1)
  <2> HIDE DEF p
  <2>1. /\ ScriptService.all \subseteq {"post", "put", "delete", "choose", "reorder"}
       /\ "choose" \notin ScriptService.all
    BY DEF ScriptService
  <2>2. QED
    BY <1>1, <1>2, <1>3, <2>1 DEF IsRows, IsText, IsBlankText, GoodList
<1>5. GoodList(p, 2)
  <2> HIDE DEF p
  <2>1. /\ ProjectService.one \subseteq {"put"} /\ "choose" \notin ProjectService.one
        /\ ProjectService.one \subseteq {"post", "put", "delete", "choose", "reorder"}
    BY DEF ProjectService
  <2>2. QED
    BY <1>1, <1>2, <1>3, <2>1 DEF IsRows, IsText, IsBlankText, GoodList
<1>6. QED
  BY <1>1, <1>4, <1>5

LEMMA OneListed == \A a, t : t = <<a>> => DOMAIN t = {1} /\ t[1] = a
OBVIOUS

LEMMA TrashPagesAreGood ==
  ASSUME NEW p \in {TrashPage, ProjectTrashPage}
  PROVE  \A l \in DOMAIN p.lists : GoodList(p, l)
<1>1. /\ DOMAIN p.lists = {1} /\ "trash" \in p.gets
      /\ \E api \in {ProjectService.trash, ScriptService.trash} :
           p.lists[1] = ShownBy("on answer", RowList(api, "trash"))
  <2>1. CASE p = TrashPage
    <3>1. p.lists[1] = ShownBy("on answer", RowList(ProjectService.trash, "trash"))
      BY <2>1 DEF TrashPage
    <3>2. DOMAIN TrashPage.lists = {1} /\ "trash" \in TrashPage.gets
      <4>1. /\ TrashPage.lists = <<ShownBy("on answer", RowList(ProjectService.trash, "trash"))>>
           /\ "trash" \in TrashPage.gets
        BY DEF TrashPage
      <4>2. QED
        BY <4>1, OneListed
    <3>3. QED
      BY <2>1, <3>1, <3>2
  <2>2. CASE p = ProjectTrashPage
    <3>1. p.lists[1] = ShownBy("on answer", RowList(ScriptService.trash, "trash"))
      BY <2>2 DEF ProjectTrashPage
    <3>2. DOMAIN ProjectTrashPage.lists = {1} /\ "trash" \in ProjectTrashPage.gets
      <4>1. /\ ProjectTrashPage.lists = <<ShownBy("on answer", RowList(ScriptService.trash, "trash"))>>
           /\ "trash" \in ProjectTrashPage.gets
        BY DEF ProjectTrashPage
      <4>2. QED
        BY <4>1, OneListed
    <3>3. QED
      BY <2>2, <3>1, <3>2
  <2>3. QED
    BY <2>1, <2>2
<1>2. PICK api \in {ProjectService.trash, ScriptService.trash} :
           p.lists[1] = ShownBy("on answer", RowList(api, "trash"))
  BY <1>1
<1>3. IsRows(p.lists[1], api, "trash", "on answer", 0)
  BY <1>2, ShownRows
<1>4. GoodList(p, 1)
  <2>1. api \subseteq {"delete"}
    BY DEF ProjectService, ScriptService
  <2>2. QED
    BY <1>1, <1>3, <2>1 DEF IsRows, IsText, IsBlankText, GoodList
<1>5. QED
  BY <1>1, <1>4

LEMMA StacksAreGood ==
  ASSUME NEW p \in {CollaboratorStack, CrewStack}
  PROVE  \A l \in DOMAIN p.lists : GoodList(p, l)
<1>1. /\ DOMAIN p.lists = {1} /\ ~ p.gate
      /\ \E api \in {{"post"}, {"post", "delete"}}, via \in p.gets :
           p.lists[1] = ShownBy("reload", RowList(api, via))
  BY DEF CollaboratorStack, CrewStack, MembershipService, CrewService
<1>2. PICK api \in {{"post"}, {"post", "delete"}}, via \in p.gets :
           p.lists[1] = ShownBy("reload", RowList(api, via))
  BY <1>1
<1>3. IsRows(p.lists[1], api, via, "reload", 0)
  BY <1>2, ShownRows
<1>4. GoodList(p, 1)
  <2>1. QED
    BY <1>1, <1>3 DEF IsRows, IsText, IsBlankText, GoodList
<1>5. QED
  BY <1>1, <1>4

LEMMA EditorPageIsGood == \A l \in DOMAIN EditorPage.lists : GoodList(EditorPage, l)
<1> DEFINE p == EditorPage
<1>1. /\ DOMAIN p.lists = {1, 2}
      /\ p.lists[1] = ShownBy("on answer", Text(ProjectService.one, "project"))
      /\ p.lists[2] = ShownBy("on answer", Text(ScriptService.one, "script"))
  BY DEF EditorPage, RenameModals
<1>2. p.gets = {"project", "script", "role"}
  BY DEF EditorPage
<1>3. /\ IsText(p.lists[1], ProjectService.one, "project", "on answer")
      /\ IsText(p.lists[2], ScriptService.one, "script", "on answer")
  BY <1>1, PlainRows, ShownRows, NewestRows, JoiningRows, PlainText, BlankText, ShownText
<1>4. GoodList(p, 1) /\ GoodList(p, 2)
  <2> HIDE DEF p
  <2>1. /\ ProjectService.one \subseteq {"put"} /\ "choose" \notin ProjectService.one
        /\ ProjectService.one \subseteq {"post", "put", "delete", "choose", "reorder"}
        /\ ScriptService.one \subseteq {"put"} /\ "choose" \notin ScriptService.one
        /\ ScriptService.one \subseteq {"post", "put", "delete", "choose", "reorder"}
    BY DEF ProjectService, ScriptService
  <2>2. QED
    BY <1>1, <1>2, <1>3, <2>1 DEF IsRows, IsText, IsBlankText, GoodList
<1>5. QED
  BY <1>1, <1>4

LEMMA PageFacts ==
  ASSUME NEW p \in Pages
  PROVE  \A l \in DOMAIN p.lists : GoodList(p, l)
<1>1. CASE p \in {CastingBoard, LocationScouting, ShotList, RehearsalTracker, ContinuityNotes,
                  MusicVfx, MilestoneTracker}
  <2>1. \E api \in SUBSET {"post", "put", "delete", "choose"} : p = Drawer(<<RowList(api, "rows")>>)
    BY <1>1 DEF CastingBoard, LocationScouting, ShotList, RehearsalTracker, ContinuityNotes, MusicVfx,
      MilestoneTracker, CastingService, ScoutingService, ShotListService, RehearsalService,
      ContinuityService, MusicVfxService, MilestoneService
  <2>2. QED
    BY <2>1, OneListDrawers
<1>2. CASE p \in {BreakdownDrawer, Credits}
  BY <1>2, OneTextDrawers DEF BreakdownDrawer, Credits, SceneBreakdownService, CreditsService
<1>3. CASE p \in {PressKit, FestivalTracker, BudgetEstimator, StoryPage, Dashboard, ProjectPage, EditorPage}
  BY <1>3, PressKitIsGood, FestivalTrackerIsGood, BudgetEstimatorIsGood, StoryPageIsGood,
     DashboardIsGood, ProjectPageIsGood, EditorPageIsGood
<1>4. CASE p \in {TrashPage, ProjectTrashPage, CollaboratorStack, CrewStack}
  BY <1>4, TrashPagesAreGood, StacksAreGood
<1>5. QED
  BY <1>1, <1>2, <1>3, <1>4 DEF Pages

-----------------------------------------------------------------------------
(* What a state of the pages is made of.                                           *)
Changes == {w \in requests : w.verb # "get"}
Pending == {q \in requests : q.verb = "get"}
Served == {q \in Pending : q.stage = "done"}
Adding == {w \in Changes : w.stage = "sent" /\ w.verb \in {"post", "accept"}}

GoodStore(S) == S \in [Lists -> SUBSET StoredRow] /\ \A l \in Lists : GoodRows(S[l])

LoadOK(q) ==
  /\ q \in [n : Nat, verb : {"get"}, via : page.gets, stage : {"sent", "done"}, rows : {q.rows}]
  /\ q.stage = "done" => GoodStore(q.rows)

Verbs(l) == page.lists[l].api \union IF page.lists[l].joins = 0 THEN {} ELSE {"accept"}
ChangeOK(w) ==
  /\ w \in [n : 3..sent, verb : {w.verb}, list : Lists, row : 0..sent, words : Nat, ids : Seq(Nat),
            seen : SUBSET Nat, stage : {w.stage}, mine : BOOLEAN, inHand : BOOLEAN]
  /\ w.verb \in Verbs(w.list)
  /\ w.verb = "post" => w.row = w.n

RequestOK(q) == (q.verb = "get" => LoadOK(q)) /\ (q.verb # "get" => ChangeOK(q))

Shape ==
  /\ page \in Pages /\ open \in BOOLEAN /\ sent \in Nat /\ sent >= 2
  /\ got \subseteq page.gets /\ failed \subseteq page.gets
  /\ GoodStore(store)
  /\ view \in [Lists -> Seq(ShownRow)]
  /\ \A q \in requests : RequestOK(q)

(* Requests have numbers of their own, and no row has one that is yet to be given. *)
Numbered ==
  /\ \A v, w \in Changes : v.n = w.n => v = w
  /\ \A l \in Lists :
       /\ \A r \in store[l] : r.id <= sent
       /\ \A i \in DOMAIN view[l] : view[l][i].id <= sent
       /\ \A q \in Served : \A r \in q.rows[l] : r.id <= sent

(* The row that a request will add is nowhere yet.                                 *)
Fresh ==
  \A w \in Adding :
    /\ \A l \in Lists :
         /\ w.n \notin Ids(store[l])
         /\ \A i \in DOMAIN view[l] : view[l][i].id # w.n
         /\ \A q \in Served : w.n \notin Ids(q.rows[l])
    /\ \A v \in Changes : v # w => v.row # w.n

Sound == Shape /\ Numbered /\ Fresh

-----------------------------------------------------------------------------
LEMMA IdsOf == \A R, x : x \in Ids(R) <=> \E r \in R : r.id = x
BY DEF Ids

LEMMA PlacedRow ==
  ASSUME NEW id \in Nat, NEW words \in Nat, NEW pos \in Nat
  PROVE  /\ Row(id, words) \in ShownRow
         /\ Row(id, words).id = id /\ Row(id, words).words = words /\ ~Row(id, words).chosen
         /\ Place(Row(id, words), pos) \in StoredRow
         /\ Place(Row(id, words), pos).id = id /\ Place(Row(id, words), pos).words = words
         /\ ~Place(Row(id, words), pos).chosen /\ Place(Row(id, words), pos).pos = pos
BY DEF Row, Place, ShownRow, StoredRow

LEMMA OneRowMore ==
  ASSUME NEW R, GoodRows(R), NEW r \in StoredRow, r.id \notin Ids(R)
  PROVE  GoodRows(R \union {r})
<1>1. IsFiniteSet(R \union {r})
  BY FS_AddElement DEF GoodRows
<1>2. QED
  BY <1>1, IdsOf DEF GoodRows

LEMMA FewerRows ==
  ASSUME NEW R, GoodRows(R), NEW T \in SUBSET R
  PROVE  GoodRows(T)
BY FS_Subset DEF GoodRows

LEMMA RewrittenRows ==
  ASSUME NEW R, GoodRows(R), NEW f \in [R -> StoredRow], \A r \in R : f[r].id = r.id
  PROVE  GoodRows({f[r] : r \in R}) /\ Ids({f[r] : r \in R}) = Ids(R)
<1> DEFINE T == {f[r] : r \in R}
<1>1. IsFiniteSet(R) /\ R \subseteq StoredRow /\ \A r, s \in R : r.id = s.id => r = s
  BY DEF GoodRows
<1>2. f \in Surjection(R, T)
  BY DEF Surjection
<1>3. IsFiniteSet(T)
  BY <1>1, <1>2, FS_Surjection
<1>4. T \subseteq StoredRow /\ \A r, s \in T : r.id = s.id => r = s
  BY <1>1
<1>5. Ids(T) = Ids(R)
  BY DEF Ids
<1>6. QED
  BY <1>3, <1>4, <1>5 DEF GoodRows

LEMMA NextPositionIsANumber ==
  ASSUME NEW R, GoodRows(R)
  PROVE  NextPosition(R) \in Nat
<1> DEFINE f == [r \in R |-> r.pos]
           P == {r.pos : r \in R}
<1>1. IsFiniteSet(R) /\ \A r \in R : r.pos \in Nat
  BY DEF GoodRows, StoredRow
<1>2. f \in Surjection(R, P) /\ P \in SUBSET Nat
  BY <1>1 DEF Surjection
<1>3. IsFiniteSet(P)
  BY <1>1, <1>2, FS_Surjection
<1>4. R # {} => Max(P) \in Nat
  BY <1>2, <1>3, LargestNumber
<1>5. NextPosition(R) = IF R = {} THEN 0 ELSE Max(P) + 1
  BY DEF NextPosition
<1>6. QED
  BY <1>4, <1>5

-----------------------------------------------------------------------------
(* What a step leaves of the requests, the rows and the lists, whatever step it is. *)
SameChange(v, w) ==
  /\ v.n = w.n /\ v.verb = w.verb /\ v.list = w.list /\ v.row = w.row /\ v.words = w.words
  /\ v.mine => w.mine
  /\ v.stage = "sent" => w.stage = "sent"

NewChange(v) ==
  /\ v.n = sent + 1 /\ v.stage = "sent"
  /\ \/ v.verb = "post"
     \/ v.row = 0
     \/ v.row \in Ids(store[v.list])
     \/ \E i \in DOMAIN view[v.list] : view[v.list][i].id = v.row
  /\ v.mine => Usable
  /\ v.verb = "put" => \/ v.words = sent + 1
                       \/ Usable /\ \E i \in DOMAIN view[v.list] : view[v.list][i].words = v.words

ChangesStep ==
  /\ \A v \in Changes' :
       \/ \E w \in Changes : SameChange(v, w)
       \/ sent' = sent + 1 /\ NewChange(v)
  /\ \A v, w \in Changes' : v.n = w.n => v = w

LoadsStep == \A q \in Served' : q \in Served \/ q.rows = store

StoredKept(l, r) ==
  \E s \in store[l] :
    /\ r.id = s.id
    /\ r.words = s.words \/ \E w \in Changes : w.list = l /\ w.words = r.words
    /\ r.chosen => s.chosen \/ \E w \in Changes : w.list = l /\ w.verb = "choose"
StoredNew(l, r) ==
  \E w \in Adding :
    /\ r.id = w.n /\ ~r.chosen
    /\ \/ w.verb = "post" /\ w.list = l
       \/ w.verb = "accept" /\ page.lists[w.list].joins = l
    /\ \A v \in Changes' : v.n = w.n => v.stage # "sent"
StoreStep == \A l \in Lists : \A r \in store'[l] : StoredKept(l, r) \/ StoredNew(l, r)

KeptRow(l, x) ==
  /\ \E i \in DOMAIN view[l] :
       /\ x.id = view[l][i].id
       /\ \/ x.words = view[l][i].words
          \/ \E w \in Changes \union Changes' : w.list = l /\ w.words = x.words
          \/ page.lists[l].filled /\ x.words = 0
       /\ x.chosen => view[l][i].chosen \/ "choose" \in page.lists[l].api
  /\ page.lists[l].via \in got' => page.lists[l].via \in got
LoadedRow(l, x) == \E q \in Served : \E r \in q.rows[l] : x = Seen(r)
AddedRow(l, x) ==
  \E w \in Changes : w.verb = "post" /\ w.list = l /\ w.stage = "done" /\ x.id = w.n /\ ~x.chosen
BlankRow(l, x) == x = Row(1, 0) /\ page.lists[l].blank /\ page.lists[l].via \notin got'

RowStep(l, x) == KeptRow(l, x) \/ LoadedRow(l, x) \/ AddedRow(l, x) \/ BlankRow(l, x)
ViewStep == \A l \in Lists : \A k \in DOMAIN view'[l] : RowStep(l, view'[l][k])

Steps == page' = page /\ sent' >= sent /\ ChangesStep /\ LoadsStep /\ StoreStep /\ ViewStep

LEMMA ChangeFields ==
  ASSUME NEW w \in requests, Shape, w.verb # "get"
  PROVE  ChangeOK(w)
BY DEF Shape, RequestOK

LEMMA RequestFields ==
  ASSUME NEW l, NEW verb, NEW row, NEW words, NEW w, w = Request(verb, l, row, words)
  PROVE  /\ w.n = sent + 1 /\ w.verb = verb /\ w.list = l /\ w.row = row /\ w.words = words
         /\ w.stage = "sent" /\ w.mine /\ w.inHand
BY DEF Request

LEMMA RequestIsOK ==
  ASSUME Shape, page' = page, sent' = sent + 1, NEW l \in Lists, NEW verb \in Verbs(l),
         NEW row \in 0..(sent + 1), NEW words \in Nat, verb = "post" => row = sent + 1,
         NEW w, w = Request(verb, l, row, words)
  PROVE  ChangeOK(w)'
<1>1. /\ w = [n |-> sent + 1, verb |-> verb, list |-> l, row |-> row, words |-> words, ids |-> <<>>,
              seen |-> {}, stage |-> "sent", mine |-> TRUE, inHand |-> TRUE]
  BY DEF Request
<1>2. sent + 1 \in 3..sent' /\ row \in 0..sent' /\ l \in Lists' /\ verb \in Verbs(l)'
  BY DEF Shape, Lists, Verbs
<1>3. <<>> \in Seq(Nat) /\ {} \in SUBSET Nat
  OBVIOUS
<1>4. QED
  BY <1>1, <1>2, <1>3 DEF ChangeOK

LEMMA StillOK ==
  ASSUME Shape, page' = page, sent' \in Nat, sent' >= sent
  PROVE  \A q \in requests : RequestOK(q)'
<1> TAKE q \in requests
<1>1. RequestOK(q)
  BY DEF Shape
<1>2. CASE q.verb = "get"
  BY <1>1, <1>2 DEF RequestOK, LoadOK, GoodStore, Lists
<1>3. CASE q.verb # "get"
  <2>1. ChangeOK(q) /\ 3..sent \subseteq 3..sent' /\ 0..sent \subseteq 0..sent' /\ Lists' = Lists
    BY <1>1, <1>3 DEF RequestOK, Shape, Lists
  <2>2. ChangeOK(q)'
    BY <2>1 DEF ChangeOK, Verbs
  <2>3. QED
    BY <1>3, <2>2 DEF RequestOK
<1>4. QED
  BY <1>2, <1>3

LEMMA Sending ==
  ASSUME Shape, Numbered, page' = page, sent' = sent + 1, store' = store, NEW w, requests' = requests \union {w},
         ChangeOK(w)', w.verb # "get", NewChange(w)
  PROVE  /\ ChangesStep /\ LoadsStep /\ StoreStep
         /\ \A q \in requests' : RequestOK(q)'
<1>1. Changes' = Changes \union {w} /\ Served' = Served
  BY DEF Changes, Pending, Served
<1>2. \A v \in Changes : v.n <= sent
  BY ChangeFields DEF Changes, ChangeOK, Shape
<1>3. ChangesStep
  BY <1>1, <1>2 DEF ChangesStep, NewChange, SameChange, Numbered, Shape
<1>4. LoadsStep /\ StoreStep
  BY <1>1 DEF LoadsStep, StoreStep, StoredKept
<1>5. \A q \in requests : RequestOK(q)'
  BY StillOK DEF Shape
<1>6. RequestOK(w)'
  BY DEF RequestOK
<1>7. QED
  BY <1>3, <1>4, <1>5, <1>6

LEMMA ShapeKept ==
  ASSUME Shape, page' = page, open' \in BOOLEAN, sent' \in Nat, sent' >= sent, got' \subseteq page.gets,
         failed' \subseteq page.gets, GoodStore(store'), view' \in [Lists -> Seq(ShownRow)],
         \A q \in requests' : RequestOK(q)'
  PROVE  Shape'
BY DEF Shape, GoodStore, Lists

LEMMA ViewKept ==
  ASSUME view' = view, got' = got
  PROVE  ViewStep
BY DEF ViewStep, RowStep, KeptRow

LEMMA OneListChanged ==
  ASSUME Shape, got' = got, NEW l \in Lists, NEW t \in Seq(ShownRow), view' = [view EXCEPT ![l] = t],
         \A k \in DOMAIN t : RowStep(l, t[k])
  PROVE  view' \in [Lists -> Seq(ShownRow)] /\ ViewStep
<1>1. view \in [Lists -> Seq(ShownRow)]
  BY DEF Shape
<1>2. /\ view' \in [Lists -> Seq(ShownRow)] /\ view'[l] = t
      /\ \A m \in Lists : m # l => view'[m] = view[m]
  BY <1>1
<1>3. ASSUME NEW m \in Lists, NEW k \in DOMAIN view'[m] PROVE RowStep(m, view'[m][k])
  <2>1. CASE m = l
    BY <1>2, <2>1
  <2>2. CASE m # l
    BY <1>2, <2>2 DEF RowStep, KeptRow
  <2>3. QED
    BY <2>1, <2>2
<1>4. QED
  BY <1>2, <1>3 DEF ViewStep

LEMMA ShownFields ==
  ASSUME Shape, NEW l \in Lists
  PROVE  /\ view[l] \in Seq(ShownRow) /\ DOMAIN view[l] = 1..Len(view[l]) /\ Len(view[l]) \in Nat
         /\ \A i \in DOMAIN view[l] : view[l][i] \in ShownRow /\ view[l][i].id \in Nat /\ view[l][i].words \in Nat
         /\ store[l] \subseteq StoredRow /\ GoodRows(store[l])
         /\ \A r \in store[l] : r.id \in Nat /\ r.words \in Nat
<1>1. view[l] \in Seq(ShownRow) /\ store[l] \subseteq StoredRow /\ GoodRows(store[l])
  BY DEF Shape, GoodStore
<1>2. DOMAIN view[l] = 1..Len(view[l]) /\ Len(view[l]) \in Nat /\ \A i \in DOMAIN view[l] : view[l][i] \in ShownRow
  BY <1>1
<1>3. (\A x \in ShownRow : x.id \in Nat /\ x.words \in Nat) /\ (\A r \in StoredRow : r.id \in Nat /\ r.words \in Nat)
  BY DEF ShownRow, StoredRow
<1>4. QED
  BY <1>1, <1>2, <1>3

(* The actions that send a request. *)
LEMMA AddSteps ==
  ASSUME Sound, NEW l \in Lists, Add(l)
  PROVE  Shape' /\ Steps
<1>w. PICK w : w = Request("post", l, sent + 1, sent + 1)
  OBVIOUS
<1>1. /\ Shape /\ Numbered /\ page' = page /\ sent' = sent + 1 /\ store' = store /\ requests' = requests \union {w}
      /\ open' = open /\ got' = got /\ failed' = failed /\ view' = view /\ Usable /\ "post" \in Verbs(l)
      /\ sent \in Nat
  BY <1>w DEF Add, SendChange, Can, Verbs, Sound, Shape
<1>2. /\ ChangeOK(w)' /\ w.n = sent + 1 /\ w.verb = "post" /\ w.stage = "sent"
  <2>1. sent + 1 \in 0..(sent + 1) /\ sent + 1 \in Nat
    BY <1>1
  <2>2. QED
    BY <1>w, <1>1, <2>1, RequestFields, RequestIsOK
<1>3. NewChange(w)
  BY <1>1, <1>2 DEF NewChange
<1>4. ChangesStep /\ LoadsStep /\ StoreStep /\ \A q \in requests' : RequestOK(q)'
  BY <1>1, <1>2, <1>3, Sending
<1>5. Shape'
  BY <1>1, <1>4, ShapeKept DEF Shape
<1>6. QED
  BY <1>1, <1>4, <1>5, ViewKept DEF Steps

LEMMA EditedRow ==
  ASSUME NEW s \in Seq(ShownRow), NEW i \in DOMAIN s, NEW words \in Nat,
         NEW t, t = [s EXCEPT ![i].words = words]
  PROVE  /\ t \in Seq(ShownRow) /\ DOMAIN t = DOMAIN s
         /\ \A k \in DOMAIN s : /\ t[k].id = s[k].id /\ t[k].chosen = s[k].chosen
                                /\ t[k].words = IF k = i THEN words ELSE s[k].words
<1> DEFINE x == [s[i] EXCEPT !.words = words]
<1>1. s[i] \in ShownRow
  OBVIOUS
<1>2. x \in ShownRow /\ x.id = s[i].id /\ x.chosen = s[i].chosen /\ x.words = words
  BY <1>1 DEF ShownRow
<1>3. t = [s EXCEPT ![i] = x]
  OBVIOUS
<1> HIDE DEF x
<1>4. t \in Seq(ShownRow) /\ DOMAIN t = DOMAIN s /\ \A k \in DOMAIN s : t[k] = IF k = i THEN x ELSE s[k]
  BY <1>2, <1>3
<1>5. QED
  BY <1>2, <1>4

LEMMA EditSteps ==
  ASSUME Sound, NEW l \in Lists, Edit(l)
  PROVE  Shape' /\ Steps
<1>1. /\ Shape /\ Numbered /\ Usable /\ "put" \in Verbs(l) /\ sent \in Nat
  BY DEF Edit, Can, Verbs, Sound, Shape
<1>2. PICK i \in DOMAIN view[l] : \E words \in {view[l][i].words, sent + 1} :
        /\ SendChange(Request("put", l, view[l][i].id, words))
        /\ view' = IF page.lists[l].shows = "at once"
                   THEN [view EXCEPT ![l][i].words = words] ELSE view
  BY DEF Edit
<1>3. PICK words \in {view[l][i].words, sent + 1} :
        /\ SendChange(Request("put", l, view[l][i].id, words))
        /\ view' = IF page.lists[l].shows = "at once"
                   THEN [view EXCEPT ![l][i].words = words] ELSE view
  BY <1>2
<1>w. PICK w : w = Request("put", l, view[l][i].id, words)
  OBVIOUS
<1>4. /\ page' = page /\ sent' = sent + 1 /\ store' = store /\ requests' = requests \union {w}
      /\ open' = open /\ got' = got /\ failed' = failed
  BY <1>3, <1>w DEF SendChange
<1>5. view[l][i].id \in 0..(sent + 1) /\ words \in Nat
  BY <1>1, ShownFields DEF Numbered
<1>6. /\ ChangeOK(w)' /\ w.n = sent + 1 /\ w.verb = "put" /\ w.stage = "sent" /\ w.list = l
      /\ w.row = view[l][i].id /\ w.words = words
  BY <1>w, <1>1, <1>4, <1>5, RequestFields, RequestIsOK
<1>7. NewChange(w)
  BY <1>1, <1>6 DEF NewChange
<1>8. ChangesStep /\ LoadsStep /\ StoreStep /\ \A q \in requests' : RequestOK(q)'
  BY <1>1, <1>4, <1>6, <1>7, Sending
<1>9. view' \in [Lists -> Seq(ShownRow)] /\ ViewStep
  <2>1. CASE view' = view
    BY <1>1, <1>4, <2>1, ViewKept DEF Shape
  <2>2. CASE view' = [view EXCEPT ![l][i].words = words]
    <3>1. PICK t : t = [view[l] EXCEPT ![i].words = words]
      OBVIOUS
    <3>2. view' = [view EXCEPT ![l] = t]
      BY <2>2, <3>1
    <3>3. /\ t \in Seq(ShownRow) /\ DOMAIN t = DOMAIN view[l]
          /\ \A k \in DOMAIN t : /\ t[k].id = view[l][k].id /\ t[k].chosen = view[l][k].chosen
                                 /\ t[k].words = view[l][k].words \/ t[k].words = w.words
      <4>1. PICK s \in Seq(ShownRow) : s = view[l] /\ i \in DOMAIN s
        BY <1>1, ShownFields
      <4>2. t = [s EXCEPT ![i].words = words]
        BY <3>1, <4>1
      <4>3. /\ t \in Seq(ShownRow) /\ DOMAIN t = DOMAIN s
            /\ \A k \in DOMAIN s : /\ t[k].id = s[k].id /\ t[k].chosen = s[k].chosen
                                   /\ t[k].words = IF k = i THEN words ELSE s[k].words
        BY <1>5, <4>1, <4>2, EditedRow
      <4>4. QED
        BY <1>6, <4>1, <4>3
    <3>4. w \in Changes'
      BY <1>4, <1>6 DEF Changes
    <3>5. \A k \in DOMAIN t : RowStep(l, t[k])
      BY <1>4, <1>6, <3>3, <3>4 DEF RowStep, KeptRow
    <3>6. QED
      BY <1>1, <1>4, <3>2, <3>3, <3>5, OneListChanged
  <2>3. QED
    BY <1>3, <2>1, <2>2
<1>10. Shape'
  BY <1>1, <1>4, <1>8, <1>9, ShapeKept DEF Shape
<1>11. QED
  BY <1>1, <1>4, <1>8, <1>9, <1>10 DEF Steps

(* A note that is left empty: one row of one list, and no request.                     *)
LEMMA Emptied ==
  ASSUME Shape, NEW l \in Lists, LeaveEmpty(l)
  PROVE  /\ Usable /\ page.lists[l].filled
         /\ page' = page /\ open' = open /\ got' = got /\ failed' = failed /\ store' = store
         /\ requests' = requests /\ sent' = sent /\ opens' = opens /\ others' = others
         /\ failures' = failures /\ history' = history
         /\ \E t \in Seq(ShownRow) :
              /\ view' = [view EXCEPT ![l] = t] /\ DOMAIN t = DOMAIN view[l]
              /\ \A k \in DOMAIN t : /\ t[k].id = view[l][k].id /\ t[k].chosen = view[l][k].chosen
                                     /\ t[k].words = view[l][k].words \/ t[k].words = 0
<1>1. /\ Usable /\ page.lists[l].filled
      /\ page' = page /\ open' = open /\ got' = got /\ failed' = failed /\ store' = store
      /\ requests' = requests /\ sent' = sent /\ opens' = opens /\ others' = others
      /\ failures' = failures /\ history' = history
  BY DEF LeaveEmpty, Can, counters
<1>2. PICK i \in DOMAIN view[l] : view' = [view EXCEPT ![l][i].words = 0]
  BY DEF LeaveEmpty
<1>3. PICK s \in Seq(ShownRow) : s = view[l] /\ i \in DOMAIN s
  BY ShownFields
<1>4. PICK blank \in Nat : blank = 0
  OBVIOUS
<1>5. PICK t : t = [s EXCEPT ![i].words = blank]
  OBVIOUS
<1>6. view' = [view EXCEPT ![l] = t]
  BY <1>2, <1>3, <1>4, <1>5
<1>7. /\ t \in Seq(ShownRow) /\ DOMAIN t = DOMAIN s
      /\ \A k \in DOMAIN s : /\ t[k].id = s[k].id /\ t[k].chosen = s[k].chosen
                             /\ t[k].words = IF k = i THEN blank ELSE s[k].words
  BY <1>3, <1>5, EditedRow
<1>8. QED
  BY <1>1, <1>3, <1>4, <1>6, <1>7

LEMMA LeaveEmptySteps ==
  ASSUME Sound, NEW l \in Lists, LeaveEmpty(l)
  PROVE  Shape' /\ Steps
<1>1. /\ Shape /\ Numbered /\ sent \in Nat /\ page.lists[l].filled
      /\ page' = page /\ open' = open /\ got' = got /\ failed' = failed /\ store' = store
      /\ requests' = requests /\ sent' = sent
  BY Emptied DEF Sound, Shape
<1>2. PICK t \in Seq(ShownRow) :
        /\ view' = [view EXCEPT ![l] = t] /\ DOMAIN t = DOMAIN view[l]
        /\ \A k \in DOMAIN t : /\ t[k].id = view[l][k].id /\ t[k].chosen = view[l][k].chosen
                               /\ t[k].words = view[l][k].words \/ t[k].words = 0
  BY <1>1, Emptied
<1>3. ChangesStep /\ LoadsStep /\ StoreStep
  BY <1>1 DEF ChangesStep, SameChange, LoadsStep, StoreStep, StoredKept, Changes, Served, Pending, Numbered
<1>4. \A k \in DOMAIN t : RowStep(l, t[k])
  BY <1>1, <1>2 DEF RowStep, KeptRow
<1>5. view' \in [Lists -> Seq(ShownRow)] /\ ViewStep
  BY <1>1, <1>2, <1>4, OneListChanged
<1>6. \A q \in requests' : RequestOK(q)'
  BY <1>1, StillOK
<1>7. Shape'
  BY <1>1, <1>5, <1>6, ShapeKept DEF Shape
<1>8. QED
  BY <1>1, <1>3, <1>5, <1>7 DEF Steps

LEMMA RemoveRowSteps ==
  ASSUME Sound, NEW l \in Lists, RemoveRow(l)
  PROVE  Shape' /\ Steps
<1>1. /\ Shape /\ Numbered /\ Usable /\ "delete" \in Verbs(l) /\ sent \in Nat
      /\ view \in [Lists -> Seq(ShownRow)]
  BY DEF RemoveRow, Can, Verbs, Sound, Shape
<1>2. PICK i \in DOMAIN view[l] :
       /\ \E verb \in {"delete"} \union IF page.lists[l].joins = 0 THEN {} ELSE {"accept"} :
            SendChange(Request(verb, l, view[l][i].id, 0))
       /\ view' = IF page.lists[l].shows = "at once"
                  THEN [view EXCEPT ![l] = RemoveAt(@, i)] ELSE view
  BY DEF RemoveRow
<1>3. PICK verb \in {"delete"} \union IF page.lists[l].joins = 0 THEN {} ELSE {"accept"} :
            SendChange(Request(verb, l, view[l][i].id, 0))
  BY <1>2
<1>w. PICK w : w = Request(verb, l, view[l][i].id, 0)
  OBVIOUS
<1>4. /\ page' = page /\ sent' = sent + 1 /\ store' = store /\ requests' = requests \union {w}
      /\ open' = open /\ got' = got /\ failed' = failed
  BY <1>3, <1>w DEF SendChange
<1>5. view[l][i].id \in 0..(sent + 1) /\ verb \in Verbs(l) /\ verb \in {"delete", "accept"}
  BY <1>1, ShownFields DEF Numbered, Verbs
<1>6. /\ ChangeOK(w)' /\ w.n = sent + 1 /\ w.verb = verb /\ w.stage = "sent" /\ w.list = l
      /\ w.row = view[l][i].id
  BY <1>w, <1>1, <1>4, <1>5, RequestFields, RequestIsOK
<1>7. NewChange(w)
  BY <1>1, <1>5, <1>6 DEF NewChange
<1>8. ChangesStep /\ LoadsStep /\ StoreStep /\ \A q \in requests' : RequestOK(q)'
  BY <1>1, <1>4, <1>5, <1>6, <1>7, Sending
<1>9. view' \in [Lists -> Seq(ShownRow)] /\ ViewStep
  <2>1. CASE view' = view
    BY <1>1, <1>4, <2>1, ViewKept
  <2>2. CASE view' = [view EXCEPT ![l] = RemoveAt(@, i)]
    <3>1. PICK t : t = RemoveAt(view[l], i)
      OBVIOUS
    <3>2. view' = [view EXCEPT ![l] = t]
      BY <2>2, <3>1
    <3>3. /\ t \in Seq(ShownRow) /\ Len(t) = Len(view[l]) - 1
          /\ \A k \in 1..(Len(view[l]) - 1) : t[k] = IF k < i THEN view[l][k] ELSE view[l][k + 1]
      BY <1>1, <3>1, ShownFields, Removed
    <3>4. \A k \in DOMAIN t : \E j \in DOMAIN view[l] : t[k] = view[l][j]
      <4>1. DOMAIN t = 1..(Len(view[l]) - 1) /\ DOMAIN view[l] = 1..Len(view[l]) /\ Len(view[l]) \in Nat
        BY <1>1, <3>3, ShownFields
      <4>2. \A k \in DOMAIN t : k \in DOMAIN view[l] /\ k + 1 \in DOMAIN view[l]
        BY <4>1
      <4>3. QED
        BY <3>3, <4>1, <4>2
    <3>5. \A k \in DOMAIN t : RowStep(l, t[k])
      BY <1>4, <3>4 DEF RowStep, KeptRow
    <3>6. QED
      BY <1>1, <1>4, <3>2, <3>3, <3>5, OneListChanged
  <2>3. QED
    BY <1>2, <2>1, <2>2
<1>10. Shape'
  BY <1>1, <1>4, <1>8, <1>9, ShapeKept DEF Shape
<1>11. QED
  BY <1>1, <1>4, <1>8, <1>9, <1>10 DEF Steps

LEMMA ChosenRow ==
  ASSUME NEW s \in Seq(ShownRow), NEW id
  PROVE  /\ Choosing(s, id) \in Seq(ShownRow) /\ DOMAIN Choosing(s, id) = DOMAIN s
         /\ \A k \in DOMAIN s : /\ Choosing(s, id)[k].id = s[k].id /\ Choosing(s, id)[k].words = s[k].words
                                /\ Choosing(s, id)[k].chosen <=> s[k].id = id
<1> DEFINE new(k) == [s[k] EXCEPT !.chosen = s[k].id = id]
<1>1. ASSUME NEW k \in DOMAIN s
      PROVE  /\ new(k) \in ShownRow /\ new(k).id = s[k].id /\ new(k).words = s[k].words
             /\ new(k).chosen <=> s[k].id = id
  <2>1. s[k] \in ShownRow
    OBVIOUS
  <2>2. \A b \in BOOLEAN : /\ [s[k] EXCEPT !.chosen = b] \in ShownRow
                           /\ [s[k] EXCEPT !.chosen = b].id = s[k].id
                           /\ [s[k] EXCEPT !.chosen = b].words = s[k].words
                           /\ [s[k] EXCEPT !.chosen = b].chosen = b
    BY <2>1 DEF ShownRow
  <2>3. (s[k].id = id) \in BOOLEAN
    OBVIOUS
  <2>4. QED
    BY <2>2, <2>3
<1>2. Choosing(s, id) = [k \in DOMAIN s |-> new(k)]
  BY DEF Choosing
<1> HIDE DEF new
<1>3. DOMAIN s = 1..Len(s) /\ Len(s) \in Nat
  OBVIOUS
<1>4. /\ Choosing(s, id) \in Seq(ShownRow) /\ DOMAIN Choosing(s, id) = DOMAIN s
      /\ \A k \in DOMAIN s : Choosing(s, id)[k] = new(k)
  BY <1>1, <1>2, <1>3
<1>5. QED
  BY <1>1, <1>4

LEMMA ChooseSteps ==
  ASSUME Sound, NEW l \in Lists, Choose(l)
  PROVE  Shape' /\ Steps
<1>1. /\ Shape /\ Numbered /\ Usable /\ "choose" \in Verbs(l) /\ sent \in Nat
      /\ view \in [Lists -> Seq(ShownRow)] /\ "choose" \in page.lists[l].api
  BY DEF Choose, Can, Verbs, Sound, Shape
<1>2. PICK i \in DOMAIN view[l] :
       /\ SendChange(Request("choose", l, view[l][i].id, 0))
       /\ view' = [view EXCEPT ![l] = Choosing(@, view[l][i].id)]
  BY DEF Choose
<1>w. PICK w : w = Request("choose", l, view[l][i].id, 0)
  OBVIOUS
<1>4. /\ page' = page /\ sent' = sent + 1 /\ store' = store /\ requests' = requests \union {w}
      /\ open' = open /\ got' = got /\ failed' = failed
  BY <1>2, <1>w DEF SendChange
<1>5. view[l][i].id \in 0..(sent + 1)
  BY <1>1, ShownFields DEF Numbered
<1>6. /\ ChangeOK(w)' /\ w.n = sent + 1 /\ w.verb = "choose" /\ w.stage = "sent" /\ w.list = l
      /\ w.row = view[l][i].id
  BY <1>w, <1>1, <1>4, <1>5, RequestFields, RequestIsOK
<1>7. NewChange(w)
  BY <1>1, <1>5, <1>6 DEF NewChange
<1>8. ChangesStep /\ LoadsStep /\ StoreStep /\ \A q \in requests' : RequestOK(q)'
  BY <1>1, <1>4, <1>5, <1>6, <1>7, Sending
<1>9. view' \in [Lists -> Seq(ShownRow)] /\ ViewStep
  <2>1. PICK t : t = Choosing(view[l], view[l][i].id)
    OBVIOUS
  <2>2. /\ t \in Seq(ShownRow) /\ DOMAIN t = DOMAIN view[l]
        /\ \A k \in DOMAIN t : t[k].id = view[l][k].id /\ t[k].words = view[l][k].words
    BY <1>1, <2>1, ShownFields, ChosenRow
  <2>3. view' = [view EXCEPT ![l] = t]
    BY <1>2, <2>1
  <2>4. \A k \in DOMAIN t : RowStep(l, t[k])
    BY <1>1, <1>4, <2>2 DEF RowStep, KeptRow
  <2>5. QED
    BY <1>1, <1>4, <2>2, <2>3, <2>4, OneListChanged
<1>10. Shape'
  BY <1>1, <1>4, <1>8, <1>9, ShapeKept DEF Shape
<1>11. QED
  BY <1>1, <1>4, <1>8, <1>9, <1>10 DEF Steps

SameRequest(w, v) ==
  /\ w.n = v.n /\ w.verb = v.verb /\ w.list = v.list /\ w.row = v.row /\ w.words = v.words

LEMMA NotMine ==
  ASSUME NEW v, ChangeOK(v), NEW w, w = [v EXCEPT !.mine = FALSE]
  PROVE  ChangeOK(w) /\ SameRequest(w, v) /\ w.stage = v.stage /\ w.seen = v.seen /\ ~w.mine
BY DEF ChangeOK, SameRequest

LEMMA OutOfHand ==
  ASSUME NEW v, ChangeOK(v), NEW w, w = [v EXCEPT !.inHand = FALSE]
  PROVE  ChangeOK(w) /\ SameRequest(w, v) /\ w.stage = v.stage /\ w.seen = v.seen /\ (w.mine <=> v.mine)
BY DEF ChangeOK, SameRequest

LEMMA Staged ==
  ASSUME NEW v, ChangeOK(v), NEW s, NEW w, w = [v EXCEPT !.stage = s]
  PROVE  ChangeOK(w) /\ SameRequest(w, v) /\ w.stage = s /\ w.seen = v.seen /\ (w.mine <=> v.mine)
BY DEF ChangeOK, SameRequest

LEMMA ReorderSteps ==
  ASSUME Sound, NEW l \in Lists, Reorder(l)
  PROVE  Shape' /\ Steps
<1>1. /\ Shape /\ Numbered /\ Usable /\ "reorder" \in Verbs(l) /\ sent \in Nat
  BY DEF Reorder, Can, Verbs, Sound, Shape
<1> DEFINE Moved(i, j) == InsertAt(RemoveAt(view[l], i), j, view[l][i])
<1>2. PICK i \in DOMAIN view[l], j \in DOMAIN view[l] :
       /\ SendChange([Request("reorder", l, 0, 0) EXCEPT !.ids = [k \in DOMAIN Moved(i, j) |-> Moved(i, j)[k].id]])
       /\ view' = [view EXCEPT ![l] = Moved(i, j)]
  BY DEF Reorder
<1>3. PICK t : t = Moved(i, j)
  OBVIOUS
<1>4. /\ t \in Seq(ShownRow)
      /\ \A k \in DOMAIN t : \E m \in DOMAIN view[l] : t[k] = view[l][m]
  <2>1. view[l] \in Seq(ShownRow)
    BY <1>1, ShownFields
  <2>2. t = InsertAt(RemoveAt(view[l], i), j, view[l][i])
    BY <1>3
  <2>3. QED
    BY <2>1, <2>2, MovedElement
<1>5. PICK w0 : w0 = Request("reorder", l, 0, 0)
  OBVIOUS
<1>6. PICK s : s = [k \in DOMAIN t |-> t[k].id]
  OBVIOUS
<1>7. s \in Seq(Nat)
  <2>1. DOMAIN t = 1..Len(t) /\ Len(t) \in Nat /\ \A k \in DOMAIN t : t[k] \in ShownRow
    BY <1>4
  <2>2. \A k \in DOMAIN t : t[k].id \in Nat
    BY <2>1 DEF ShownRow
  <2>3. QED
    BY <1>6, <2>1, <2>2
<1>8. PICK w : w = [w0 EXCEPT !.ids = s]
  OBVIOUS
<1>9. /\ page' = page /\ sent' = sent + 1 /\ store' = store /\ requests' = requests \union {w}
      /\ open' = open /\ got' = got /\ failed' = failed
  BY <1>2, <1>3, <1>5, <1>6, <1>8 DEF SendChange
<1>10. /\ ChangeOK(w0)' /\ w0.n = sent + 1 /\ w0.verb = "reorder" /\ w0.stage = "sent" /\ w0.list = l
       /\ w0.row = 0
  <2>1. 0 \in 0..(sent + 1) /\ 0 \in Nat
    BY <1>1
  <2>2. QED
    BY <1>1, <1>5, <1>9, <2>1, RequestFields, RequestIsOK
<1>11. /\ ChangeOK(w)' /\ w.n = sent + 1 /\ w.verb = "reorder" /\ w.stage = "sent" /\ w.list = l
       /\ w.row = 0
  <2>1. ChangeOK(w)'
    BY <1>7, <1>8, <1>10 DEF ChangeOK
  <2>2. SameRequest(w, w0) /\ w.stage = w0.stage
    BY <1>7, <1>8, <1>5 DEF SameRequest, Request
  <2>3. QED
    BY <1>10, <2>1, <2>2 DEF SameRequest
<1>12. NewChange(w)
  BY <1>1, <1>11 DEF NewChange
<1>13. ChangesStep /\ LoadsStep /\ StoreStep /\ \A q \in requests' : RequestOK(q)'
  BY <1>1, <1>9, <1>11, <1>12, Sending
<1>14. view' \in [Lists -> Seq(ShownRow)] /\ ViewStep
  <2>1. \A k \in DOMAIN t : RowStep(l, t[k])
    BY <1>4, <1>9 DEF RowStep, KeptRow
  <2>2. QED
    BY <1>1, <1>2, <1>3, <1>4, <1>9, <2>1, OneListChanged
<1>15. Shape'
  BY <1>1, <1>9, <1>13, <1>14, ShapeKept DEF Shape
<1>16. QED
  BY <1>1, <1>9, <1>13, <1>14, <1>15 DEF Steps

LEMMA OtherSteps ==
  ASSUME Sound, NEW l \in Lists, Other(l)
  PROVE  Shape' /\ Steps
<1>1. /\ Shape /\ Numbered /\ sent \in Nat
      /\ page' = page /\ sent' = sent + 1 /\ store' = store
      /\ open' = open /\ got' = got /\ failed' = failed /\ view' = view
  BY DEF Other, pageVars, Sound, Shape
<1>2. PICK verb \in page.lists[l].api \ {"reorder"}, r \in store[l] :
       requests' = requests \union
         {[Request(verb, l, IF verb = "post" THEN sent + 1 ELSE r.id, sent + 1) EXCEPT !.mine = FALSE]}
  BY DEF Other
<1>3. PICK row : row = IF verb = "post" THEN sent + 1 ELSE r.id
  OBVIOUS
<1>4. row \in 0..(sent + 1) /\ verb \in Verbs(l) /\ sent + 1 \in Nat
  BY <1>1, <1>3, ShownFields DEF Numbered, Verbs
<1>5. PICK w0 : w0 = Request(verb, l, row, sent + 1)
  OBVIOUS
<1>6. PICK w : w = [w0 EXCEPT !.mine = FALSE]
  OBVIOUS
<1>7. /\ ChangeOK(w0)' /\ w0.n = sent + 1 /\ w0.verb = verb /\ w0.stage = "sent" /\ w0.list = l
      /\ w0.row = row /\ w0.words = sent + 1
  BY <1>1, <1>3, <1>4, <1>5, RequestFields, RequestIsOK
<1>8. /\ ChangeOK(w)' /\ w.n = sent + 1 /\ w.verb = verb /\ w.stage = "sent" /\ w.list = l
      /\ w.row = row /\ w.words = sent + 1 /\ ~w.mine
  <2>1. ChangeOK(w)'
    BY <1>6, <1>7 DEF ChangeOK
  <2>2. SameRequest(w, w0) /\ w.stage = w0.stage /\ ~w.mine
    BY <1>6, <1>5 DEF SameRequest, Request
  <2>3. QED
    BY <1>7, <2>1, <2>2 DEF SameRequest
<1>9. verb # "get"
  <2>1. page.lists[l].api \subseteq {"post", "put", "delete", "choose", "reorder"}
    BY <1>1, PageFacts DEF Shape, Lists, GoodList
  <2>2. QED
    BY <2>1
<1>10. NewChange(w)
  BY <1>1, <1>3, <1>8, IdsOf DEF NewChange
<1>11. requests' = requests \union {w}
  BY <1>2, <1>3, <1>5, <1>6
<1>12. ChangesStep /\ LoadsStep /\ StoreStep /\ \A q \in requests' : RequestOK(q)'
  BY <1>1, <1>8, <1>9, <1>10, <1>11, Sending
<1>13. Shape'
  BY <1>1, <1>12, ShapeKept DEF Shape
<1>14. QED
  BY <1>1, <1>12, <1>13, ViewKept DEF Steps

LEMMA ChangeIsOK ==
  ASSUME Shape, NEW w \in Changes
  PROVE  /\ ChangeOK(w) /\ w \in requests /\ w.list \in Lists /\ w.n \in Nat /\ w.row \in Nat /\ w.words \in Nat
         /\ w.n >= 3 /\ w.n <= sent /\ w.row <= sent /\ w.ids \in Seq(Nat) /\ w.verb \in Verbs(w.list)
         /\ w.verb = "post" => w.row = w.n
  BY ChangeFields DEF Changes, ChangeOK, Shape

LEMMA Serving ==
  ASSUME Shape, Numbered, page' = page, sent' = sent, NEW w \in Changes, NEW v, ChangeOK(v), SameRequest(v, w),
         v.mine <=> w.mine, v.stage # "sent", requests' \subseteq (requests \ {w}) \union {v}
  PROVE  /\ ChangesStep /\ LoadsStep /\ (\A q \in requests' : RequestOK(q)')
         /\ \A u \in Changes' : u.n = w.n => u.stage # "sent"
<1>1. w.verb # "get" /\ v.verb # "get" /\ ChangeOK(w)
  BY ChangeFields DEF Changes, SameRequest
<1>2. Changes' \subseteq (Changes \ {w}) \union {v} /\ Served' \subseteq Served
  BY <1>1 DEF Changes, Pending, Served
<1>3. v.n = w.n
  BY DEF SameRequest
<1>4. \A u \in Changes' : (\E x \in Changes : SameChange(u, x))
  <2>1. SameChange(v, w)
    BY DEF SameChange, SameRequest
  <2>2. \A u \in Changes : SameChange(u, u)
    BY DEF SameChange
  <2>3. QED
    BY <1>2, <2>1, <2>2
<1>5. \A x, u \in Changes' : x.n = u.n => x = u
  BY <1>2, <1>3 DEF Numbered
<1>6. ChangesStep /\ LoadsStep
  BY <1>2, <1>4, <1>5 DEF ChangesStep, LoadsStep
<1>7. \A q \in requests' : RequestOK(q)'
  <2>1. ChangeOK(v)'
    BY DEF ChangeOK, Verbs, Lists
  <2>2. RequestOK(v)'
    BY <1>1, <2>1 DEF RequestOK
  <2>3. \A q \in requests : RequestOK(q)'
    BY StillOK DEF Shape
  <2>4. QED
    BY <2>2, <2>3
<1>8. \A u \in Changes' : u.n = w.n => u.stage # "sent"
  BY <1>2, <1>3 DEF Numbered
<1>9. QED
  BY <1>6, <1>7, <1>8

(* The rows of one list written: what follows for the store.                        *)
LEMMA OneListWritten ==
  ASSUME GoodStore(store), NEW l \in Lists, NEW T, GoodRows(T), store' = [store EXCEPT ![l] = T]
  PROVE  GoodStore(store') /\ store'[l] = T /\ \A m \in Lists : m # l => store'[m] = store[m]
BY DEF GoodStore, GoodRows

LEMMA StoredUnchanged ==
  ASSUME NEW l \in Lists, NEW r \in store[l]
  PROVE  StoredKept(l, r)
BY DEF StoredKept

LEMMA PostWritten ==
  ASSUME Sound, NEW w \in Changes, w.stage = "sent", w.verb = "post", store' = Written(w),
         \A u \in Changes' : u.n = w.n => u.stage # "sent"
  PROVE  GoodStore(store') /\ StoreStep
<1>l. PICK l : l = w.list
  OBVIOUS
<1>1. Shape /\ ChangeOK(w) /\ l \in Lists /\ w \in Adding /\ w.row = w.n /\ GoodStore(store)
  BY <1>l, ChangeIsOK DEF Sound, Adding, Shape
<1>2. PICK r : r = Place(Row(w.row, w.words), NextPosition(store[l]))
  OBVIOUS
<1>3. GoodRows(store[l]) /\ w.n \notin Ids(store[l])
  BY <1>l, <1>1 DEF Sound, Fresh, GoodStore
<1>4. r \in StoredRow /\ r.id = w.n /\ ~r.chosen
  <2>1. NextPosition(store[l]) \in Nat /\ w.row \in Nat /\ w.words \in Nat
    BY <1>l, <1>1, <1>3, NextPositionIsANumber, ChangeIsOK
  <2>2. QED
    BY <1>l, <1>1, <1>2, <2>1, PlacedRow
<1>5. PICK T : T = store[l] \union {r}
  OBVIOUS
<1>6. store' = [store EXCEPT ![l] = T]
  BY <1>l, <1>2, <1>5 DEF Written
<1>7. GoodRows(T)
  BY <1>l, <1>3, <1>4, <1>5, OneRowMore
<1>8. GoodStore(store') /\ store'[l] = T /\ \A m \in Lists : m # l => store'[m] = store[m]
  BY <1>l, <1>1, <1>6, <1>7, OneListWritten
<1>9. StoredNew(l, r)
  <2>1. w \in Adding /\ w.verb = "post" /\ w.list = l
    BY <1>l, <1>1
  <2>2. QED
    BY <1>4, <2>1 DEF StoredNew
<1>10. QED
  BY <1>l, <1>5, <1>8, <1>9, StoredUnchanged DEF StoreStep

(* Rows written over, one by one, in place.                                         *)
LEMMA RowsWritten ==
  ASSUME Shape, NEW l \in Lists, NEW f \in [store[l] -> StoredRow], store' = [store EXCEPT ![l] = {f[r] : r \in store[l]}],
         \A r \in store[l] : f[r].id = r.id /\ StoredKept(l, f[r])
  PROVE  GoodStore(store') /\ StoreStep /\ Ids(store'[l]) = Ids(store[l])
<1>1. PICK T : T = {f[r] : r \in store[l]}
  OBVIOUS
<1>2. GoodRows(store[l]) /\ GoodStore(store)
  BY DEF Shape, GoodStore
<1>3. GoodRows(T) /\ Ids(T) = Ids(store[l])
  BY <1>1, <1>2, RewrittenRows
<1>4. GoodStore(store') /\ store'[l] = T /\ \A m \in Lists : m # l => store'[m] = store[m]
  BY <1>1, <1>2, <1>3, OneListWritten
<1>5. \A r \in T : StoredKept(l, r)
  BY <1>1
<1>6. StoreStep
  BY <1>4, <1>5, StoredUnchanged DEF StoreStep
<1>7. QED
  BY <1>3, <1>4, <1>6

LEMMA PutWritten ==
  ASSUME Sound, NEW w \in Changes, w.stage = "sent", w.verb = "put", store' = Written(w)
  PROVE  GoodStore(store') /\ StoreStep
<1>l. PICK l : l = w.list
  OBVIOUS
<1>1. Shape /\ ChangeOK(w) /\ l \in Lists /\ w.words \in Nat
  BY <1>l, ChangeIsOK DEF Sound
<1>2. PICK f : f = [r \in store[l] |-> IF r.id = w.row THEN [r EXCEPT !.words = w.words] ELSE r]
  OBVIOUS
<1>3. store' = [store EXCEPT ![l] = {f[r] : r \in store[l]}]
  BY <1>l, <1>2 DEF Written
<1>4. ASSUME NEW r \in store[l]
      PROVE  f[r] \in StoredRow /\ f[r].id = r.id /\ f[r].chosen = r.chosen /\ f[r].words \in {r.words, w.words}
  <2>1. r \in StoredRow
    BY <1>l, <1>1, ShownFields
  <2>2. QED
    BY <1>l, <1>1, <1>2, <2>1 DEF StoredRow
<1>5. f \in [store[l] -> StoredRow] /\ \A r \in store[l] : f[r].id = r.id /\ StoredKept(l, f[r])
  BY <1>l, <1>2, <1>4 DEF StoredKept
<1>6. QED
  BY <1>l, <1>1, <1>3, <1>5, RowsWritten

LEMMA ReorderWritten ==
  ASSUME Sound, NEW w \in Changes, w.stage = "sent", w.verb = "reorder", store' = Written(w)
  PROVE  GoodStore(store') /\ StoreStep
<1>l. PICK l : l = w.list
  OBVIOUS
<1> DEFINE At(x) == {i \in 1..Len(w.ids) : w.ids[i] = x}
           Found(x) == IF At(x) # {} THEN Min(At(x)) ELSE 0
<1>1. Shape /\ ChangeOK(w) /\ l \in Lists /\ w.ids \in Seq(Nat)
  BY <1>l, ChangeIsOK DEF Sound
<1>2. PICK f : f = [r \in store[l] |-> IF Contains(w.ids, r.id) THEN [r EXCEPT !.pos = Found(r.id) - 1] ELSE r]
  OBVIOUS
<1>3. store' = [store EXCEPT ![l] = {f[r] : r \in store[l]}]
  BY <1>l, <1>2 DEF Written, SelectInSeq
<1>4. ASSUME NEW r \in store[l]
      PROVE  f[r] \in StoredRow /\ f[r].id = r.id /\ f[r].chosen = r.chosen /\ f[r].words = r.words
  <2>1. r \in StoredRow
    BY <1>l, <1>1, ShownFields
  <2>2. CASE Contains(w.ids, r.id)
    <3>1. PICK I : I = At(r.id)
      OBVIOUS
    <3>2. I # {} /\ Min(I) \in 1..Len(w.ids) /\ Len(w.ids) \in Nat
      BY <1>1, <2>2, <3>1, FoundPlace
    <3>a. PICK m \in Nat : m = Min(I) /\ m >= 1
      BY <3>2
    <3>b. Found(r.id) = m
      BY <3>1, <3>2, <3>a
    <3>c. PICK p \in Nat : p = m - 1
      BY <3>a
    <3>p. p = Found(r.id) - 1
      BY <3>b, <3>c
    <3>3. f[r] = [r EXCEPT !.pos = p]
      BY <1>2, <2>2, <3>p
    <3>4. QED
      BY <1>l, <2>1, <3>3 DEF StoredRow
  <2>3. CASE ~Contains(w.ids, r.id)
    BY <1>l, <1>2, <2>1, <2>3
  <2>4. QED
    BY <1>l, <2>2, <2>3
<1>5. f \in [store[l] -> StoredRow] /\ \A r \in store[l] : f[r].id = r.id /\ StoredKept(l, f[r])
  BY <1>l, <1>2, <1>4 DEF StoredKept
<1>6. QED
  BY <1>l, <1>1, <1>3, <1>5, RowsWritten

LEMMA DeleteWritten ==
  ASSUME Sound, NEW w \in Changes, w.stage = "sent", w.verb = "delete", store' = Written(w)
  PROVE  GoodStore(store') /\ StoreStep /\ w.row \notin Ids(store'[w.list])
<1>l. PICK l : l = w.list
  OBVIOUS
<1>1. Shape /\ ChangeOK(w) /\ l \in Lists /\ GoodStore(store) /\ GoodRows(store[l])
  BY <1>l, ChangeIsOK DEF Sound, Shape, GoodStore
<1>2. PICK T : T = {r \in store[l] : r.id # w.row}
  OBVIOUS
<1>3. store' = [store EXCEPT ![l] = T]
  BY <1>l, <1>2 DEF Written
<1>4. GoodRows(T)
  BY <1>l, <1>1, <1>2, FewerRows
<1>5. GoodStore(store') /\ store'[l] = T /\ \A m \in Lists : m # l => store'[m] = store[m]
  BY <1>l, <1>1, <1>3, <1>4, OneListWritten
<1>6. QED
  BY <1>l, <1>2, <1>5, StoredUnchanged, IdsOf DEF StoreStep

LEMMA AcceptWritten ==
  ASSUME Sound, NEW w \in Changes, w.stage = "sent", w.verb = "accept", store' = Written(w),
         \A u \in Changes' : u.n = w.n => u.stage # "sent"
  PROVE  GoodStore(store') /\ StoreStep
<1>l. PICK l : l = w.list
  OBVIOUS
<1>j. PICK j : j = page.lists[l].joins
  OBVIOUS
<1>1. Shape /\ ChangeOK(w) /\ l \in Lists /\ w \in Adding /\ GoodStore(store) /\ GoodRows(store[l]) /\ w.n \in Nat
  BY <1>l, <1>j, ChangeIsOK DEF Sound, Adding, Shape, GoodStore
<1>2. j \in Lists /\ j # l
  <2>1. /\ page.lists[l].api \subseteq {"post", "put", "delete", "choose", "reorder"}
        /\ j \in {0} \union DOMAIN page.lists /\ (j # 0 => j # l)
    BY <1>l, <1>j, <1>1, PageFacts DEF Shape, Lists, GoodList
  <2>2. QED
    BY <1>l, <1>j, <1>1, <2>1, ChangeIsOK DEF Verbs, Lists
<1>3. CASE w.row \notin Ids(store[l])
  <2>1. store' = store
    BY <1>l, <1>j, <1>3 DEF Written
  <2>2. QED
    BY <1>l, <1>j, <1>1, <2>1, StoredUnchanged DEF StoreStep
<1>4. CASE w.row \in Ids(store[l])
  <2>1. PICK T : T = {r \in store[l] : r.id # w.row}
    OBVIOUS
  <2>2. PICK r : r = Place(Row(w.n, w.n), 0)
    OBVIOUS
  <2>3. r \in StoredRow /\ r.id = w.n /\ ~r.chosen
    BY <1>l, <1>j, <1>1, <2>2, PlacedRow
  <2>4. PICK S : S = [store EXCEPT ![l] = T]
    OBVIOUS
  <2>5. GoodRows(T)
    BY <1>l, <1>j, <1>1, <2>1, FewerRows
  <2>6. GoodStore(S) /\ S[l] = T /\ \A m \in Lists : m # l => S[m] = store[m]
    BY <1>1, <2>4, <2>5 DEF GoodStore, GoodRows
  <2>7. PICK U : U = S[j] \union {r}
    OBVIOUS
  <2>8. store' = [S EXCEPT ![j] = U]
    <3>1. Written(w) = [store EXCEPT ![l] = T, ![j] = @ \union {r}]
      BY <1>l, <1>j, <1>4, <2>1, <2>2 DEF Written
    <3>2. DOMAIN Written(w) = Lists /\ DOMAIN S = Lists
      BY <1>1, <2>4, <3>1 DEF GoodStore
    <3>3. \A m \in Lists : Written(w)[m] = IF m = j THEN U ELSE S[m]
      BY <1>1, <1>2, <2>4, <2>7, <3>1 DEF GoodStore
    <3>4. QED
      BY <1>1, <1>2, <2>4, <3>1, <3>2, <3>3 DEF GoodStore
  <2>9. S[j] \subseteq store[j] /\ GoodRows(S[j]) /\ w.n \notin Ids(S[j])
    <3>1. S[j] \subseteq store[j]
      BY <1>l, <1>j, <1>2, <2>1, <2>6
    <3>2. w.n \notin Ids(store[j])
      BY <1>l, <1>j, <1>1, <1>2 DEF Sound, Fresh
    <3>3. QED
      BY <1>l, <1>j, <1>2, <2>6, <3>1, <3>2, IdsOf DEF GoodStore
  <2>10. GoodRows(U)
    BY <1>l, <1>j, <2>3, <2>7, <2>9, OneRowMore
  <2>11. GoodStore(store') /\ store'[j] = U /\ \A m \in Lists : m # j => store'[m] = S[m]
    BY <1>l, <1>j, <1>2, <2>6, <2>8, <2>10 DEF GoodStore, GoodRows
  <2>12. StoredNew(j, r)
    BY <1>l, <1>j, <1>1, <2>3 DEF StoredNew
  <2>13. \A m \in Lists : S[m] \subseteq store[m]
    BY <1>l, <1>j, <2>1, <2>6
  <2>14. QED
    BY <1>l, <1>j, <1>2, <2>7, <2>11, <2>12, <2>13, StoredUnchanged DEF StoreStep
<1>5. QED
  BY <1>l, <1>j, <1>3, <1>4

LEMMA VerbsOf ==
  ASSUME Shape, NEW w \in Changes
  PROVE  w.verb \in {"post", "put", "delete", "choose", "reorder", "accept"}
<1>1. page.lists[w.list].api \subseteq {"post", "put", "delete", "choose", "reorder"}
  BY ChangeIsOK, PageFacts DEF Shape, Lists, GoodList
<1>2. QED
  BY <1>1, ChangeIsOK DEF Verbs

LEMMA WriteSteps ==
  ASSUME Sound, NEW w \in requests, Write(w)
  PROVE  /\ Shape' /\ Steps
         /\ w.verb = "delete" => w.row \notin Ids(store'[w.list])
<1>1. /\ w.verb \notin {"get", "choose"} /\ w.stage = "sent" /\ store' = Written(w) /\ Serve(w)
      /\ page' = page /\ open' = open /\ got' = got /\ failed' = failed /\ view' = view /\ sent' = sent
      /\ Shape /\ Numbered
  BY DEF Write, pageVars, counters, Sound
<1>2. w \in Changes /\ ChangeOK(w)
  BY <1>1, ChangeIsOK DEF Changes
<1>3. PICK v : v = [w EXCEPT !.stage = "done"]
  OBVIOUS
<1>4. ChangeOK(v) /\ SameRequest(v, w) /\ (v.mine <=> w.mine) /\ v.stage # "sent"
  BY <1>2, <1>3, Staged
<1>5. requests' \subseteq (requests \ {w}) \union {v}
  BY <1>1, <1>3 DEF Serve
<1>6. /\ ChangesStep /\ LoadsStep /\ (\A q \in requests' : RequestOK(q)')
      /\ \A u \in Changes' : u.n = w.n => u.stage # "sent"
  BY <1>1, <1>2, <1>4, <1>5, Serving
<1>7. GoodStore(store') /\ StoreStep /\ (w.verb = "delete" => w.row \notin Ids(store'[w.list]))
  <2>1. w.verb \in {"post", "put", "delete", "reorder", "accept"}
    BY <1>1, <1>2, VerbsOf
  <2>2. CASE w.verb = "post"
    BY <1>1, <1>2, <1>6, <2>2, PostWritten
  <2>3. CASE w.verb = "put"
    BY <1>1, <1>2, <2>3, PutWritten
  <2>4. CASE w.verb = "delete"
    BY <1>1, <1>2, <2>4, DeleteWritten
  <2>5. CASE w.verb = "reorder"
    BY <1>1, <1>2, <2>5, ReorderWritten
  <2>6. CASE w.verb = "accept"
    BY <1>1, <1>2, <1>6, <2>6, AcceptWritten
  <2>7. QED
    BY <2>1, <2>2, <2>3, <2>4, <2>5, <2>6
<1>8. Shape'
  BY <1>1, <1>6, <1>7, ShapeKept DEF Shape
<1>9. QED
  BY <1>1, <1>6, <1>7, <1>8, ViewKept DEF Steps, Shape

LEMMA ServedOnly ==
  ASSUME Sound, NEW w \in Changes, page' = page, open' = open, got' = got, failed' = failed, view' = view, sent' = sent,
         store' = store, NEW v, ChangeOK(v), SameRequest(v, w),
         v.mine <=> w.mine, v.stage # "sent", requests' \subseteq (requests \ {w}) \union {v}
  PROVE  Shape' /\ Steps
<1>1. Shape /\ Numbered
  BY DEF Sound
<1>2. ChangesStep /\ LoadsStep /\ \A q \in requests' : RequestOK(q)'
  BY <1>1, Serving
<1>3. StoreStep
  BY StoredUnchanged DEF StoreStep
<1>4. Shape'
  BY <1>1, <1>2, ShapeKept DEF Shape
<1>5. QED
  BY <1>1, <1>2, <1>3, <1>4, ViewKept DEF Steps, Shape

LEMMA IdsAreNumbers ==
  ASSUME Shape, NEW l \in Lists
  PROVE  Ids(store[l]) \in SUBSET Nat
BY ShownFields DEF Ids

LEMMA ChooseFindSteps ==
  ASSUME Sound, NEW w \in requests, ChooseFind(w)
  PROVE  Shape' /\ Steps
<1>1. /\ w.verb = "choose"
      /\ page' = page /\ open' = open /\ got' = got /\ failed' = failed /\ view' = view /\ sent' = sent
      /\ store' = store /\ Shape
  BY DEF ChooseFind, pageVars, counters, Sound
<1>2. w \in Changes /\ ChangeOK(w) /\ w.list \in Lists
  BY <1>1, ChangeIsOK DEF Changes
<1>3. CASE w.row \in Ids(store[w.list])
  <2>1. PICK z : z = Cleared(w.list)
    OBVIOUS
  <2>2. z \in SUBSET Nat
    BY <1>1, <1>2, <2>1, IdsAreNumbers DEF Cleared
  <2>3. PICK v : v = [w EXCEPT !.stage = "seen", !.seen = z]
    OBVIOUS
  <2>a. PICK s : s = "seen"
    OBVIOUS
  <2>b. v = [w EXCEPT !.stage = s, !.seen = z]
    BY <2>3, <2>a
  <2>c. ChangeOK(v) /\ SameRequest(v, w) /\ v.stage = s /\ (v.mine <=> w.mine)
    BY <1>2, <2>2, <2>b DEF ChangeOK, SameRequest
  <2>4. ChangeOK(v) /\ SameRequest(v, w) /\ (v.mine <=> w.mine) /\ v.stage # "sent"
    BY <2>a, <2>c
  <2>5. requests' \subseteq (requests \ {w}) \union {v}
    BY <1>3, <2>1, <2>3 DEF ChooseFind
  <2>6. QED
    BY <1>1, <1>2, <2>4, <2>5, ServedOnly
<1>4. CASE w.row \notin Ids(store[w.list])
  <2>3. PICK v : v = [w EXCEPT !.stage = "done"]
    OBVIOUS
  <2>4. ChangeOK(v) /\ SameRequest(v, w) /\ (v.mine <=> w.mine) /\ v.stage # "sent"
    BY <1>2, <2>3, Staged
  <2>5. requests' \subseteq (requests \ {w}) \union {v}
    BY <1>4, <2>3 DEF ChooseFind, Serve
  <2>6. QED
    BY <1>1, <1>2, <2>4, <2>5, ServedOnly
<1>5. QED
  BY <1>3, <1>4

LEMMA ChooseLockSteps ==
  ASSUME Sound, NEW w \in requests, ChooseLock(w)
  PROVE  Shape' /\ Steps
<1>1. /\ w.verb = "choose"
      /\ page' = page /\ open' = open /\ got' = got /\ failed' = failed /\ view' = view /\ sent' = sent
      /\ store' = store /\ Shape
  BY DEF ChooseLock, pageVars, counters, Sound
<1>2. w \in Changes /\ ChangeOK(w)
  BY <1>1, ChangeIsOK DEF Changes
<1>3. PICK v : v = [w EXCEPT !.stage = "locked"]
  OBVIOUS
<1>4. ChangeOK(v) /\ SameRequest(v, w) /\ (v.mine <=> w.mine) /\ v.stage # "sent"
  BY <1>2, <1>3, Staged
<1>5. requests' \subseteq (requests \ {w}) \union {v}
  BY <1>3 DEF ChooseLock
<1>6. QED
  BY <1>1, <1>2, <1>4, <1>5, ServedOnly

(* What the commit of a choice leaves of its list.                                  *)
LEMMA CommitRows ==
  ASSUME Sound, NEW w \in Changes, w.verb = "choose",
         store' = [store EXCEPT ![w.list] =
           {[r EXCEPT !.chosen = (r.id = w.row) \/ (r.chosen /\ r.id \notin w.seen)] : r \in @}]
  PROVE  /\ GoodStore(store') /\ StoreStep /\ Ids(store'[w.list]) = Ids(store[w.list])
         /\ \A r \in store'[w.list] : r.chosen => \/ r.id = w.row
                                                  \/ r.id \in Ids(store[w.list]) \ w.seen
<1>l. PICK l : l = w.list
  OBVIOUS
<1>1. Shape /\ l \in Lists
  BY <1>l, ChangeIsOK DEF Sound
<1>2. PICK f : f = [r \in store[l] |-> [r EXCEPT !.chosen = (r.id = w.row) \/ (r.chosen /\ r.id \notin w.seen)]]
  OBVIOUS
<1>3. store' = [store EXCEPT ![l] = {f[r] : r \in store[l]}]
  BY <1>l, <1>2
<1>4. ASSUME NEW r \in store[l]
      PROVE  /\ f[r] \in StoredRow /\ f[r].id = r.id /\ f[r].words = r.words
             /\ f[r].chosen => r.id = w.row \/ r.id \notin w.seen
  <2>1. r \in StoredRow /\ r.chosen \in BOOLEAN
    BY <1>1, ShownFields DEF StoredRow
  <2>2. PICK b \in BOOLEAN : b <=> (r.id = w.row) \/ (r.chosen /\ r.id \notin w.seen)
    OBVIOUS
  <2>3. f[r] = [r EXCEPT !.chosen = b]
    BY <1>2, <2>1, <2>2
  <2>4. f[r] \in StoredRow /\ f[r].id = r.id /\ f[r].words = r.words /\ f[r].chosen = b
    BY <2>1, <2>3 DEF StoredRow
  <2>5. QED
    BY <2>2, <2>4
<1>5. ASSUME NEW r \in store[l] PROVE StoredKept(l, f[r])
  BY <1>l, <1>4 DEF StoredKept
<1>6. f \in [store[l] -> StoredRow]
  BY <1>2, <1>4
<1>7. GoodStore(store') /\ StoreStep /\ Ids(store'[l]) = Ids(store[l])
  BY <1>1, <1>3, <1>4, <1>5, <1>6, RowsWritten
<1>8. store'[l] = {f[r] : r \in store[l]}
  BY <1>1, <1>3 DEF Shape, GoodStore
<1>9. QED
  BY <1>l, <1>4, <1>7, <1>8, IdsOf

LEMMA ChooseCommitSteps ==
  ASSUME Sound, NEW w \in requests, ChooseCommit(w)
  PROVE  Shape' /\ Steps
<1>1. /\ w.verb = "choose" /\ Serve(w)
      /\ page' = page /\ open' = open /\ got' = got /\ failed' = failed /\ view' = view /\ sent' = sent
      /\ Shape /\ Numbered
  BY DEF ChooseCommit, pageVars, counters, Sound
<1>2. w \in Changes /\ ChangeOK(w)
  BY <1>1, ChangeIsOK DEF Changes
<1>3. PICK v : v = [w EXCEPT !.stage = "done"]
  OBVIOUS
<1>4. ChangeOK(v) /\ SameRequest(v, w) /\ (v.mine <=> w.mine) /\ v.stage # "sent"
  BY <1>2, <1>3, Staged
<1>5. requests' \subseteq (requests \ {w}) \union {v}
  BY <1>1, <1>3 DEF Serve
<1>6. ChangesStep /\ LoadsStep /\ (\A q \in requests' : RequestOK(q)')
  BY <1>1, <1>2, <1>4, <1>5, Serving
<1>7. GoodStore(store') /\ StoreStep
  BY <1>1, <1>2, CommitRows DEF ChooseCommit
<1>8. Shape'
  BY <1>1, <1>6, <1>7, ShapeKept DEF Shape
<1>9. QED
  BY <1>1, <1>6, <1>7, <1>8, ViewKept DEF Steps, Shape

(* Requests that go, or are marked, and none that comes.                            *)
LEMMA Marking ==
  ASSUME Shape, Numbered, page' = page, sent' = sent, NEW f,
         \A w \in Changes : /\ ChangeOK(f[w]) /\ SameRequest(f[w], w) /\ f[w].stage = w.stage
                            /\ f[w].mine => w.mine,
         \A v \in Changes' : \E w \in Changes : v = f[w],
         \A q \in Pending' : q \in requests
  PROVE  /\ ChangesStep /\ (\A q \in requests' : RequestOK(q)')
         /\ \A v \in Changes' : \E w \in Changes : SameChange(v, w)
<1>1. ASSUME NEW v \in Changes' PROVE (\E w \in Changes : SameChange(v, w)) /\ ChangeOK(v)
  BY DEF SameChange, SameRequest
<1>2. \A v, u \in Changes' : v.n = u.n => v = u
  BY DEF Numbered, SameRequest
<1>3. ASSUME NEW q \in requests' PROVE RequestOK(q)'
  <2>1. CASE q.verb = "get"
    BY <2>1, StillOK DEF Pending, Shape
  <2>2. CASE q.verb # "get"
    <3>1. q \in Changes'
      BY <2>2 DEF Changes
    <3>2. ChangeOK(q)
      BY <1>1, <3>1
    <3>3. ChangeOK(q)'
      BY <3>2 DEF ChangeOK, Verbs, Lists
    <3>4. QED
      BY <2>2, <3>3 DEF RequestOK
  <2>3. QED
    BY <2>1, <2>2
<1>4. QED
  BY <1>1, <1>2, <1>3 DEF ChangesStep

LEMMA Going ==
  ASSUME Shape, Numbered, page' = page, sent' = sent, requests' \subseteq requests
  PROVE  ChangesStep /\ LoadsStep /\ (\A q \in requests' : RequestOK(q)')
<1>1. Changes' \subseteq Changes /\ Served' \subseteq Served
  BY DEF Changes, Served, Pending
<1>2. \A w \in Changes : SameChange(w, w)
  BY DEF SameChange
<1>3. \A q \in requests' : RequestOK(q)'
  BY StillOK DEF Shape
<1>4. QED
  BY <1>1, <1>2, <1>3 DEF ChangesStep, LoadsStep, Numbered

LEMMA StoreKept ==
  ASSUME store' = store
  PROVE  StoreStep
BY StoredUnchanged DEF StoreStep

LEMMA FailSteps ==
  ASSUME Sound, NEW w \in requests, Fail(w)
  PROVE  Shape' /\ Steps
<1>1. /\ page' = page /\ open' = open /\ got' = got /\ failed' = failed /\ view' = view /\ sent' = sent
      /\ store' = store /\ requests' \subseteq requests /\ Shape /\ Numbered
  BY DEF Fail, pageVars, Sound
<1>2. ChangesStep /\ LoadsStep /\ (\A q \in requests' : RequestOK(q)')
  BY <1>1, Going
<1>3. Shape'
  BY <1>1, <1>2, ShapeKept DEF Shape
<1>4. QED
  BY <1>1, <1>2, <1>3, ViewKept, StoreKept DEF Steps, Shape

LEMMA LoadFailedSteps ==
  ASSUME Sound, NEW q \in requests, LoadFailed(q)
  PROVE  Shape' /\ Steps
<1>1. /\ page' = page /\ open' = open /\ got' = got /\ view' = view /\ sent' = sent
      /\ store' = store /\ requests' \subseteq requests /\ Shape /\ Numbered
  BY DEF LoadFailed, Sound
<1>2. ChangesStep /\ LoadsStep /\ (\A p \in requests' : RequestOK(p)')
  BY <1>1, Going
<1>3. LoadOK(q)
  BY DEF LoadFailed, Sound, Shape, RequestOK
<1>4. failed' \subseteq page.gets
  BY <1>1, <1>3 DEF LoadFailed, LoadOK, Shape
<1>5. Shape'
  BY <1>1, <1>2, <1>4, ShapeKept DEF Shape
<1>6. QED
  BY <1>1, <1>2, <1>5, ViewKept, StoreKept DEF Steps, Shape

LEMMA CloseSteps ==
  ASSUME Sound, Close
  PROVE  Shape' /\ Steps
<1>1. /\ page' = page /\ open' \in BOOLEAN /\ got' = got /\ failed' = failed /\ view' = view /\ sent' = sent
      /\ store' = store /\ Shape /\ Numbered
  BY DEF Close, counters, Sound
<1>2. PICK f : f = [w \in Changes |-> [w EXCEPT !.mine = FALSE]]
  OBVIOUS
<1>3. requests' = {f[w] : w \in Changes}
  BY <1>2 DEF Close, Changes
<1>4. \A w \in Changes : /\ ChangeOK(f[w]) /\ SameRequest(f[w], w) /\ f[w].stage = w.stage
                         /\ ~f[w].mine
  BY <1>1, <1>2, ChangeIsOK, NotMine
<1>5. Pending' = {} /\ Served' = {}
  BY <1>3, <1>4 DEF Changes, Pending, Served, SameRequest
<1>6. \A v \in Changes' : \E w \in Changes : v = f[w]
  BY <1>3 DEF Changes
<1>7. ChangesStep /\ LoadsStep /\ (\A p \in requests' : RequestOK(p)')
  BY <1>1, <1>4, <1>5, <1>6, Marking DEF LoadsStep
<1>8. Shape'
  BY <1>1, <1>7, ShapeKept DEF Shape
<1>9. QED
  BY <1>1, <1>7, <1>8, ViewKept, StoreKept DEF Steps, Shape

LEMMA LoadServedSteps ==
  ASSUME Sound, NEW q \in requests, LoadServed(q)
  PROVE  Shape' /\ Steps
<1>1. /\ page' = page /\ open' = open /\ got' = got /\ failed' = failed /\ view' = view /\ sent' = sent
      /\ store' = store /\ Shape /\ Numbered /\ q.verb = "get"
  BY DEF LoadServed, pageVars, counters, Sound
<1>2. PICK p : p = [q EXCEPT !.stage = "done", !.rows = store]
  OBVIOUS
<1>3. requests' = (requests \ {q}) \union {p}
  BY <1>2 DEF LoadServed
<1>4. LoadOK(q) /\ GoodStore(store)
  BY <1>1 DEF Shape, RequestOK
<1>5. p.verb = "get" /\ p.rows = store /\ p.n = q.n /\ p.via = q.via /\ LoadOK(p)
  BY <1>2, <1>4 DEF LoadOK
<1>6. RequestOK(p)'
  BY <1>1, <1>5 DEF RequestOK, LoadOK, GoodStore, Lists
<1>7. \A u \in requests : RequestOK(u)'
  BY <1>1, StillOK DEF Shape
<1>8. Changes' = Changes /\ Served' \subseteq Served \union {p}
  BY <1>1, <1>3, <1>5 DEF Changes, Served, Pending
<1>9. \A w \in Changes : SameChange(w, w)
  BY DEF SameChange
<1>10. ChangesStep /\ LoadsStep
  BY <1>1, <1>5, <1>8, <1>9 DEF ChangesStep, LoadsStep, Numbered
<1>11. Shape'
  BY <1>1, <1>3, <1>6, <1>7, ShapeKept DEF Shape
<1>12. QED
  BY <1>1, <1>10, <1>11, ViewKept, StoreKept DEF Steps, Shape

LEMMA NewLoad ==
  ASSUME NEW n \in Nat, NEW g \in page.gets
  PROVE  /\ LoadOK(LoadRequest(n, g)) /\ LoadRequest(n, g).verb = "get"
         /\ LoadRequest(n, g).via = g /\ LoadRequest(n, g).stage # "done"
BY DEF LoadRequest, LoadOK

LEMMA OpenSteps ==
  ASSUME Sound, Open
  PROVE  Shape' /\ Steps
<1>1. /\ page' = page /\ open' \in BOOLEAN /\ got' = {} /\ failed' = {} /\ sent' = sent
      /\ store' = store /\ Shape /\ Numbered /\ Lists' = Lists
      /\ view' = [l \in Lists |-> Unloaded(page.lists[l])]
      /\ requests' = requests \union {LoadRequest(0, g) : g \in page.gets}
  BY DEF Open, Sound, Lists
<1>2. \A g \in page.gets : /\ LoadOK(LoadRequest(0, g)) /\ LoadRequest(0, g).verb = "get"
                           /\ LoadRequest(0, g).stage # "done"
  BY NewLoad
<1>3. \A g \in page.gets : RequestOK(LoadRequest(0, g))'
  BY <1>1, <1>2 DEF RequestOK, LoadOK, GoodStore
<1>4. \A u \in requests : RequestOK(u)'
  BY <1>1, StillOK DEF Shape
<1>5. Changes' = Changes /\ Served' = Served
  BY <1>1, <1>2 DEF Changes, Served, Pending
<1>6. \A w \in Changes : SameChange(w, w)
  BY DEF SameChange
<1>7. ChangesStep /\ LoadsStep
  BY <1>1, <1>5, <1>6 DEF ChangesStep, LoadsStep, Numbered
<1>8. Row(1, 0) \in ShownRow
  BY DEF Row, ShownRow
<1>9. view' \in [Lists -> Seq(ShownRow)]
  BY <1>1, <1>8 DEF Unloaded
<1>10. ViewStep
  BY <1>1 DEF ViewStep, RowStep, BlankRow, Unloaded
<1>11. Shape'
  BY <1>1, <1>3, <1>4, <1>9, ShapeKept DEF Shape
<1>12. QED
  BY <1>1, <1>7, <1>10, <1>11, StoreKept DEF Steps, Shape

LEMMA LoadedSteps ==
  ASSUME Sound, NEW q \in requests, Loaded(q)
  PROVE  Shape' /\ Steps
<1>1. /\ page' = page /\ open' = open /\ failed' = failed /\ sent' = sent /\ got' = got \union {q.via}
      /\ store' = store /\ Shape /\ Numbered /\ q.verb = "get" /\ q.stage = "done"
      /\ view' = [l \in Lists |-> IF page.lists[l].via = q.via
                              THEN Listing(page.lists[l], q.rows[l]) ELSE view[l]]
      /\ requests' = Detached(q.via) \ {q}
  BY DEF Loaded, counters, Sound
<1>2. LoadOK(q) /\ q \in Served
  BY <1>1 DEF Shape, RequestOK, Served, Pending
<1>3. q.via \in page.gets /\ \A l \in Lists : GoodRows(q.rows[l])
  BY <1>1, <1>2 DEF LoadOK, GoodStore
<1>4. PICK f : f = [w \in Changes |-> IF w.mine /\ page.lists[w.list].via = q.via
                                     THEN [w EXCEPT !.inHand = FALSE] ELSE w]
  OBVIOUS
<1>5. \A w \in Changes : /\ ChangeOK(f[w]) /\ SameRequest(f[w], w) /\ f[w].stage = w.stage
                         /\ f[w].mine => w.mine
  <2> TAKE w \in Changes
  <2>1. CASE w.mine /\ page.lists[w.list].via = q.via
    BY <1>1, <1>4, <2>1, ChangeIsOK, OutOfHand
  <2>2. CASE ~(w.mine /\ page.lists[w.list].via = q.via)
    BY <1>1, <1>4, <2>2, ChangeIsOK DEF SameRequest
  <2>3. QED
    BY <2>1, <2>2
<1>6. /\ \A v \in Changes' : \E w \in Changes : v = f[w]
      /\ \A p \in Pending' : p \in requests
  <2>1. ASSUME NEW v \in Detached(q.via)
        PROVE  (\E w \in Changes : v = f[w]) \/ (v.verb = "get" /\ v \in requests)
    <3>1. PICK r \in requests : v = IF r.verb # "get" /\ r.mine /\ page.lists[r.list].via = q.via
                                    THEN [r EXCEPT !.inHand = FALSE] ELSE r
      BY DEF Detached
    <3>2. QED
      BY <1>4, <3>1 DEF Changes
  <2>2. \A w \in Changes : f[w].verb # "get"
    BY <1>5 DEF SameRequest, Changes
  <2>3. QED
    BY <1>1, <2>1, <2>2 DEF Changes, Pending
<1>7. ChangesStep /\ (\A p \in requests' : RequestOK(p)')
  BY <1>1, <1>5, <1>6, Marking
<1>8. LoadsStep
  BY <1>6 DEF LoadsStep, Served, Pending
<1>9. view' \in [Lists -> Seq(ShownRow)]
  BY <1>1, <1>3, Listed DEF Shape
<1>10. ASSUME NEW l \in Lists, NEW k \in DOMAIN view'[l] PROVE RowStep(l, view'[l][k])
  <2>1. CASE page.lists[l].via = q.via
    <3>1. view'[l] = Listing(page.lists[l], q.rows[l])
      BY <1>1, <2>1
    <3>2. QED
      BY <1>2, <1>3, <3>1, Listed DEF RowStep, LoadedRow
  <2>2. CASE page.lists[l].via # q.via
    BY <1>1, <2>2 DEF RowStep, KeptRow
  <2>3. QED
    BY <2>1, <2>2
<1>11. ViewStep
  BY <1>10 DEF ViewStep
<1>12. Shape'
  BY <1>1, <1>3, <1>7, <1>9, ShapeKept DEF Shape
<1>13. QED
  BY <1>1, <1>7, <1>8, <1>11, <1>12, StoreKept DEF Steps, Shape

(* What the answer to a change leaves of its list, and which loads it asks for.       *)
LEMMA JoinedRows ==
  ASSUME NEW list, NEW s \in Seq(ShownRow), NEW row \in ShownRow
  PROVE  /\ Joined(list, s, row) \in Seq(ShownRow)
         /\ \A k \in DOMAIN Joined(list, s, row) :
              \/ Joined(list, s, row)[k] = row
              \/ \E i \in DOMAIN s : Joined(list, s, row)[k] = s[i]
<1>1. <<row>> \in Seq(ShownRow) /\ Len(<<row>>) = 1 /\ <<row>>[1] = row
  OBVIOUS
<1>2. CASE list.latest
  <2>1. PICK t : t = <<row>> \o s
    OBVIOUS
  <2>2. /\ t \in Seq(ShownRow) /\ Len(t) = 1 + Len(s)
        /\ \A k \in 1..(1 + Len(s)) : t[k] = IF k <= 1 THEN row ELSE s[k - 1]
    BY <1>1, <2>1, Concatenated
  <2>3. \A k \in DOMAIN t : t[k] = row \/ \E i \in DOMAIN s : t[k] = s[i]
    <3>1. Len(s) \in Nat /\ DOMAIN s = 1..Len(s) /\ DOMAIN t = 1..(1 + Len(s))
      BY <2>2
    <3>2. ASSUME NEW k \in DOMAIN t, k > 1 PROVE t[k] = s[k - 1] /\ k - 1 \in DOMAIN s
      BY <2>2, <3>1, <3>2
    <3>3. \A k \in DOMAIN t : k > 1 \/ t[k] = row
      BY <2>2, <3>1
    <3>4. QED
      BY <3>2, <3>3
  <2>4. QED
    BY <1>2, <2>1, <2>2, <2>3 DEF Joined
<1>3. CASE ~list.latest
  BY <1>3 DEF Joined
<1>4. QED
  BY <1>2, <1>3

Leaves(w, t) ==
  /\ Shown(w) = [view EXCEPT ![w.list] = t]
  /\ \A k \in DOMAIN t :
       \/ w.verb = "post" /\ t[k].id = w.n /\ ~t[k].chosen
       \/ \E i \in DOMAIN view[w.list] :
            /\ t[k].id = view[w.list][i].id /\ t[k].chosen = view[w.list][i].chosen
            /\ t[k].words = view[w.list][i].words \/ t[k].words = w.words

LEMMA AnsweredRows ==
  ASSUME Sound, NEW w \in Changes, w.stage = "done"
  PROVE  \/ Shown(w) = view
         \/ \E t \in Seq(ShownRow) : Leaves(w, t)
<1>l. PICK l : l = w.list
  OBVIOUS
<1>1. /\ Shape /\ l \in Lists /\ w.row \in Nat /\ w.words \in Nat
      /\ w.verb = "post" => w.row = w.n
  BY <1>l, ChangeIsOK DEF Sound
<1>s. PICK s : s = view[l]
  OBVIOUS
<1>2. s \in Seq(ShownRow) /\ DOMAIN s = 1..Len(s) /\ Len(s) \in Nat /\ \A i \in DOMAIN s : s[i] \in ShownRow
  BY <1>1, <1>s, ShownFields
<1>3. CASE page.lists[l].shows # "reload" /\ w.verb = "post"
  <2>1. PICK row : row = Row(w.row, w.words)
    OBVIOUS
  <2>2. row \in ShownRow /\ row.id = w.n /\ ~row.chosen
    BY <1>1, <1>3, <2>1, PlacedRow
  <2>3. PICK t : t = Joined(page.lists[l], s, row)
    OBVIOUS
  <2>4. Shown(w) = [view EXCEPT ![l] = t]
    BY <1>l, <1>3, <1>s, <2>1, <2>3 DEF Shown
  <2>5. t \in Seq(ShownRow) /\ \A k \in DOMAIN t : t[k] = row \/ \E i \in DOMAIN s : t[k] = s[i]
    BY <1>2, <2>2, <2>3, JoinedRows
  <2>6. \A k \in DOMAIN t :
          \/ w.verb = "post" /\ t[k].id = w.n /\ ~t[k].chosen
          \/ \E i \in DOMAIN s : t[k] = s[i]
    BY <1>3, <2>2, <2>5
  <2>7. Leaves(w, t)
    BY <1>l, <1>s, <2>4, <2>6 DEF Leaves
  <2>8. QED
    BY <2>5, <2>7
<1>4. CASE page.lists[l].shows = "on answer" /\ w.verb \in {"delete", "accept"}
  <2>1. PICK t : t = Without(s, w.row)
    OBVIOUS
  <2>2. Shown(w) = [view EXCEPT ![l] = t]
    <3>1. Shown(w) = [view EXCEPT ![l] = Without(view[l], w.row)]
      BY <1>l, <1>4 DEF Shown
    <3>2. QED
      BY <1>s, <2>1, <3>1
  <2>3. t \in Seq(ShownRow) /\ \A k \in DOMAIN t : \E i \in DOMAIN s : t[k] = s[i]
    <3>1. PICK places : places = {i \in DOMAIN s : s[i].id # w.row}
      OBVIOUS
    <3>2. t = Kept(s, places) /\ places \in SUBSET (DOMAIN s)
      BY <2>1, <3>1 DEF Without
    <3>3. QED
      BY <1>2, <3>2, KeptElements
  <2>4. Leaves(w, t)
    BY <1>l, <1>s, <2>2, <2>3 DEF Leaves
  <2>5. QED
    BY <2>3, <2>4
<1>5. CASE page.lists[l].shows = "on answer" /\ w.verb = "put" /\ w.inHand
  <2>1. PICK t : t = [i \in DOMAIN s |-> IF s[i].id = w.row THEN [s[i] EXCEPT !.words = w.words] ELSE s[i]]
    OBVIOUS
  <2>2. Shown(w) = [view EXCEPT ![l] = t]
    <3>1. Shown(w) = [view EXCEPT ![l] = [i \in DOMAIN view[l] |->
                        IF view[l][i].id = w.row THEN [view[l][i] EXCEPT !.words = w.words] ELSE view[l][i]]]
      BY <1>l, <1>5 DEF Shown
    <3>2. QED
      BY <1>s, <2>1, <3>1
  <2>3. ASSUME NEW i \in DOMAIN s
        PROVE  /\ t[i] \in ShownRow /\ t[i].id = s[i].id /\ t[i].chosen = s[i].chosen
               /\ t[i].words = s[i].words \/ t[i].words = w.words
    BY <1>1, <1>2, <2>1 DEF ShownRow
  <2>4. t \in Seq(ShownRow) /\ DOMAIN t = DOMAIN s
    BY <1>2, <2>1, <2>3
  <2>5. Leaves(w, t)
    BY <1>l, <1>s, <2>2, <2>3, <2>4 DEF Leaves
  <2>6. QED
    BY <2>4, <2>5
<1>6. QED
  BY <1>l, <1>3, <1>4, <1>5 DEF Shown

LEMMA ReloadedGets ==
  ASSUME Shape, NEW w \in Changes
  PROVE  Reloaded(w) \subseteq page.gets
<1>1. page.lists[w.list].joins \in {0} \union Lists
  BY ChangeIsOK, PageFacts DEF Shape, Lists, GoodList
<1>2. w.verb = "accept" => page.lists[w.list].joins # 0
  <2>1. "accept" \notin page.lists[w.list].api
    BY ChangeIsOK, PageFacts DEF Shape, Lists, GoodList
  <2>2. QED
    BY <2>1, ChangeIsOK DEF Verbs
<1>3. \A l \in Lists : page.lists[l].via \in page.gets
  BY PageFacts DEF Shape, Lists, GoodList
<1>4. QED
  BY <1>1, <1>2, <1>3 DEF Reloaded

LEMMA AnsweredSteps ==
  ASSUME Sound, NEW w \in requests, ChangeAnswered(w)
  PROVE  Shape' /\ Steps
<1>1. /\ page' = page /\ open' = open /\ got' = got /\ failed' = failed /\ sent' = sent
      /\ store' = store /\ Shape /\ Numbered /\ w \in Changes /\ w.stage = "done"
      /\ view' = IF w.mine THEN Shown(w) ELSE view
  BY DEF ChangeAnswered, counters, Sound, Changes
<1>2. PICK again : /\ again = IF w.mine THEN Reloaded(w) ELSE {}
                   /\ requests' = (requests \ {w}) \union {LoadRequest(w.n, g) : g \in again}
  BY DEF ChangeAnswered
<1>3. again \subseteq page.gets /\ w.n \in Nat /\ w.list \in Lists
  BY <1>1, <1>2, ReloadedGets, ChangeIsOK
<1>4. \A g \in again : /\ LoadOK(LoadRequest(w.n, g)) /\ LoadRequest(w.n, g).verb = "get"
                       /\ LoadRequest(w.n, g).stage # "done"
  BY <1>3, NewLoad
<1>5. \A g \in again : RequestOK(LoadRequest(w.n, g))'
  BY <1>1, <1>4 DEF RequestOK, LoadOK, GoodStore, Lists
<1>6. \A u \in requests : RequestOK(u)'
  BY <1>1, StillOK DEF Shape
<1>7. Changes' \subseteq Changes /\ Served' \subseteq Served
  BY <1>2, <1>4 DEF Changes, Served, Pending
<1>8. \A u \in Changes : SameChange(u, u)
  BY DEF SameChange
<1>9. ChangesStep /\ LoadsStep
  BY <1>1, <1>7, <1>8 DEF ChangesStep, LoadsStep, Numbered
<1>10. view' \in [Lists -> Seq(ShownRow)] /\ ViewStep
  <2>1. CASE view' = view
    BY <1>1, <2>1, ViewKept DEF Shape
  <2>2. CASE view' # view
    <3>1. PICK l : l = w.list
      OBVIOUS
    <3>2. PICK t \in Seq(ShownRow) : Leaves(w, t)
      BY <1>1, <2>2, AnsweredRows
    <3>a. /\ view' = [view EXCEPT ![l] = t]
          /\ \A k \in DOMAIN t :
               \/ w.verb = "post" /\ t[k].id = w.n /\ ~t[k].chosen
               \/ \E i \in DOMAIN view[l] :
                    /\ t[k].id = view[l][i].id /\ t[k].chosen = view[l][i].chosen
                    /\ t[k].words = view[l][i].words \/ t[k].words = w.words
      BY <1>1, <2>2, <3>1, <3>2 DEF Leaves
    <3>3. \A k \in DOMAIN t : RowStep(l, t[k])
      <4> TAKE k \in DOMAIN t
      <4>1. CASE w.verb = "post" /\ t[k].id = w.n /\ ~t[k].chosen
        BY <1>1, <3>1, <4>1 DEF RowStep, AddedRow
      <4>2. CASE \E i \in DOMAIN view[l] :
                        /\ t[k].id = view[l][i].id /\ t[k].chosen = view[l][i].chosen
                        /\ t[k].words = view[l][i].words \/ t[k].words = w.words
        BY <1>1, <3>1, <4>2 DEF RowStep, KeptRow
      <4>3. QED
        BY <3>a, <4>1, <4>2
    <3>4. QED
      BY <1>1, <1>3, <3>1, <3>2, <3>a, <3>3, OneListChanged
  <2>3. QED
    BY <2>1, <2>2
<1>11. Shape'
  BY <1>1, <1>2, <1>5, <1>6, <1>10, ShapeKept DEF Shape
<1>12. QED
  BY <1>1, <1>9, <1>10, <1>11, StoreKept DEF Steps, Shape

LEMMA EveryStep ==
  ASSUME Sound, PagesNext
  PROVE  Shape' /\ Steps
<1>1. CASE Open \/ Close
  BY <1>1, OpenSteps, CloseSteps
<1>2. ASSUME NEW l \in Lists, \/ Add(l) \/ Edit(l) \/ LeaveEmpty(l) \/ RemoveRow(l)
                               \/ Choose(l) \/ Reorder(l) \/ Other(l)
      PROVE  Shape' /\ Steps
  BY <1>2, AddSteps, EditSteps, LeaveEmptySteps, RemoveRowSteps, ChooseSteps, ReorderSteps, OtherSteps
<1>3. ASSUME NEW q \in requests,
             \/ LoadServed(q) \/ Loaded(q) \/ LoadFailed(q)
             \/ Write(q) \/ ChooseFind(q) \/ ChooseLock(q) \/ ChooseCommit(q)
             \/ ChangeAnswered(q) \/ Fail(q)
      PROVE  Shape' /\ Steps
  BY <1>3, LoadServedSteps, LoadedSteps, LoadFailedSteps, WriteSteps, ChooseFindSteps, ChooseLockSteps,
     ChooseCommitSteps, AnsweredSteps, FailSteps
<1>4. QED
  BY <1>1, <1>2, <1>3 DEF PagesNext

LEMMA FirstRows ==
  ASSUME NEW list, NEW R, R = {Place(Row(i, i), i) : i \in FirstIds(list)}
  PROVE  /\ GoodRows(R)
         /\ \A r \in R : r.id \in {1, 2} /\ r.words = r.id /\ ~r.chosen
<1>1. FirstIds(list) \subseteq {1, 2}
  BY DEF FirstIds
<1>2. R \subseteq {Place(Row(1, 1), 1), Place(Row(2, 2), 2)}
  BY <1>1
<1>3. \A i \in {1, 2} : /\ Place(Row(i, i), i) \in StoredRow /\ Place(Row(i, i), i).id = i
                        /\ Place(Row(i, i), i).words = i /\ ~Place(Row(i, i), i).chosen
  BY PlacedRow
<1>4. IsFiniteSet(R)
  <2>1. PICK a, b : a = Place(Row(1, 1), 1) /\ b = Place(Row(2, 2), 2)
    OBVIOUS
  <2>2. IsFiniteSet({a, b})
    <3>1. IsFiniteSet({a}) /\ {a, b} = {a} \union {b}
      BY FS_Singleton
    <3>2. QED
      BY <3>1, FS_AddElement
  <2>3. QED
    BY <1>2, <2>1, <2>2, FS_Subset
<1>5. QED
  BY <1>2, <1>3, <1>4 DEF GoodRows

LEMMA SoundAtFirst ==
  ASSUME PagesInit
  PROVE  Sound
<1>1. /\ page \in Pages /\ open \in BOOLEAN /\ sent = 2 /\ got = {} /\ failed = {} /\ requests = {}
      /\ view = [l \in Lists |-> <<>>]
      /\ store = [l \in Lists |-> {Place(Row(i, i), i) : i \in FirstIds(page.lists[l])}]
  BY DEF PagesInit
<1>2. \A l \in Lists : GoodRows(store[l]) /\ \A r \in store[l] : r.id \in {1, 2}
  BY <1>1, FirstRows
<1>3. GoodStore(store)
  BY <1>1, <1>2 DEF GoodStore, GoodRows
<1>4. Shape
  BY <1>1, <1>3 DEF Shape
<1>5. Changes = {} /\ Served = {} /\ Adding = {}
  BY <1>1 DEF Changes, Served, Pending, Adding
<1>6. Numbered
  <2>1. \A l \in Lists : \A r \in store[l] : r.id <= sent
    <3>1. sent = 2
      BY <1>1
    <3>2. QED
      BY <1>2, <3>1
  <2>2. \A l \in Lists : DOMAIN view[l] = {}
    BY <1>1
  <2>3. QED
    BY <1>5, <2>1, <2>2 DEF Numbered
<1>7. Fresh
  BY <1>5 DEF Fresh
<1>8. QED
  BY <1>4, <1>6, <1>7 DEF Sound

(* No row or request has a number that is still to be given.                          *)
LEMMA NumberedAgain ==
  ASSUME Sound, Shape', Steps
  PROVE  Numbered'
<1>1. /\ sent' >= sent /\ sent \in Nat /\ sent' \in Nat /\ sent >= 2 /\ page' = page /\ Lists' = Lists
      /\ Shape /\ Numbered
  BY DEF Steps, Shape, Sound, Lists
<1>2. \A v, w \in Changes' : v.n = w.n => v = w
  BY DEF Steps, ChangesStep
<1>3. \A w \in Changes : w.n <= sent
  BY <1>1, ChangeIsOK
<1>4. ASSUME NEW l \in Lists, NEW r \in store'[l] PROVE r.id <= sent'
  <2>1. r.id \in Nat
    BY <1>1, <1>4 DEF Shape, GoodStore, StoredRow
  <2>2. StoredKept(l, r) \/ StoredNew(l, r)
    BY DEF Steps, StoreStep
  <2>3. r.id <= sent
    <3>1. CASE StoredKept(l, r)
      BY <1>1, <3>1 DEF StoredKept, Numbered
    <3>2. CASE StoredNew(l, r)
      BY <1>3, <3>2 DEF StoredNew, Adding
    <3>3. QED
      BY <2>2, <3>1, <3>2
  <2>4. QED
    BY <1>1, <2>1, <2>3
<1>5. ASSUME NEW l \in Lists, NEW q \in Served', NEW r \in q.rows[l] PROVE r.id <= sent'
  <2>1. q \in Served \/ q.rows = store
    BY DEF Steps, LoadsStep
  <2>2. r.id <= sent
    BY <1>1, <1>5, <2>1 DEF Numbered
  <2>3. RequestOK(q)' /\ q.verb = "get" /\ q.stage = "done"
    BY DEF Shape, Served, Pending
  <2>4. GoodStore(q.rows)'
    BY <2>3 DEF RequestOK, LoadOK
  <2>5. r.id \in Nat
    BY <1>1, <1>5, <2>4 DEF GoodStore, StoredRow
  <2>6. QED
    BY <1>1, <2>2, <2>5
<1>6. ASSUME NEW l \in Lists, NEW i \in DOMAIN view'[l] PROVE view'[l][i].id <= sent'
  <2>1. PICK x : x = view'[l][i]
    OBVIOUS
  <2>2. x.id \in Nat
    <3>1. view'[l] \in Seq(ShownRow)
      BY <1>1 DEF Shape
    <3>2. x \in ShownRow
      BY <2>1, <3>1
    <3>3. QED
      BY <3>2 DEF ShownRow
  <2>3. RowStep(l, x)
    BY <2>1 DEF Steps, ViewStep
  <2>4. x.id <= sent
    <3>1. CASE KeptRow(l, x)
      BY <1>1, <3>1 DEF KeptRow, Numbered
    <3>2. CASE LoadedRow(l, x)
      BY <1>1, <3>2 DEF LoadedRow, Numbered, Seen
    <3>3. CASE AddedRow(l, x)
      BY <1>3, <3>3 DEF AddedRow
    <3>4. CASE BlankRow(l, x)
      BY <1>1, <3>4 DEF BlankRow, Row
    <3>5. QED
      BY <2>3, <3>1, <3>2, <3>3, <3>4 DEF RowStep
  <2>5. QED
    BY <1>1, <2>1, <2>2, <2>4
<1>7. QED
  BY <1>1, <1>2, <1>4, <1>5, <1>6 DEF Numbered

(* What a request that will add a row was, before the step.                           *)
LEMMA AddingBefore ==
  ASSUME Sound, Shape', Steps, NEW w \in Adding'
  PROVE  /\ w.n \in Nat /\ w.n >= 3 /\ w.n <= sent' /\ w \in Changes' /\ w.stage = "sent"
         /\ \/ \E u \in Adding : u.n = w.n
            \/ w.n = sent + 1
<1>1. w \in Changes' /\ w.stage = "sent" /\ w.verb \in {"post", "accept"}
  BY DEF Adding
<1>2. ChangeOK(w)'
  BY <1>1 DEF Shape, RequestOK, Changes
<1>3. w.n \in Nat /\ w.n >= 3 /\ w.n <= sent'
  BY <1>2 DEF ChangeOK, Shape
<1>4. ASSUME NEW u \in Changes, SameChange(w, u) PROVE u \in Adding /\ u.n = w.n
  BY <1>1, <1>4 DEF SameChange, Adding
<1>5. (\E u \in Changes : SameChange(w, u)) \/ w.n = sent + 1
  BY <1>1 DEF Steps, ChangesStep, NewChange
<1>6. QED
  BY <1>1, <1>3, <1>4, <1>5

LEMMA FreshAgain ==
  ASSUME Sound, Shape', Steps
  PROVE  Fresh'
<1>1. /\ sent \in Nat /\ sent >= 2 /\ page' = page /\ Lists' = Lists /\ Shape /\ Numbered /\ Fresh
  BY DEF Steps, Shape, Sound, Lists
<1>2. \A w \in Changes : w.n \in Nat /\ w.n <= sent /\ w.row <= sent /\ w.row \in Nat
  BY <1>1, ChangeIsOK
<1> SUFFICES ASSUME NEW w \in Adding'
             PROVE  /\ \A l \in Lists :
                         /\ w.n \notin Ids(store'[l])
                         /\ \A i \in DOMAIN view'[l] : view'[l][i].id # w.n
                         /\ \A q \in Served' : w.n \notin Ids(q.rows[l])
                    /\ \A v \in Changes' : v # w => v.row # w.n
  BY <1>1 DEF Fresh, Ids
<1>3. /\ w.n \in Nat /\ w.n >= 3 /\ w \in Changes' /\ w.stage = "sent"
      /\ (\E u \in Adding : u.n = w.n) \/ w.n = sent + 1
  BY AddingBefore
<1>4. ASSUME NEW l \in Lists
      PROVE  /\ \A r \in store[l] : r.id # w.n
             /\ \A i \in DOMAIN view[l] : view[l][i].id # w.n
             /\ \A q \in Served : \A r \in q.rows[l] : r.id # w.n
  <2>1. CASE \E u \in Adding : u.n = w.n
    BY <1>1, <2>1, IdsOf DEF Fresh
  <2>2. CASE w.n = sent + 1
    <3>1. \A x : x <= sent => x # sent + 1
      BY <1>1
    <3>2. QED
      BY <1>1, <2>2, <3>1 DEF Numbered
  <2>3. QED
    BY <1>3, <2>1, <2>2
<1>5. \A u \in Changes : u.stage # "sent" => u.n # w.n
  BY <1>1, <1>2, <1>3 DEF Numbered, Adding
<1>6. ASSUME NEW l \in Lists, NEW r \in store'[l] PROVE r.id # w.n
  <2>1. CASE StoredKept(l, r)
    BY <1>4, <2>1 DEF StoredKept
  <2>2. CASE StoredNew(l, r)
    BY <1>3, <2>2 DEF StoredNew
  <2>3. QED
    BY <2>1, <2>2 DEF Steps, StoreStep
<1>7. ASSUME NEW l \in Lists, NEW q \in Served', NEW r \in q.rows[l] PROVE r.id # w.n
  BY <1>4, <1>7 DEF Steps, LoadsStep
<1>8. ASSUME NEW l \in Lists, NEW i \in DOMAIN view'[l] PROVE view'[l][i].id # w.n
  <2>1. PICK x : x = view'[l][i]
    OBVIOUS
  <2>2. RowStep(l, x)
    BY <2>1 DEF Steps, ViewStep
  <2>3. x.id # w.n
    <3>1. CASE KeptRow(l, x)
      BY <1>4, <3>1 DEF KeptRow
    <3>2. CASE LoadedRow(l, x)
      BY <1>4, <3>2 DEF LoadedRow, Seen
    <3>3. CASE AddedRow(l, x)
      BY <1>5, <3>3 DEF AddedRow
    <3>4. CASE BlankRow(l, x)
      BY <1>3, <3>4 DEF BlankRow, Row
    <3>5. QED
      BY <2>2, <3>1, <3>2, <3>3, <3>4 DEF RowStep
  <2>4. QED
    BY <2>1, <2>3
<1>9. ASSUME NEW v \in Changes', v # w PROVE v.row # w.n
  <2>1. v.n # w.n
    BY <1>3, <1>9 DEF Steps, ChangesStep
  <2>2. CASE \E u \in Changes : SameChange(v, u)
    <3>1. PICK u \in Changes : v.n = u.n /\ v.row = u.row
      BY <2>2 DEF SameChange
    <3>2. CASE w.n = sent + 1
      BY <1>1, <1>2, <3>1, <3>2
    <3>3. CASE \E a \in Adding : a.n = w.n
      BY <1>1, <2>1, <3>1, <3>3 DEF Fresh
    <3>4. QED
      BY <1>3, <3>2, <3>3
  <2>3. CASE NewChange(v)
    <3>1. ChangeOK(v)'
      BY DEF Shape, RequestOK, Changes
    <3>2. v.verb = "post" => v.row = v.n
      BY <3>1 DEF ChangeOK
    <3>3. v.list \in Lists
      BY <1>1, <3>1 DEF ChangeOK
    <3>4. QED
      BY <1>3, <1>4, <2>1, <2>3, <3>2, <3>3, IdsOf DEF NewChange
  <2>4. QED
    BY <2>2, <2>3 DEF Steps, ChangesStep
<1>10. QED
  BY <1>6, <1>7, <1>8, <1>9, IdsOf

(* Every row and request of the pages has the fields its kind has and belongs to a     *)
(* list of its page; no two requests have one number, and a row that is being added    *)
(* is stored, shown and asked for by nobody yet.                                       *)
THEOREM SoundAlways == PagesSpec => []Sound
<1>1. PagesInit => Sound
  BY SoundAtFirst
<1>2. Sound /\ PagesNext => Sound'
  BY EveryStep, NumberedAgain, FreshAgain DEF Sound
<1>3. Sound /\ UNCHANGED productionVars => Sound'
  BY DEF Sound, Shape, Numbered, Fresh, productionVars, pageVars, counters, Changes, Served, Adding,
     Pending, RequestOK, LoadOK, ChangeOK, Verbs, GoodStore, Lists, Ids
<1>4. QED
  BY <1>1, <1>2, <1>3, PTL DEF PagesSpec

(* What is remembered is not forgotten, and a load that fails leaves its lists in it.  *)
WholeHistory(h) == h = [crossed |-> h.crossed, blanked |-> h.blanked, grown |-> h.grown]

HistoryStep ==
  /\ WholeHistory(history')
  /\ history.blanked \subseteq history'.blanked /\ history.grown \subseteq history'.grown
  /\ \A l \in Lists : page.lists[l].via \in failed' => \/ page.lists[l].via \in failed
                                                       \/ l \in history'.blanked

LEMMA Recalled ==
  ASSUME NEW h, WholeHistory(h), NEW x, NEW k
  PROVE  /\ k = [h EXCEPT !.crossed = x] => WholeHistory(k) /\ k.blanked = h.blanked /\ k.grown = h.grown
         /\ k = [h EXCEPT !.blanked = x] => WholeHistory(k) /\ k.blanked = x /\ k.grown = h.grown
         /\ k = [h EXCEPT !.grown = x] => WholeHistory(k) /\ k.blanked = h.blanked /\ k.grown = x
<1>1. PICK c, b, g : h = [crossed |-> c, blanked |-> b, grown |-> g]
  BY DEF WholeHistory
<1>2. QED
  BY <1>1 DEF WholeHistory

LEMMA HistorySteps ==
  ASSUME WholeHistory(history), PagesNext
  PROVE  HistoryStep
<1>1. ASSUME history' = history, failed' = failed \/ failed' = {} PROVE HistoryStep
  BY <1>1 DEF HistoryStep
<1>2. ASSUME NEW x, history' = [history EXCEPT !.crossed = x], failed' = failed \/ failed' = {} PROVE HistoryStep
  BY <1>2, Recalled DEF HistoryStep
<1>3. ASSUME Open PROVE HistoryStep
  BY <1>2, <1>3 DEF Open
<1>4. ASSUME Close PROVE HistoryStep
  BY <1>1, <1>4 DEF Close
<1>5. ASSUME NEW w, SendChange(w) PROVE HistoryStep
  BY <1>2, <1>5 DEF SendChange
<1>6. ASSUME NEW l \in Lists, Add(l) \/ Edit(l) \/ RemoveRow(l) \/ Choose(l) \/ Reorder(l)
      PROVE  HistoryStep
  <2>1. \E w : SendChange(w)
    BY <1>6 DEF Add, Edit, RemoveRow, Choose, Reorder
  <2>2. QED
    BY <1>5, <2>1
<1>7. ASSUME NEW l \in Lists, LeaveEmpty(l) \/ Other(l) PROVE HistoryStep
  BY <1>1, <1>7 DEF LeaveEmpty, Other, pageVars
<1>8. ASSUME NEW q \in requests, LoadServed(q) \/ Loaded(q) \/ ChooseFind(q) \/ ChooseLock(q) \/ ChooseCommit(q) \/ Fail(q)
      PROVE  HistoryStep
  BY <1>1, <1>8 DEF LoadServed, Loaded, ChooseFind, ChooseLock, ChooseCommit, Fail, pageVars
<1>9. ASSUME NEW w \in requests, ChangeAnswered(w) PROVE HistoryStep
  <2>1. failed' = failed /\ \E x : history' = [history EXCEPT !.crossed = x]
    BY <1>9 DEF ChangeAnswered
  <2>2. QED
    BY <1>2, <2>1
<1>10. ASSUME NEW w \in requests, Write(w) PROVE HistoryStep
  <2>1. failed' = failed /\ (history' = history \/ history' = [history EXCEPT !.grown = @ \union {w.list}])
    BY <1>10 DEF Write, pageVars
  <2>2. QED
    BY <1>1, <2>1, Recalled DEF HistoryStep
<1>11. ASSUME NEW q \in requests, LoadFailed(q) PROVE HistoryStep
  <2>1. PICK x : x = history.blanked \union {l \in Lists : page.lists[l].via = q.via}
    OBVIOUS
  <2>2. history' = [history EXCEPT !.blanked = x] /\ failed' \subseteq failed \union {q.via}
    BY <1>11, <2>1 DEF LoadFailed
  <2>3. WholeHistory(history') /\ history'.blanked = x /\ history'.grown = history.grown
    BY <2>2, Recalled
  <2>4. QED
    BY <2>1, <2>2, <2>3 DEF HistoryStep
<1>12. QED
  BY <1>3, <1>4, <1>6, <1>7, <1>8, <1>9, <1>10, <1>11 DEF PagesNext

-----------------------------------------------------------------------------
(* No text of this list is blank anywhere, but on a page that has not loaded it.       *)
Inked(l) ==
  /\ \A r \in store[l] : r.words # 0
  /\ \A q \in Served : \A r \in q.rows[l] : r.words # 0
  /\ \A w \in Changes : w.list = l => w.words # 0
  /\ \A i \in DOMAIN view[l] : view[l][i].words = 0 => page.lists[l].blank /\ page.lists[l].via \notin got
  /\ page.lists[l].via \notin failed
Words == \A l \in Lists \ history.blanked : page.lists[l].keyed => Inked(l)

LEMMA TextsAreSaved ==
  ASSUME Shape, NEW l \in Lists, page.lists[l].keyed, NEW w \in Changes
  PROVE  /\ w.list = l => w.verb = "put"
         /\ w.verb = "accept" => page.lists[w.list].joins # l
<1>1. GoodList(page, l) /\ w.list \in Lists /\ GoodList(page, w.list)
  BY ChangeIsOK, PageFacts DEF Shape, Lists
<1>2. w.verb \in Verbs(w.list)
  BY ChangeIsOK
<1>3. w.list = l => w.verb = "put"
  BY <1>1, <1>2 DEF GoodList, Verbs
<1>4. w.verb = "accept" => page.lists[w.list].joins # l
  <2>1. w.verb = "accept" => page.lists[w.list].joins # 0
    BY <1>1, <1>2 DEF GoodList, Verbs
  <2>2. QED
    BY <1>1, <2>1 DEF GoodList
<1>5. QED
  BY <1>3, <1>4

LEMMA InkedAgain ==
  ASSUME Sound, Shape', Steps, HistoryStep, NEW l \in Lists, page.lists[l].keyed, l \notin history'.blanked,
         Inked(l)
  PROVE  Inked(l)'
<1>1. Shape /\ sent \in Nat /\ page' = page /\ Lists' = Lists /\ l \in Lists'
  BY DEF Sound, Shape, Steps, Lists
<1>2. page.lists[l].via \notin failed'
  BY DEF HistoryStep, Inked
<1>3. ASSUME NEW v \in Changes', v.list = l PROVE v.words # 0
  <2>1. v.verb = "put"
    <3>1. page'.lists[l].keyed
      BY <1>1
    <3>2. ChangeOK(v)' /\ v.list = l /\ GoodList(page, l)
      BY <1>1, <1>3, PageFacts DEF Shape, RequestOK, Changes, Lists
    <3>3. v.verb \in Verbs(l)
      BY <1>1, <3>2 DEF ChangeOK, Verbs
    <3>4. QED
      BY <3>2, <3>3 DEF Verbs, GoodList
  <2>2. CASE \E w \in Changes : SameChange(v, w)
    BY <1>3, <2>2 DEF Inked, SameChange
  <2>3. CASE NewChange(v)
    <3>1. \/ v.words = sent + 1
          \/ Usable /\ \E i \in DOMAIN view[l] : view[l][i].words = v.words
      BY <1>3, <2>1, <2>3 DEF NewChange
    <3>2. ASSUME Usable, NEW i \in DOMAIN view[l], view[l][i].words = 0 PROVE FALSE
      <4>1. page.lists[l].blank /\ page.lists[l].via \notin got /\ page.lists[l].via \notin failed
        BY <3>2 DEF Inked
      <4>2. page.gate /\ page.lists[l].via \in page.awaited
        BY <1>1, <4>1, PageFacts DEF Shape, Lists, GoodList
      <4>3. page.awaited \subseteq got \union failed
        BY <3>2, <4>2 DEF Usable, Loading
      <4>4. QED
        BY <4>1, <4>2, <4>3
    <3>3. sent + 1 # 0
      BY <1>1
    <3>4. QED
      BY <3>1, <3>2, <3>3
  <2>4. QED
    BY <2>2, <2>3 DEF Steps, ChangesStep
<1>4. ASSUME NEW w \in Changes PROVE /\ w.list = l => w.verb = "put"
                                     /\ w.verb = "accept" => page.lists[w.list].joins # l
  BY <1>1, TextsAreSaved
<1>5. ASSUME NEW r \in store'[l] PROVE r.words # 0
  <2>1. StoredKept(l, r)
    BY <1>4 DEF Steps, StoreStep, StoredNew, Adding
  <2>2. QED
    BY <2>1 DEF StoredKept, Inked
<1>6. ASSUME NEW q \in Served', NEW r \in q.rows[l] PROVE r.words # 0
  BY <1>6 DEF Steps, LoadsStep, Inked
<1>7. ASSUME NEW k \in DOMAIN view'[l], view'[l][k].words = 0
      PROVE  page.lists[l].blank /\ page.lists[l].via \notin got'
  <2>1. PICK x : x = view'[l][k]
    OBVIOUS
  <2>2. RowStep(l, x) /\ x.words = 0
    BY <1>7, <2>1 DEF Steps, ViewStep
  <2>3. CASE KeptRow(l, x)
    <3>a. ~page.lists[l].filled
      BY <1>1, PageFacts DEF Shape, Lists, GoodList
    <3>1. PICK i \in DOMAIN view[l] :
             x.words = view[l][i].words \/ \E w \in Changes \union Changes' : w.list = l /\ w.words = x.words
      BY <2>3, <3>a DEF KeptRow
    <3>2. x.words = view[l][i].words
      BY <1>3, <2>2, <3>1 DEF Inked
    <3>3. QED
      BY <2>2, <2>3, <3>2 DEF Inked, KeptRow
  <2>4. CASE LoadedRow(l, x)
    BY <2>2, <2>4 DEF LoadedRow, Seen, Inked
  <2>5. CASE AddedRow(l, x)
    BY <1>4, <2>5 DEF AddedRow
  <2>6. CASE BlankRow(l, x)
    BY <2>6 DEF BlankRow
  <2>7. QED
    BY <2>2, <2>3, <2>4, <2>5, <2>6 DEF RowStep
<1>8. QED
  BY <1>1, <1>2, <1>3, <1>5, <1>6, <1>7 DEF Inked

Texts == Sound /\ WholeHistory(history) /\ Words

LEMMA TextsAtFirst ==
  ASSUME PagesInit
  PROVE  Texts
<1>1. /\ got = {} /\ failed = {} /\ requests = {} /\ history = [crossed |-> {}, blanked |-> {}, grown |-> {}]
      /\ view = [l \in Lists |-> <<>>]
      /\ store = [l \in Lists |-> {Place(Row(i, i), i) : i \in FirstIds(page.lists[l])}]
  BY DEF PagesInit
<1>2. Changes = {} /\ Served = {}
  BY <1>1 DEF Changes, Served, Pending
<1>3. \A l \in Lists : \A r \in store[l] : r.words # 0
  <2>1. \A l \in Lists : \A r \in store[l] : r.id \in {1, 2} /\ r.words = r.id
    BY <1>1, FirstRows
  <2>2. QED
    BY <2>1
<1>4. \A l \in Lists : DOMAIN view[l] = {}
  BY <1>1
<1>5. Words
  BY <1>1, <1>2, <1>3, <1>4 DEF Words, Inked
<1>6. WholeHistory(history)
  BY <1>1 DEF WholeHistory
<1>7. QED
  BY <1>5, <1>6, SoundAtFirst DEF Texts

LEMMA TextsAlways == PagesSpec => []Texts
<1>1. PagesInit => Texts
  BY TextsAtFirst
<1>2. Texts /\ PagesNext => Texts'
  <2> SUFFICES ASSUME Texts, PagesNext PROVE Texts'
    OBVIOUS
  <2>1. Sound' /\ Shape' /\ Steps /\ HistoryStep
    BY EveryStep, NumberedAgain, FreshAgain, HistorySteps DEF Texts, Sound
  <2>2. Lists' = Lists /\ page' = page
    BY <2>1 DEF Steps, Lists
  <2>3. ASSUME NEW l \in Lists, l \notin history'.blanked, page.lists[l].keyed PROVE Inked(l)'
    <3>1. Inked(l)
      BY <2>1, <2>3 DEF Texts, Words, HistoryStep
    <3>2. QED
      BY <2>1, <2>3, <3>1, InkedAgain DEF Texts
  <2>4. Words'
    BY <2>2, <2>3 DEF Words
  <2>5. QED
    BY <2>1, <2>4 DEF Texts, HistoryStep
<1>3. Texts /\ UNCHANGED productionVars => Texts'
  <2> SUFFICES ASSUME Texts, UNCHANGED productionVars PROVE Texts'
    OBVIOUS
  <2>1. /\ page' = page /\ open' = open /\ view' = view /\ got' = got /\ failed' = failed /\ store' = store
        /\ requests' = requests /\ sent' = sent /\ history' = history
    BY DEF productionVars, pageVars, counters
  <2>2. Sound'
    BY <2>1 DEF Texts, Sound, Shape, Numbered, Fresh, Changes, Served, Adding,
         Pending, RequestOK, LoadOK, ChangeOK, Verbs, GoodStore, Lists, Ids
  <2>3. Words'
    BY <2>1 DEF Texts, Words, Inked, Changes, Served, Pending, Lists
  <2>4. QED
    BY <2>1, <2>2, <2>3 DEF Texts
<1>4. QED
  BY <1>1, <1>2, <1>3, PTL DEF PagesSpec

(* Nobody's saved text is blanked by a page that has not loaded it, unless its load    *)
(* failed.                                                                             *)
THEOREM NothingIsBlanked == PagesSpec => []AloneNothingIsBlanked
<1>1. Texts => AloneNothingIsBlanked
  BY DEF Texts, Words, Inked, AloneNothingIsBlanked
<1>2. QED
  BY <1>1, TextsAlways, PTL

(* On a page with a spinner, nothing of the user's is on its way before what is        *)
(* awaited has come or failed, and no load is on its way twice or comes back.          *)
Waited ==
  /\ ~open => Pending = {} /\ \A w \in Changes : ~w.mine
  /\ page.gate =>
       /\ \A w \in Changes : w.mine => page.awaited \subseteq got \union failed
       /\ \A q \in Pending : q.via \notin got \union failed
       /\ \A q, p \in Pending : q.via = p.via => q = p

LEMMA MineOnes ==
  ASSUME Shape, Waited, Steps, NEW v \in Changes', v.mine
  PROVE  /\ open /\ (page.gate => page.awaited \subseteq got \union failed)
         /\ sent' = sent => \E w \in Changes : w.mine /\ SameChange(v, w)
<1>1. CASE \E w \in Changes : SameChange(v, w)
  <2>1. PICK w \in Changes : SameChange(v, w) /\ w.mine
    BY <1>1 DEF SameChange
  <2>2. QED
    BY <2>1 DEF Waited
<1>2. CASE sent' = sent + 1 /\ NewChange(v)
  <2>1. Usable
    BY <1>2 DEF NewChange
  <2>2. open /\ (page.gate => page.awaited \subseteq got \union failed)
    BY <2>1 DEF Usable, Loading
  <2>3. CASE \E w \in Changes : SameChange(v, w)
    BY <1>1, <2>3
  <2>4. QED
    BY <1>2, <2>2 DEF Shape
<1>3. QED
  BY <1>1, <1>2 DEF Steps, ChangesStep

(* The same, where the page is as it was and no load is sent.                          *)
LEMMA WaitedKept ==
  ASSUME Shape, Waited, Steps, open' = open, got' = got, failed' = failed, Pending' \subseteq Pending
  PROVE  Waited'
<1>1. page' = page
  BY DEF Steps
<1>2. \A v \in Changes' : v.mine => open /\ (page.gate => page.awaited \subseteq got \union failed)
  BY MineOnes
<1>3. QED
  BY <1>1, <1>2 DEF Waited

LEMMA ReloadingPages ==
  ASSUME Shape, NEW w \in Changes, page.gate
  PROVE  Reloaded(w) = {}
<1>1. GoodList(page, w.list) /\ w.verb \in Verbs(w.list)
  BY ChangeIsOK, PageFacts DEF Shape, Lists
<1>2. page.lists[w.list].shows # "reload" /\ w.verb # "accept"
  BY <1>1 DEF GoodList, Verbs
<1>3. QED
  BY <1>2 DEF Reloaded

(* What a step leaves of the loads that are on their way.                             *)
LEMMA UserSends ==
  ASSUME NEW l, Add(l) \/ Edit(l) \/ RemoveRow(l) \/ Choose(l) \/ Reorder(l)
  PROVE  Usable /\ \E w : SendChange(w) /\ w.verb # "get"
<1>1. \A verb, m, row, words, s : /\ Request(verb, m, row, words).verb = verb
                                  /\ [Request(verb, m, row, words) EXCEPT !.ids = s].verb = verb
  BY DEF Request
<1>2. ASSUME Add(l) PROVE \E w : SendChange(w) /\ w.verb # "get"
  BY <1>1, <1>2 DEF Add
<1>3. ASSUME Edit(l) PROVE \E w : SendChange(w) /\ w.verb # "get"
  <2>1. \E i \in DOMAIN view[l] : \E words \in {view[l][i].words, sent + 1} :
          SendChange(Request("put", l, view[l][i].id, words))
    BY <1>3 DEF Edit
  <2>2. "put" # "get"
    OBVIOUS
  <2>3. QED
    BY <1>1, <2>1, <2>2
<1>4. ASSUME RemoveRow(l) PROVE \E w : SendChange(w) /\ w.verb # "get"
  BY <1>1, <1>4 DEF RemoveRow
<1>5. ASSUME Choose(l) PROVE \E w : SendChange(w) /\ w.verb # "get"
  <2>1. \E i \in DOMAIN view[l] : SendChange(Request("choose", l, view[l][i].id, 0))
    BY <1>5 DEF Choose
  <2>2. "choose" # "get"
    OBVIOUS
  <2>3. QED
    BY <1>1, <2>1, <2>2
<1>6. ASSUME Reorder(l) PROVE \E w : SendChange(w) /\ w.verb # "get"
  <2>1. PICK s : SendChange([Request("reorder", l, 0, 0) EXCEPT !.ids = s])
    BY <1>6 DEF Reorder
  <2>2. PICK w : w = [Request("reorder", l, 0, 0) EXCEPT !.ids = s]
    OBVIOUS
  <2>3. SendChange(w) /\ w.verb # "get"
    BY <1>1, <2>1, <2>2
  <2>4. QED
    BY <2>3
<1>7. Usable
  BY DEF Add, Edit, RemoveRow, Choose, Reorder, Can
<1>8. QED
  BY <1>2, <1>3, <1>4, <1>5, <1>6, <1>7

LEMMA OthersSend ==
  ASSUME Shape, NEW l \in Lists, Other(l)
  PROVE  \E w : w.verb # "get" /\ requests' = requests \union {w}
<1>1. page.lists[l].api \subseteq {"post", "put", "delete", "choose", "reorder"}
  BY PageFacts DEF Shape, Lists, GoodList
<1>2. \A verb, row, words : [Request(verb, l, row, words) EXCEPT !.mine = FALSE].verb = verb
  BY DEF Request
<1>3. PICK verb \in page.lists[l].api, r \in store[l] :
        requests' = requests \union
          {[Request(verb, l, IF verb = "post" THEN sent + 1 ELSE r.id, sent + 1) EXCEPT !.mine = FALSE]}
  BY DEF Other
<1>4. PICK w : w = [Request(verb, l, IF verb = "post" THEN sent + 1 ELSE r.id, sent + 1) EXCEPT !.mine = FALSE]
  OBVIOUS
<1>5. w.verb = verb /\ verb # "get"
  BY <1>1, <1>2, <1>4
<1>6. QED
  BY <1>3, <1>4, <1>5

LEMMA ServedLoad ==
  ASSUME Shape, NEW q \in requests, LoadServed(q)
  PROVE  \E p : p.via = q.via /\ Pending' = (Pending \ {q}) \union {p} /\ q \in Pending
<1>1. PICK p : p = [q EXCEPT !.stage = "done", !.rows = store]
  OBVIOUS
<1>2. requests' = (requests \ {q}) \union {p} /\ q \in Pending
  BY <1>1 DEF LoadServed, Pending
<1>3. LoadOK(q)
  BY <1>2 DEF Shape, RequestOK, Pending
<1>4. p.verb = "get" /\ p.via = q.via
  BY <1>1, <1>3 DEF LoadOK
<1>5. Pending' = (Pending \ {q}) \union {p}
  BY <1>2, <1>4 DEF Pending
<1>6. QED
  BY <1>2, <1>4, <1>5

LEMMA SettledLoad ==
  ASSUME Shape, NEW q \in requests, Loaded(q) \/ LoadFailed(q)
  PROVE  \A p \in Pending' : p \in Pending /\ p # q
<1>1. ASSUME Loaded(q), NEW p \in Pending' PROVE p \in Pending /\ p # q
  <2>1. p \in Detached(q.via) /\ p # q /\ p.verb = "get"
    BY <1>1 DEF Loaded, Pending
  <2>2. PICK r \in requests : p = IF r.verb # "get" /\ r.mine /\ page.lists[r.list].via = q.via
                                  THEN [r EXCEPT !.inHand = FALSE] ELSE r
    BY <2>1 DEF Detached
  <2>3. CASE r.verb # "get" /\ r.mine /\ page.lists[r.list].via = q.via
    <3>1. p.verb = r.verb
      BY <2>2, <2>3, ChangeFields, OutOfHand DEF SameRequest
    <3>2. QED
      BY <2>1, <2>3, <3>1
  <2>4. QED
    BY <2>1, <2>2, <2>3 DEF Pending
<1>2. ASSUME LoadFailed(q), NEW p \in Pending' PROVE p \in Pending /\ p # q
  BY <1>2 DEF LoadFailed, Pending
<1>3. QED
  BY <1>1, <1>2

LEMMA ServedChange ==
  ASSUME Shape, NEW w \in requests, Write(w) \/ ChooseFind(w) \/ ChooseLock(w) \/ ChooseCommit(w) \/ Fail(w)
  PROVE  Pending' \subseteq Pending
<1>1. w \in Changes
  BY DEF Write, ChooseFind, ChooseLock, ChooseCommit, Fail, Changes
<1>2. \A s, z : [w EXCEPT !.stage = s].verb # "get" /\ [w EXCEPT !.stage = s, !.seen = z].verb # "get"
  BY <1>1, ChangeIsOK DEF ChangeOK, Changes
<1>3. Serve(w) => Pending' \subseteq Pending
  BY <1>2 DEF Serve, Pending
<1>4. /\ \A s, z : requests' = (requests \ {w}) \union {[w EXCEPT !.stage = s, !.seen = z]} => Pending' \subseteq Pending
      /\ \A s : requests' = (requests \ {w}) \union {[w EXCEPT !.stage = s]} => Pending' \subseteq Pending
  BY <1>2 DEF Pending
<1>5. requests' = requests \ {w} => Pending' \subseteq Pending
  BY DEF Pending
<1>6. CASE ChooseFind(w)
  BY <1>3, <1>4, <1>6 DEF ChooseFind
<1>7. CASE ChooseLock(w)
  BY <1>4, <1>7 DEF ChooseLock
<1>8. CASE Write(w) \/ ChooseCommit(w) \/ Fail(w)
  BY <1>3, <1>5, <1>8 DEF Write, ChooseCommit, Fail
<1>9. QED
  BY <1>6, <1>7, <1>8

LEMMA WaitedAgain ==
  ASSUME Sound, Waited, Steps, PagesNext
  PROVE  Waited'
<1>1. Shape /\ page' = page
  BY DEF Sound, Steps
<1>2. ASSUME Open PROVE Waited'
  <2>1. /\ ~open /\ open' /\ got' = {} /\ failed' = {} /\ sent' = sent
        /\ requests' = requests \union {LoadRequest(0, g) : g \in page.gets}
    BY <1>2 DEF Open
  <2>2. Pending = {} /\ \A w \in Changes : ~w.mine
    BY <2>1 DEF Waited
  <2>3. \A g \in page.gets : LoadRequest(0, g).verb = "get" /\ LoadRequest(0, g).via = g
    BY DEF LoadRequest
  <2>4. \A q \in Pending' : \E g \in page.gets : q = LoadRequest(0, g)
    BY <2>1, <2>2 DEF Pending
  <2>5. \A w \in Changes' : w \in Changes
    BY <2>1, <2>3 DEF Changes
  <2>6. \A q, p \in Pending' : q.via = p.via => q = p
    BY <2>3, <2>4
  <2>7. QED
    BY <1>1, <2>1, <2>2, <2>5, <2>6 DEF Waited
<1>3. ASSUME Close PROVE Waited'
  <2>1. /\ got' = got /\ failed' = failed /\ ~open'
        /\ requests' = {[q EXCEPT !.mine = FALSE] : q \in Changes}
    BY <1>3 DEF Close, Changes
  <2>2. \A q \in requests' : q.verb # "get" /\ ~q.mine
    <3>1. \A w \in Changes : \E v : /\ v = [w EXCEPT !.mine = FALSE]
                                    /\ v.verb # "get" /\ ~v.mine
      BY <1>1, ChangeIsOK, NotMine DEF Changes, SameRequest
    <3>2. QED
      BY <2>1, <3>1
  <2>3. QED
    BY <2>1, <2>2 DEF Waited, Pending, Changes
<1>4. ASSUME NEW w, SendChange(w), w.verb # "get" PROVE Waited'
  <2>1. Pending' \subseteq Pending /\ open' = open /\ got' = got /\ failed' = failed
    BY <1>4 DEF SendChange, Pending
  <2>2. QED
    BY <1>1, <2>1, WaitedKept
<1>5. ASSUME NEW l \in Lists, Add(l) \/ Edit(l) \/ RemoveRow(l) \/ Choose(l) \/ Reorder(l)
      PROVE  Waited'
  <2>1. PICK w : SendChange(w) /\ w.verb # "get"
    BY <1>5, UserSends
  <2>2. QED
    BY <1>4, <2>1
<1>e. ASSUME NEW l \in Lists, LeaveEmpty(l) PROVE Waited'
  <2>1. open' = open /\ got' = got /\ failed' = failed /\ requests' = requests
    BY <1>1, <1>e, Emptied
  <2>2. Pending' \subseteq Pending
    BY <2>1 DEF Pending
  <2>3. QED
    BY <1>1, <2>1, <2>2, WaitedKept
<1>6. ASSUME NEW l \in Lists, Other(l) PROVE Waited'
  <2>1. PICK w : w.verb # "get" /\ requests' = requests \union {w}
    BY <1>1, <1>6, OthersSend
  <2>2. Pending' \subseteq Pending /\ open' = open /\ got' = got /\ failed' = failed
    BY <1>6, <2>1 DEF Other, Pending, pageVars
  <2>3. QED
    BY <1>1, <2>2, WaitedKept
<1>7. ASSUME NEW q \in requests, LoadServed(q) PROVE Waited'
  <2>1. PICK p : p.via = q.via /\ Pending' = (Pending \ {q}) \union {p} /\ q \in Pending
    BY <1>1, <1>7, ServedLoad
  <2>2. open' = open /\ got' = got /\ failed' = failed
    BY <1>7 DEF LoadServed, pageVars
  <2>3. \A v \in Changes' : v.mine => open /\ (page.gate => page.awaited \subseteq got \union failed)
    BY <1>1, MineOnes
  <2>4. QED
    BY <1>1, <2>1, <2>2, <2>3 DEF Waited
<1>8. ASSUME NEW q \in requests, Loaded(q) \/ LoadFailed(q) PROVE Waited'
  <2>1. /\ open' = open /\ q \in Pending /\ got \subseteq got' /\ failed \subseteq failed'
        /\ got' \union failed' \subseteq got \union failed \union {q.via}
    BY <1>8 DEF Loaded, LoadFailed, Pending
  <2>2. \A p \in Pending' : p \in Pending /\ p # q
    BY <1>1, <1>8, SettledLoad
  <2>3. \A v \in Changes' : v.mine => open /\ (page.gate => page.awaited \subseteq got \union failed)
    BY <1>1, MineOnes
  <2>4. open
    BY <2>1 DEF Waited
  <2>5. QED
    BY <1>1, <2>1, <2>2, <2>3, <2>4 DEF Waited
<1>9. ASSUME NEW w \in requests, Write(w) \/ ChooseFind(w) \/ ChooseLock(w) \/ ChooseCommit(w) \/ Fail(w)
      PROVE  Waited'
  <2>1. open' = open /\ got' = got /\ failed' = failed
    BY <1>9 DEF Write, ChooseFind, ChooseLock, ChooseCommit, Fail, pageVars
  <2>2. Pending' \subseteq Pending
    BY <1>1, <1>9, ServedChange
  <2>3. QED
    BY <1>1, <2>1, <2>2, WaitedKept
<1>10. ASSUME NEW w \in requests, ChangeAnswered(w) PROVE Waited'
  <2>1. /\ open' = open /\ got' = got /\ failed' = failed /\ w \in Changes
        /\ requests' = (requests \ {w}) \union {LoadRequest(w.n, g) : g \in IF w.mine THEN Reloaded(w) ELSE {}}
    BY <1>10 DEF ChangeAnswered, pageVars, Changes
  <2>2. CASE page.gate \/ ~w.mine
    <3>1. Pending' \subseteq Pending
      BY <1>1, <2>1, <2>2, ReloadingPages DEF Pending
    <3>2. QED
      BY <1>1, <2>1, <3>1, WaitedKept
  <2>3. CASE ~page.gate /\ w.mine
    <3>1. open
      BY <2>1, <2>3 DEF Waited
    <3>2. QED
      BY <1>1, <2>1, <2>3, <3>1 DEF Waited
  <2>4. QED
    BY <2>2, <2>3
<1>11. QED
  BY <1>2, <1>3, <1>5, <1>e, <1>6, <1>7, <1>8, <1>9, <1>10 DEF PagesNext

(* What the answers, the user and the loads make of the rows that a list shows.        *)
Apart(s) == \A i, j \in DOMAIN s : s[i].id = s[j].id => i = j
OneIn(s) == \A i, j \in DOMAIN s : s[i].chosen /\ s[j].chosen => i = j

Arranged(t, s) ==
  /\ Apart(s) => Apart(t)
  /\ Apart(s) /\ OneIn(s) => OneIn(t)
  /\ \A k \in DOMAIN t : \E i \in DOMAIN s : t[k].id = s[i].id

Added(t, s, id) ==
  /\ Apart(s) /\ (\A i \in DOMAIN s : s[i].id # id) => Apart(t)
  /\ OneIn(s) => OneIn(t)
  /\ \A k \in DOMAIN t : t[k].id = id \/ \E i \in DOMAIN s : t[k].id = s[i].id

Chooses(l) == "choose" \in page.lists[l].api

ViewChoice(l) ==
  \/ Arranged(view'[l], view[l])
  \/ \E w \in Changes :
       /\ w.mine /\ w.verb = "post" /\ w.list = l /\ \A v \in Changes' : v.n # w.n
       /\ Added(view'[l], view[l], w.n)
  \/ /\ sent' = sent
     /\ \E q \in Served : q.via = page.lists[l].via /\ view'[l] = Listing(page.lists[l], q.rows[l])
  \/ view'[l] = <<>>

StoreChoice(l) ==
  \/ \A r \in store'[l] : \E s \in store[l] : r.id = s.id /\ (r.chosen => s.chosen)
  \/ /\ \E new : ~new.chosen /\ store'[l] = store[l] \union {new}
     /\ l \in history'.grown \/ \A w \in Changes : w.list = l => w.stage \notin {"seen", "locked"}
  \/ \E w \in Changes :
       /\ w.list = l /\ w.verb = "choose" /\ w.stage = "locked"
       /\ Ids(store'[l]) = Ids(store[l])
       /\ \A r \in store'[l] : r.chosen => r.id = w.row \/ r.id \in Ids(store[l]) \ w.seen

Choosers(l) == {w \in Changes : w.list = l /\ w.verb = "choose" /\ w.stage \in {"seen", "locked"}}
SeenStep(l) ==
  \A v \in Choosers(l)' : \/ \E u \in Choosers(l) : u.seen = v.seen
                          \/ store' = store /\ v.seen = Ids(store[l])

LEMMA SameArranged == \A s : Arranged(s, s)
BY DEF Arranged

LEMMA DrawnArranged ==
  ASSUME NEW s, NEW t, NEW g,
         \A j, k \in DOMAIN t : g[j] = g[k] => j = k,
         \A k \in DOMAIN t : g[k] \in DOMAIN s /\ t[k].id = s[g[k]].id /\ t[k].chosen = s[g[k]].chosen
  PROVE  Arranged(t, s)
<1>1. Apart(s) => Apart(t)
  BY DEF Apart
<1>2. OneIn(s) => OneIn(t)
  BY DEF OneIn
<1>3. QED
  BY <1>1, <1>2 DEF Arranged

LEMMA EditArranged ==
  ASSUME NEW s \in Seq(ShownRow), NEW i \in DOMAIN s, NEW words \in Nat
  PROVE  Arranged([s EXCEPT ![i].words = words], s)
<1>1. PICK t : t = [s EXCEPT ![i].words = words]
  OBVIOUS
<1>2. DOMAIN t = DOMAIN s /\ \A k \in DOMAIN s : t[k].id = s[k].id /\ t[k].chosen = s[k].chosen
  BY <1>1, EditedRow
<1>3. Arranged(t, s)
  BY <1>2 DEF Arranged, Apart, OneIn
<1>4. QED
  BY <1>1, <1>3

LEMMA RemoveArranged ==
  ASSUME NEW s \in Seq(ShownRow), NEW i \in DOMAIN s
  PROVE  Arranged(RemoveAt(s, i), s)
<1>1. PICK t : t = RemoveAt(s, i)
  OBVIOUS
<1>2. /\ t \in Seq(ShownRow) /\ Len(t) = Len(s) - 1
      /\ \A k \in 1..(Len(s) - 1) : t[k] = IF k < i THEN s[k] ELSE s[k + 1]
  BY <1>1, Removed
<1>3. /\ DOMAIN t = 1..(Len(s) - 1) /\ DOMAIN s = 1..Len(s) /\ Len(s) \in Nat
  BY <1>2
<1>4. PICK g : g = [k \in DOMAIN t |-> IF k < i THEN k ELSE k + 1]
  OBVIOUS
<1>5. \A k \in DOMAIN t : g[k] \in DOMAIN s /\ t[k] = s[g[k]]
  BY <1>2, <1>3, <1>4
<1>6. \A j, k \in DOMAIN t : g[j] = g[k] => j = k
  BY <1>3, <1>4
<1>7. Arranged(t, s)
  BY <1>5, <1>6, DrawnArranged
<1>8. QED
  BY <1>1, <1>7

LEMMA ChooseArranged ==
  ASSUME NEW s \in Seq(ShownRow), NEW id
  PROVE  Arranged(Choosing(s, id), s)
<1>1. PICK t : t = Choosing(s, id)
  OBVIOUS
<1>2. /\ DOMAIN t = DOMAIN s
      /\ \A k \in DOMAIN s : t[k].id = s[k].id /\ (t[k].chosen <=> s[k].id = id)
  BY <1>1, ChosenRow
<1>3. Arranged(t, s)
  BY <1>2 DEF Arranged, Apart, OneIn
<1>4. QED
  BY <1>1, <1>3

LEMMA JoinAdded ==
  ASSUME NEW list, NEW s \in Seq(ShownRow), NEW row \in ShownRow, ~row.chosen
  PROVE  Added(Joined(list, s, row), s, row.id)
<1>1. PICK t : t = Joined(list, s, row)
  OBVIOUS
<1>2. <<row>> \in Seq(ShownRow) /\ Len(<<row>>) = 1 /\ <<row>>[1] = row /\ Len(s) \in Nat /\ DOMAIN s = 1..Len(s)
  OBVIOUS
<1>3. \E g : /\ DOMAIN t = 1..(Len(s) + 1)
             /\ \A j, k \in DOMAIN t : g[j] = g[k] => j = k
             /\ \A k \in DOMAIN t : \/ g[k] \in DOMAIN s /\ t[k] = s[g[k]]
                                    \/ g[k] = 0 /\ t[k] = row
  <2>1. CASE list.latest
    <3>1. t = <<row>> \o s
      BY <1>1, <2>1 DEF Joined
    <3>2. /\ t \in Seq(ShownRow) /\ Len(t) = 1 + Len(s)
          /\ \A k \in 1..(1 + Len(s)) : t[k] = IF k <= 1 THEN row ELSE s[k - 1]
      BY <1>2, <3>1, Concatenated
    <3>3. PICK g : g = [k \in DOMAIN t |-> k - 1]
      OBVIOUS
    <3>4. DOMAIN t = 1..(Len(s) + 1)
      BY <1>2, <3>2
    <3>5. \A j, k \in DOMAIN t : g[j] = g[k] => j = k
      BY <1>2, <3>3, <3>4
    <3>6. \A k \in DOMAIN t : \/ g[k] \in DOMAIN s /\ t[k] = s[g[k]]
                              \/ g[k] = 0 /\ t[k] = row
      BY <1>2, <3>2, <3>3, <3>4
    <3>7. QED
      BY <3>4, <3>5, <3>6
  <2>2. CASE ~list.latest
    <3>1. t = Append(s, row)
      BY <1>1, <2>2 DEF Joined
    <3>2. /\ DOMAIN t = 1..(Len(s) + 1)
          /\ \A k \in 1..(Len(s) + 1) : t[k] = IF k <= Len(s) THEN s[k] ELSE row
      BY <1>2, <3>1
    <3>3. PICK g : g = [k \in DOMAIN t |-> IF k <= Len(s) THEN k ELSE 0]
      OBVIOUS
    <3>5. \A j, k \in DOMAIN t : g[j] = g[k] => j = k
      BY <1>2, <3>2, <3>3
    <3>6. \A k \in DOMAIN t : \/ g[k] \in DOMAIN s /\ t[k] = s[g[k]]
                              \/ g[k] = 0 /\ t[k] = row
      BY <1>2, <3>2, <3>3
    <3>7. QED
      BY <3>2, <3>5, <3>6
  <2>3. QED
    BY <2>1, <2>2
<1>4. PICK g : /\ \A j, k \in DOMAIN t : g[j] = g[k] => j = k
               /\ \A k \in DOMAIN t : \/ g[k] \in DOMAIN s /\ t[k] = s[g[k]]
                                      \/ g[k] = 0 /\ t[k] = row
  BY <1>3
<1>5. Apart(s) /\ (\A i \in DOMAIN s : s[i].id # row.id) => Apart(t)
  BY <1>4 DEF Apart
<1>6. OneIn(s) => OneIn(t)
  BY <1>4 DEF OneIn
<1>7. Added(t, s, row.id)
  BY <1>4, <1>5, <1>6 DEF Added
<1>8. QED
  BY <1>1, <1>7

(* A list with a choice is alone on its page.                                          *)
LEMMA ChoosingPage ==
  ASSUME Shape, NEW l \in Lists, Chooses(l)
  PROVE  /\ Lists = {l} /\ page.gate /\ page.gets = {page.lists[l].via} /\ page.awaited = {page.lists[l].via}
         /\ page.lists[l].shows = "at once" /\ page.lists[l].joins = 0
         /\ ~page.lists[l].keyed /\ "reorder" \notin page.lists[l].api
<1>1. GoodList(page, l)
  BY PageFacts DEF Shape, Lists
<1>2. QED
  BY <1>1 DEF GoodList, Chooses, Lists

LEMMA SendChoice ==
  ASSUME Shape, NEW l \in Lists, NEW w, requests' = requests \union {w}, store' = store, w.stage = "sent"
  PROVE  StoreChoice(l) /\ SeenStep(l)
<1>1. StoreChoice(l)
  BY DEF StoreChoice
<1>2. \A v \in Choosers(l)' : v \in Choosers(l)
  BY DEF Choosers, Changes
<1>3. QED
  BY <1>1, <1>2 DEF SeenStep

ChoiceStep(l) == ViewChoice(l) /\ StoreChoice(l) /\ SeenStep(l)

LEMMA RequestSent ==
  \A verb, l, row, words :
    /\ Request(verb, l, row, words).stage = "sent"
    /\ [Request(verb, l, row, words) EXCEPT !.mine = FALSE].stage = "sent"
BY DEF Request

LEMMA UserChoice ==
  ASSUME Sound, NEW l \in Lists, Chooses(l), NEW m \in Lists,
         Add(m) \/ Edit(m) \/ LeaveEmpty(m) \/ RemoveRow(m) \/ Choose(m) \/ Reorder(m) \/ Other(m)
  PROVE  ChoiceStep(l)
<1>0. m = l /\ page.lists[l].shows = "at once" /\ page.lists[l].joins = 0 /\ ~Reorder(l)
  BY ChoosingPage DEF Reorder, Can, Sound
<1>1. /\ m = l /\ page.lists[l].shows = "at once" /\ page.lists[l].joins = 0 /\ ~Reorder(l) /\ Shape
      /\ view \in [Lists -> Seq(ShownRow)] /\ view[l] \in Seq(ShownRow) /\ sent \in Nat
  BY <1>0, ShownFields DEF Sound, Shape
<1>w. \A i \in DOMAIN view[l] : view[l][i].words \in Nat
  BY ShownFields DEF Sound
<1>2. view' = view => ViewChoice(l)
  BY SameArranged DEF ViewChoice
<1>3. ASSUME NEW w, SendChange(w), w.stage = "sent" PROVE StoreChoice(l) /\ SeenStep(l)
  BY <1>1, <1>3, SendChoice DEF SendChange
<1>4. CASE Add(l)
  <2>1. StoreChoice(l) /\ SeenStep(l)
    BY <1>3, <1>4, RequestSent DEF Add
  <2>2. QED
    BY <1>2, <1>4, <2>1 DEF Add, ChoiceStep
<1>5. CASE Edit(l)
  <2>1. PICK i \in DOMAIN view[l] : \E words \in {view[l][i].words, sent + 1} :
          /\ SendChange(Request("put", l, view[l][i].id, words))
          /\ view' = IF page.lists[l].shows = "at once"
                     THEN [view EXCEPT ![l][i].words = words] ELSE view
    BY <1>5 DEF Edit
  <2>2. PICK words \in {view[l][i].words, sent + 1} :
          /\ SendChange(Request("put", l, view[l][i].id, words))
          /\ view' = IF page.lists[l].shows = "at once"
                     THEN [view EXCEPT ![l][i].words = words] ELSE view
    BY <2>1
  <2>3. words \in Nat /\ view'[l] = [view[l] EXCEPT ![i].words = words]
    <3>1. view' = [view EXCEPT ![l][i].words = words]
      BY <1>1, <2>2
    <3>2. words \in Nat
      <4>1. view[l][i].words \in Nat
        BY <1>w
      <4>a. sent + 1 \in Nat
        BY DEF Sound, Shape
      <4>2. words = view[l][i].words \/ words = sent + 1
        OBVIOUS
      <4>3. QED
        BY <4>1, <4>a, <4>2
    <3>3. QED
      BY <1>1, <3>1, <3>2
  <2>4. ViewChoice(l)
    <3>1. Arranged([view[l] EXCEPT ![i].words = words], view[l])
      BY <1>1, <2>3, EditArranged
    <3>2. QED
      BY <2>3, <3>1 DEF ViewChoice
  <2>5. QED
    BY <1>3, <2>2, <2>4, RequestSent DEF ChoiceStep
<1>e. CASE LeaveEmpty(l)
  <2>1. PICK t \in Seq(ShownRow) :
          /\ view' = [view EXCEPT ![l] = t] /\ DOMAIN t = DOMAIN view[l]
          /\ \A k \in DOMAIN t : t[k].id = view[l][k].id /\ t[k].chosen = view[l][k].chosen
    <3>1. LeaveEmpty(l) /\ Shape
      BY <1>1, <1>e
    <3>2. QED
      BY <3>1, Emptied
  <2>2. requests' = requests /\ store' = store
    BY <1>1, <1>e, Emptied
  <2>3. StoreChoice(l) /\ SeenStep(l)
    BY <2>2 DEF StoreChoice, SeenStep, Choosers, Changes
  <2>4. Arranged(t, view[l])
    BY <2>1 DEF Arranged, Apart, OneIn
  <2>5. ViewChoice(l)
    BY <1>1, <2>1, <2>4 DEF ViewChoice
  <2>6. QED
    BY <2>3, <2>5 DEF ChoiceStep
<1>6. CASE RemoveRow(l)
  <2>1. PICK i \in DOMAIN view[l] :
          /\ \E verb : SendChange(Request(verb, l, view[l][i].id, 0))
          /\ view' = [view EXCEPT ![l] = RemoveAt(@, i)]
    BY <1>1, <1>6 DEF RemoveRow
  <2>2. view'[l] = RemoveAt(view[l], i)
    BY <1>1, <2>1
  <2>3. ViewChoice(l)
    BY <1>1, <2>2, RemoveArranged DEF ViewChoice
  <2>4. QED
    BY <1>3, <2>1, <2>3, RequestSent DEF ChoiceStep
<1>7. CASE Choose(l)
  <2>1. PICK i \in DOMAIN view[l] :
          /\ SendChange(Request("choose", l, view[l][i].id, 0))
          /\ view' = [view EXCEPT ![l] = Choosing(@, view[l][i].id)]
    BY <1>7 DEF Choose
  <2>2. view'[l] = Choosing(view[l], view[l][i].id)
    BY <1>1, <2>1
  <2>3. ViewChoice(l)
    BY <1>1, <2>2, ChooseArranged DEF ViewChoice
  <2>4. QED
    BY <1>3, <2>1, <2>3, RequestSent DEF ChoiceStep
<1>8. CASE Other(l)
  <2>1. \E verb \in page.lists[l].api \ {"reorder"}, r \in store[l] :
          requests' = requests \union
            {[Request(verb, l, IF verb = "post" THEN sent + 1 ELSE r.id, sent + 1) EXCEPT !.mine = FALSE]}
    BY <1>8 DEF Other
  <2>a. PICK verb, row : requests' = requests \union {[Request(verb, l, row, sent + 1) EXCEPT !.mine = FALSE]}
    BY <2>1
  <2>b. PICK w : w = [Request(verb, l, row, sent + 1) EXCEPT !.mine = FALSE]
    OBVIOUS
  <2>2. requests' = requests \union {w} /\ w.stage = "sent"
    BY <2>a, <2>b, RequestSent
  <2>3. view' = view /\ store' = store
    BY <1>8 DEF Other, pageVars
  <2>4. QED
    BY <1>1, <1>2, <2>2, <2>3, SendChoice DEF ChoiceStep
<1>9. QED
  BY <1>1, <1>4, <1>5, <1>e, <1>6, <1>7, <1>8

(* No step but a choice of its own lets a request see more rows, or stop seeing.       *)
LEMMA NoneSeen ==
  ASSUME NEW l, \A v \in Choosers(l)' : \E u \in Choosers(l) : u.seen = v.seen
  PROVE  SeenStep(l)
BY DEF SeenStep

LEMMA StoreSame ==
  ASSUME NEW l, store' = store
  PROVE  StoreChoice(l)
BY DEF StoreChoice

LEMMA LoadChoice ==
  ASSUME Sound, NEW l \in Lists, Chooses(l),
         \/ Open \/ Close
         \/ \E q \in requests : LoadServed(q) \/ Loaded(q) \/ LoadFailed(q) \/ Fail(q)
  PROVE  ChoiceStep(l)
<1>1. Shape /\ page.gets = {page.lists[l].via} /\ ~page.lists[l].keyed
  BY ChoosingPage DEF Sound
<1>2. store' = store /\ StoreChoice(l)
  BY StoreSame DEF Open, Close, LoadServed, Loaded, LoadFailed, Fail
<1>3. ASSUME Open PROVE ViewChoice(l) /\ SeenStep(l)
  <2>1. view'[l] = <<>>
    BY <1>1, <1>3 DEF Open, Unloaded
  <2>2. \A g : LoadRequest(0, g).verb = "get"
    BY DEF LoadRequest
  <2>3. \A v \in Choosers(l)' : v \in Choosers(l)
    BY <1>3, <2>2 DEF Open, Choosers, Changes
  <2>4. QED
    BY <2>1, <2>3, NoneSeen DEF ViewChoice
<1>4. ASSUME Close PROVE ViewChoice(l) /\ SeenStep(l)
  <2>1. view' = view /\ requests' = {[w EXCEPT !.mine = FALSE] : w \in Changes}
    BY <1>4 DEF Close, Changes
  <2>3. ASSUME NEW v \in requests'
        PROVE  \E w \in Changes : SameRequest(v, w) /\ v.stage = w.stage /\ v.seen = w.seen
    <3>1. PICK w \in Changes : v = [w EXCEPT !.mine = FALSE]
      BY <2>1
    <3>2. ChangeOK(w)
      BY <1>1, ChangeIsOK
    <3>3. SameRequest(v, w) /\ v.stage = w.stage /\ v.seen = w.seen
      BY <3>1, <3>2, NotMine
    <3>4. QED
      BY <3>3
  <2>4. \A v \in Choosers(l)' : \E w \in Choosers(l) : w.seen = v.seen
    BY <2>3 DEF Choosers, SameRequest, Changes
  <2>5. QED
    BY <2>1, <2>4, NoneSeen, SameArranged DEF ViewChoice
<1>5. ASSUME NEW q \in requests, LoadServed(q) PROVE ViewChoice(l) /\ SeenStep(l)
  <2>1. view' = view /\ q \in Pending /\ LoadOK(q)
    BY <1>1, <1>5 DEF LoadServed, pageVars, Pending, Shape, RequestOK
  <2>2. PICK p : p = [q EXCEPT !.stage = "done", !.rows = store]
    OBVIOUS
  <2>3. p.verb = "get"
    BY <2>1, <2>2 DEF LoadOK
  <2>4. \A v \in Choosers(l)' : v \in Choosers(l)
    BY <1>5, <2>2, <2>3 DEF LoadServed, Choosers, Changes
  <2>5. QED
    BY <2>1, <2>4, NoneSeen, SameArranged DEF ViewChoice
<1>6. ASSUME NEW q \in requests, Loaded(q) PROVE ViewChoice(l) /\ SeenStep(l)
  <2>1. q \in Served /\ LoadOK(q) /\ sent' = sent
    BY <1>1, <1>6 DEF Loaded, Served, Pending, Shape, RequestOK, counters
  <2>2. q.via = page.lists[l].via
    BY <1>1, <2>1 DEF LoadOK
  <2>3. view'[l] = Listing(page.lists[l], q.rows[l])
    BY <1>6, <2>2 DEF Loaded
  <2>4. \A w \in Changes : \E v : /\ v = [w EXCEPT !.inHand = FALSE]
                                  /\ SameRequest(v, w) /\ v.stage = w.stage /\ v.seen = w.seen
    BY <1>1, ChangeIsOK, OutOfHand
  <2>5. \A v \in requests' : v.verb # "get" =>
          \E w \in Changes : SameRequest(v, w) /\ v.stage = w.stage /\ v.seen = w.seen
    <3> TAKE v \in requests'
    <3> HAVE v.verb # "get"
    <3>1. PICK r \in requests : v = IF r.verb # "get" /\ r.mine /\ page.lists[r.list].via = q.via
                                    THEN [r EXCEPT !.inHand = FALSE] ELSE r
      BY <1>6 DEF Loaded, Detached
    <3>2. CASE r.verb # "get" /\ r.mine /\ page.lists[r.list].via = q.via
      BY <2>4, <3>1, <3>2 DEF Changes
    <3>3. CASE ~(r.verb # "get" /\ r.mine /\ page.lists[r.list].via = q.via)
      BY <3>1, <3>3 DEF Changes, SameRequest
    <3>4. QED
      BY <3>2, <3>3
  <2>6. \A v \in Choosers(l)' : \E w \in Choosers(l) : w.seen = v.seen
    BY <2>5 DEF Choosers, SameRequest, Changes
  <2>7. QED
    BY <2>1, <2>2, <2>3, <2>6, NoneSeen DEF ViewChoice
<1>7. ASSUME NEW q \in requests, LoadFailed(q) \/ Fail(q) PROVE ViewChoice(l) /\ SeenStep(l)
  <2>1. view' = view /\ requests' \subseteq requests
    BY <1>7 DEF LoadFailed, Fail, pageVars
  <2>2. \A v \in Choosers(l)' : v \in Choosers(l)
    BY <2>1 DEF Choosers, Changes
  <2>3. QED
    BY <2>1, <2>2, NoneSeen, SameArranged DEF ViewChoice
<1>8. QED
  BY <1>2, <1>3, <1>4, <1>5, <1>6, <1>7 DEF ChoiceStep

LEMMA AnswerChoice ==
  ASSUME Sound, NEW l \in Lists, Chooses(l), NEW w \in requests, ChangeAnswered(w)
  PROVE  ChoiceStep(l)
<1>1. /\ Shape /\ Numbered /\ page.lists[l].shows = "at once" /\ w \in Changes /\ page.gate /\ Lists = {l}
      /\ w.list = l /\ w.row \in Nat /\ w.words \in Nat
      /\ w.verb = "post" => w.row = w.n
  <2>1. Shape /\ Numbered /\ w \in Changes
    BY DEF Sound, ChangeAnswered, Changes
  <2>2. QED
    BY <2>1, ChoosingPage, ChangeIsOK
<1>2. store' = store /\ StoreChoice(l)
  BY StoreSame DEF ChangeAnswered
<1>3. requests' = requests \ {w}
  BY <1>1, ReloadingPages DEF ChangeAnswered
<1>4. SeenStep(l)
  BY <1>3, NoneSeen DEF Choosers, Changes
<1>5. ViewChoice(l)
  <2>1. CASE w.mine /\ w.verb = "post"
    <3>1. PICK row : row = Row(w.row, w.words)
      OBVIOUS
    <3>2. row \in ShownRow /\ row.id = w.n /\ ~row.chosen
      BY <1>1, <2>1, <3>1, PlacedRow
    <3>3. view' = [view EXCEPT ![l] = Joined(page.lists[l], view[l], row)]
      BY <1>1, <2>1, <3>1 DEF ChangeAnswered, Shown
    <3>4. view[l] \in Seq(ShownRow) /\ view'[l] = Joined(page.lists[l], view[l], row)
      BY <1>1, <3>3 DEF Shape
    <3>5. Added(view'[l], view[l], w.n)
      BY <3>2, <3>4, JoinAdded
    <3>6. \A v \in Changes' : v.n # w.n
      BY <1>1, <1>3 DEF Changes, Numbered
    <3>7. QED
      BY <1>1, <2>1, <3>5, <3>6 DEF ViewChoice
  <2>2. CASE ~(w.mine /\ w.verb = "post")
    <3>1. view' = view
      BY <1>1, <2>2 DEF ChangeAnswered, Shown
    <3>2. QED
      BY <3>1, SameArranged DEF ViewChoice
  <2>3. QED
    BY <2>1, <2>2
<1>6. QED
  BY <1>2, <1>4, <1>5 DEF ChoiceStep

(* The requests that a served or waiting change leaves see what they saw.              *)
LEMMA SeenAsBefore ==
  ASSUME NEW l, NEW w, NEW v, requests' \subseteq (requests \ {w}) \union {v},
         v.stage \notin {"seen", "locked"} \/ v.verb = "get"
  PROVE  SeenStep(l)
BY NoneSeen DEF Choosers, Changes

LEMMA StoreWriteChoice ==
  ASSUME Sound, WholeHistory(history), NEW l \in Lists, Chooses(l), NEW w \in requests, Write(w)
  PROVE  StoreChoice(l)
<1>1. /\ Shape /\ w \in Changes /\ w.list = l /\ w.verb \in {"post", "put", "delete"} /\ l \in Lists
      /\ store' = Written(w) /\ w.words \in Nat /\ w.row \in Nat
      /\ w.verb = "post" => w.row = w.n
  <2>1. Shape /\ w \in Changes /\ w.verb # "choose" /\ store' = Written(w)
    BY DEF Sound, Write, Changes
  <2>2. w.list = l /\ w.verb \in Verbs(l) /\ page.lists[l].joins = 0 /\ "reorder" \notin page.lists[l].api
    BY <2>1, ChoosingPage, ChangeIsOK
  <2>3. w.verb \in {"post", "put", "delete"}
    <3>1. GoodList(page, l)
      BY <2>1, PageFacts DEF Shape, Lists
    <3>2. QED
      BY <2>1, <2>2, <3>1, VerbsOf DEF Verbs, GoodList
  <2>4. QED
    BY <2>1, <2>2, <2>3, ChangeIsOK
<1>2. store \in [Lists -> SUBSET StoredRow]
  BY <1>1 DEF Shape, GoodStore
<1>3. CASE w.verb = "post"
  <2>1. PICK new : new = Place(Row(w.row, w.words), NextPosition(store[l]))
    OBVIOUS
  <2>2. ~new.chosen
    BY <2>1 DEF Place, Row
  <2>3. store'[l] = store[l] \union {new}
    BY <1>1, <1>2, <1>3, <2>1 DEF Written
  <2>4. l \in history'.grown \/ \A c \in Changes : c.list = l => c.stage \notin {"seen", "locked"}
    <3>1. CASE \E c \in Writes(l) : c.stage \in {"seen", "locked"}
      <4>1. history' = [history EXCEPT !.grown = @ \union {l}]
        BY <1>1, <1>3, <3>1 DEF Write
      <4>2. QED
        BY <4>1, Recalled
    <3>2. CASE ~ \E c \in Writes(l) : c.stage \in {"seen", "locked"}
      BY <3>2 DEF Writes, Changes
    <3>3. QED
      BY <3>1, <3>2
  <2>5. QED
    BY <2>2, <2>3, <2>4 DEF StoreChoice
<1>4. CASE w.verb = "put"
  <2>1. store'[l] = {IF r.id = w.row THEN [r EXCEPT !.words = w.words] ELSE r : r \in store[l]}
    BY <1>1, <1>2, <1>4 DEF Written
  <2>2. ASSUME NEW r \in store'[l] PROVE \E s \in store[l] : r.id = s.id /\ (r.chosen => s.chosen)
    <3>1. PICK s \in store[l] : r = IF s.id = w.row THEN [s EXCEPT !.words = w.words] ELSE s
      BY <2>1
    <3>2. s \in StoredRow
      BY <1>2
    <3>3. r.id = s.id /\ r.chosen = s.chosen
      BY <3>1, <3>2 DEF StoredRow
    <3>4. QED
      BY <3>3
  <2>3. QED
    BY <2>2 DEF StoreChoice
<1>5. CASE w.verb = "delete"
  <2>1. store'[l] = {r \in store[l] : r.id # w.row}
    BY <1>1, <1>2, <1>5 DEF Written
  <2>2. QED
    BY <2>1 DEF StoreChoice
<1>6. QED
  BY <1>1, <1>3, <1>4, <1>5

LEMMA StoresChoice ==
  ASSUME Sound, WholeHistory(history), NEW l \in Lists, Chooses(l), NEW w \in requests,
         Write(w) \/ ChooseFind(w) \/ ChooseLock(w) \/ ChooseCommit(w)
  PROVE  ChoiceStep(l)
<1>1. /\ Shape /\ w \in Changes /\ w.list = l /\ ChangeOK(w) /\ view' = view
  <2>1. Shape /\ w \in Changes /\ view' = view
    BY DEF Sound, Write, ChooseFind, ChooseLock, ChooseCommit, pageVars, Changes
  <2>2. QED
    BY <2>1, ChoosingPage, ChangeIsOK
<1>2. ViewChoice(l)
  BY <1>1, SameArranged DEF ViewChoice
<1>3. ASSUME Serve(w) PROVE SeenStep(l)
  <2>1. PICK v : v = [w EXCEPT !.stage = "done"]
    OBVIOUS
  <2>2. v.stage \notin {"seen", "locked"}
    BY <1>1, <2>1 DEF ChangeOK
  <2>3. requests' \subseteq (requests \ {w}) \union {v}
    BY <1>3, <2>1 DEF Serve
  <2>4. QED
    BY <2>2, <2>3, SeenAsBefore
<1>4. CASE Write(w)
  BY <1>2, <1>3, <1>4, StoreWriteChoice DEF Write, ChoiceStep
<1>5. CASE ChooseFind(w)
  <2>1. store' = store /\ StoreChoice(l)
    BY <1>5, StoreSame DEF ChooseFind
  <2>2. CASE w.row \in Ids(store[l])
    <3>1. PICK v : v = [w EXCEPT !.stage = "seen", !.seen = Cleared(l)]
      OBVIOUS
    <3>2. v.seen = Ids(store[l])
      BY <1>1, <3>1 DEF ChangeOK, Cleared
    <3>3. requests' = (requests \ {w}) \union {v}
      BY <1>1, <1>5, <2>2, <3>1 DEF ChooseFind
    <3>4. \A u \in Choosers(l)' : u = v \/ u \in Choosers(l)
      BY <3>3 DEF Choosers, Changes
    <3>5. SeenStep(l)
      BY <2>1, <3>2, <3>4 DEF SeenStep
    <3>6. QED
      BY <1>2, <2>1, <3>5 DEF ChoiceStep
  <2>3. CASE w.row \notin Ids(store[l])
    BY <1>1, <1>2, <1>3, <1>5, <2>1, <2>3 DEF ChooseFind, ChoiceStep
  <2>4. QED
    BY <2>2, <2>3
<1>6. CASE ChooseLock(w)
  <2>1. store' = store /\ StoreChoice(l)
    BY <1>6, StoreSame DEF ChooseLock
  <2>2. PICK v : v = [w EXCEPT !.stage = "locked"]
    OBVIOUS
  <2>3. v.seen = w.seen
    BY <1>1, <2>2 DEF ChangeOK
  <2>4. w \in Choosers(l)
    BY <1>1, <1>6 DEF ChooseLock, Choosers
  <2>5. requests' = (requests \ {w}) \union {v}
    BY <1>6, <2>2 DEF ChooseLock
  <2>6. \A u \in Choosers(l)' : u = v \/ u \in Choosers(l)
    BY <2>5 DEF Choosers, Changes
  <2>7. SeenStep(l)
    BY <2>3, <2>4, <2>6, NoneSeen
  <2>8. QED
    BY <1>2, <2>1, <2>7 DEF ChoiceStep
<1>7. CASE ChooseCommit(w)
  <2>1. w.verb = "choose" /\ w.stage = "locked" /\ Serve(w)
    BY <1>7 DEF ChooseCommit
  <2>2. /\ Ids(store'[w.list]) = Ids(store[w.list])
        /\ \A r \in store'[w.list] : r.chosen => \/ r.id = w.row
                                                 \/ r.id \in Ids(store[w.list]) \ w.seen
    BY <1>1, <1>7, <2>1, CommitRows DEF ChooseCommit
  <2>3. StoreChoice(l)
    BY <1>1, <2>1, <2>2 DEF StoreChoice
  <2>4. QED
    BY <1>2, <1>3, <2>1, <2>3 DEF ChoiceStep
<1>8. QED
  BY <1>4, <1>5, <1>6, <1>7

LEMMA EveryChoiceStep ==
  ASSUME Sound, WholeHistory(history), NEW l \in Lists, Chooses(l), PagesNext
  PROVE  ChoiceStep(l)
<1>1. ASSUME NEW m \in Lists, \/ Add(m) \/ Edit(m) \/ LeaveEmpty(m) \/ RemoveRow(m)
                               \/ Choose(m) \/ Reorder(m) \/ Other(m)
      PROVE  ChoiceStep(l)
  BY <1>1, UserChoice
<1>2. ASSUME NEW q \in requests, LoadServed(q) \/ Loaded(q) \/ LoadFailed(q) \/ Fail(q)
      PROVE  ChoiceStep(l)
  BY <1>2, LoadChoice
<1>3. ASSUME NEW q \in requests, Write(q) \/ ChooseFind(q) \/ ChooseLock(q) \/ ChooseCommit(q)
      PROVE  ChoiceStep(l)
  BY <1>3, StoresChoice
<1>4. ASSUME NEW q \in requests, ChangeAnswered(q) PROVE ChoiceStep(l)
  BY <1>4, AnswerChoice
<1>5. ASSUME Open \/ Close PROVE ChoiceStep(l)
  BY <1>5, LoadChoice
<1>6. QED
  BY <1>1, <1>2, <1>3, <1>4, <1>5 DEF PagesNext

-----------------------------------------------------------------------------
AtMostOne(rows) == \A r, s \in rows : r.chosen /\ s.chosen => r = s

(* No list shows a row twice, or a row whose addition has not been answered yet.       *)
Different ==
  \A l \in Lists : Chooses(l) =>
    /\ Apart(view[l])
    /\ \A w \in Changes : w.mine /\ w.verb = "post" => \A i \in DOMAIN view[l] : view[l][i].id # w.n

(* One row is chosen, and a choice on its way has seen every row that might be.        *)
Chosen(l) ==
  /\ AtMostOne(store[l])
  /\ \A q \in Served : AtMostOne(q.rows[l])
  /\ OneIn(view[l])
  /\ \A w \in Choosers(l) : Ids(store[l]) \subseteq w.seen

LEMMA DifferentAgain ==
  ASSUME Sound, Shape', Steps, Waited, Different, NEW l \in Lists, Chooses(l), ViewChoice(l)
  PROVE  /\ Apart(view'[l])
         /\ \A v \in Changes' : v.mine /\ v.verb = "post" => \A i \in DOMAIN view'[l] : view'[l][i].id # v.n
<1>1. /\ Shape /\ Numbered /\ sent \in Nat /\ Lists' = Lists /\ page.gate
      /\ page.awaited = {page.lists[l].via} /\ page' = page
  BY ChoosingPage DEF Sound, Shape, Steps, Lists
<1>2. ASSUME NEW v \in Changes', v.mine, v.verb = "post", NEW i \in DOMAIN view[l] PROVE view[l][i].id # v.n
  <2>1. CASE \E u \in Changes : SameChange(v, u)
    BY <1>2, <2>1 DEF Different, SameChange
  <2>2. CASE v.n = sent + 1
    <3>1. view[l][i].id <= sent /\ view[l][i].id \in Nat
      BY <1>1, ShownFields DEF Numbered
    <3>2. QED
      BY <1>1, <2>2, <3>1
  <2>3. QED
    BY <2>1, <2>2 DEF Steps, ChangesStep, NewChange
<1>3. CASE Arranged(view'[l], view[l])
  <2>1. Apart(view'[l])
    BY <1>3 DEF Arranged, Different
  <2>2. ASSUME NEW v \in Changes', v.mine, v.verb = "post", NEW i \in DOMAIN view'[l] PROVE view'[l][i].id # v.n
    BY <1>2, <1>3, <2>2 DEF Arranged
  <2>3. QED
    BY <2>1, <2>2
<1>4. ASSUME NEW w \in Changes, w.mine, w.verb = "post", w.list = l, \A v \in Changes' : v.n # w.n,
             Added(view'[l], view[l], w.n)
      PROVE  /\ Apart(view'[l])
             /\ \A v \in Changes' : v.mine /\ v.verb = "post" => \A i \in DOMAIN view'[l] : view'[l][i].id # v.n
  <2>1. Apart(view[l]) /\ \A i \in DOMAIN view[l] : view[l][i].id # w.n
    BY <1>4 DEF Different
  <2>2. Apart(view'[l])
    BY <1>4, <2>1 DEF Added
  <2>3. ASSUME NEW v \in Changes', v.mine, v.verb = "post", NEW i \in DOMAIN view'[l] PROVE view'[l][i].id # v.n
    <3>1. view'[l][i].id = w.n \/ \E k \in DOMAIN view[l] : view'[l][i].id = view[l][k].id
      BY <1>4 DEF Added
    <3>2. QED
      BY <1>2, <1>4, <2>3, <3>1
  <2>4. QED
    BY <2>2, <2>3
<1>5. ASSUME sent' = sent, NEW q \in Served, q.via = page.lists[l].via, view'[l] = Listing(page.lists[l], q.rows[l])
      PROVE  /\ Apart(view'[l]) /\ \A v \in Changes' : ~v.mine
  <2>1. q \in Pending /\ LoadOK(q)
    BY <1>1 DEF Served, Pending, Shape, RequestOK
  <2>2. GoodRows(q.rows[l])
    BY <2>1 DEF LoadOK, GoodStore, Served
  <2>3. Apart(view'[l])
    BY <1>5, <2>2, Listed DEF Apart
  <2>4. \A w \in Changes : ~w.mine
    BY <1>1, <1>5, <2>1 DEF Waited
  <2>5. \A v \in Changes' : ~v.mine
    BY <1>1, <1>5, <2>4, MineOnes
  <2>6. QED
    BY <2>3, <2>5
<1>6. CASE view'[l] = <<>>
  BY <1>6 DEF Apart
<1>7. QED
  BY <1>3, <1>4, <1>5, <1>6 DEF ViewChoice

LEMMA OneOfAList ==
  ASSUME NEW list, NEW R, GoodRows(R), AtMostOne(R)
  PROVE  OneIn(Listing(list, R))
<1>1. PICK t : t = Listing(list, R)
  OBVIOUS
<1>2. /\ \A k \in DOMAIN t : \E r \in R : t[k] = Seen(r)
      /\ \A j, k \in DOMAIN t : t[j].id = t[k].id => j = k
  BY <1>1, Listed
<1>3. ASSUME NEW j \in DOMAIN t, NEW k \in DOMAIN t, t[j].chosen, t[k].chosen PROVE j = k
  <2>1. PICK r \in R : t[j] = Seen(r)
    BY <1>2
  <2>2. PICK s \in R : t[k] = Seen(s)
    BY <1>2
  <2>3. r.chosen /\ s.chosen
    BY <1>3, <2>1, <2>2 DEF Seen
  <2>4. r = s
    BY <2>3 DEF AtMostOne
  <2>5. QED
    BY <1>2, <2>1, <2>2, <2>4
<1>4. QED
  BY <1>1, <1>3 DEF OneIn

LEMMA ChosenAgain ==
  ASSUME Sound, Shape', Steps, Different, NEW l \in Lists, Chooses(l), ChoiceStep(l), Chosen(l),
         l \notin history'.grown
  PROVE  Chosen(l)'
<1>1. /\ Shape /\ Lists' = Lists /\ GoodRows(store[l]) /\ GoodRows(store'[l])
  BY DEF Sound, Shape, GoodStore, Steps, Lists
<1>2. AtMostOne(store[l]) /\ \A r, s \in store'[l] : r.id = s.id => r = s
  BY <1>1 DEF Chosen, GoodRows
<1>3. \A q \in Served' : AtMostOne(q.rows[l])
  BY DEF Steps, LoadsStep, Chosen
<1>4. OneIn(view'[l])
  <2>1. Apart(view[l]) /\ OneIn(view[l])
    BY DEF Different, Chosen
  <2>2. ASSUME NEW q \in Served PROVE OneIn(Listing(page.lists[l], q.rows[l]))
    <3>1. LoadOK(q) /\ AtMostOne(q.rows[l])
      BY <1>1 DEF Served, Pending, Shape, RequestOK, Chosen
    <3>2. GoodRows(q.rows[l])
      BY <3>1 DEF LoadOK, GoodStore, Served
    <3>3. QED
      BY <3>1, <3>2, OneOfAList
  <2>3. view'[l] = <<>> => OneIn(view'[l])
    BY DEF OneIn
  <2>4. QED
    BY <2>1, <2>2, <2>3 DEF ChoiceStep, ViewChoice, Arranged, Added
<1>5. ASSUME Ids(store'[l]) \subseteq Ids(store[l]) \/ Choosers(l) = {}
      PROVE  \A v \in Choosers(l)' : Ids(store'[l]) \subseteq v.seen
  <2> TAKE v \in Choosers(l)'
  <2>1. CASE \E u \in Choosers(l) : u.seen = v.seen
    BY <1>5, <2>1 DEF Chosen, Choosers
  <2>2. CASE store' = store /\ v.seen = Ids(store[l])
    BY <2>2
  <2>3. QED
    BY <2>1, <2>2 DEF ChoiceStep, SeenStep
<1>6. CASE \A r \in store'[l] : \E s \in store[l] : r.id = s.id /\ (r.chosen => s.chosen)
  <2>1. AtMostOne(store'[l])
    <3> SUFFICES ASSUME NEW r \in store'[l], NEW t \in store'[l], r.chosen, t.chosen PROVE r = t
      BY DEF AtMostOne
    <3>1. PICK a \in store[l] : r.id = a.id /\ a.chosen
      BY <1>6
    <3>2. PICK b \in store[l] : t.id = b.id /\ b.chosen
      BY <1>6
    <3>3. a = b
      BY <1>2, <3>1, <3>2 DEF AtMostOne
    <3>4. QED
      BY <1>2, <3>1, <3>2, <3>3
  <2>2. Ids(store'[l]) \subseteq Ids(store[l])
    BY <1>6, IdsOf
  <2>3. \A v \in Choosers(l)' : Ids(store'[l]) \subseteq v.seen
    BY <1>5, <2>2
  <2>4. QED
    BY <1>3, <1>4, <2>1, <2>3 DEF Chosen
<1>7. CASE /\ \E new : ~new.chosen /\ store'[l] = store[l] \union {new}
           /\ l \in history'.grown \/ \A w \in Changes : w.list = l => w.stage \notin {"seen", "locked"}
  <2>1. AtMostOne(store'[l])
    BY <1>2, <1>7 DEF AtMostOne
  <2>2. Choosers(l) = {}
    BY <1>7 DEF Choosers
  <2>3. \A v \in Choosers(l)' : Ids(store'[l]) \subseteq v.seen
    BY <1>5, <2>2
  <2>4. QED
    BY <1>3, <1>4, <2>1, <2>3 DEF Chosen
<1>8. ASSUME NEW w \in Changes, w.list = l, w.verb = "choose", w.stage = "locked",
             Ids(store'[l]) = Ids(store[l]),
             \A r \in store'[l] : r.chosen => r.id = w.row \/ r.id \in Ids(store[l]) \ w.seen
      PROVE  Chosen(l)'
  <2>1. Ids(store[l]) \subseteq w.seen
    BY <1>8 DEF Chosen, Choosers
  <2>2. \A r \in store'[l] : r.chosen => r.id = w.row
    BY <1>8, <2>1
  <2>3. AtMostOne(store'[l])
    BY <1>2, <2>2 DEF AtMostOne
  <2>4. \A v \in Choosers(l)' : Ids(store'[l]) \subseteq v.seen
    BY <1>5, <1>8
  <2>5. QED
    BY <1>3, <1>4, <2>3, <2>4 DEF Chosen
<1>9. QED
  BY <1>6, <1>7, <1>8 DEF ChoiceStep, StoreChoice

(* Where there is no choice, nothing is chosen.                                        *)
Unchosen(l) ==
  /\ \A r \in store[l] : ~r.chosen
  /\ \A q \in Served : \A r \in q.rows[l] : ~r.chosen
  /\ \A i \in DOMAIN view[l] : ~view[l][i].chosen

LEMMA UnchosenAgain ==
  ASSUME Sound, Steps, NEW l \in Lists, ~Chooses(l), Unchosen(l)
  PROVE  Unchosen(l)'
<1>1. Shape /\ GoodList(page, l)
  BY PageFacts DEF Sound, Shape, Lists
<1>2. \A w \in Changes : w.list = l => w.verb # "choose"
  <2> SUFFICES ASSUME NEW w \in Changes, w.list = l, w.verb = "choose" PROVE FALSE
    OBVIOUS
  <2>1. w.verb \in Verbs(l)
    BY <1>1, ChangeIsOK
  <2>2. QED
    BY <2>1 DEF Verbs, Chooses
<1>3. \A r \in store'[l] : ~r.chosen
  BY <1>2 DEF Steps, StoreStep, StoredKept, StoredNew, Unchosen
<1>4. \A q \in Served' : \A r \in q.rows[l] : ~r.chosen
  BY DEF Steps, LoadsStep, Unchosen
<1>5. ASSUME NEW k \in DOMAIN view'[l] PROVE ~view'[l][k].chosen
  <2>1. PICK x : x = view'[l][k]
    OBVIOUS
  <2>2. RowStep(l, x)
    BY <2>1 DEF Steps, ViewStep
  <2>3. ~x.chosen
    BY <2>2 DEF RowStep, KeptRow, LoadedRow, Seen, AddedRow, BlankRow, Row, Unchosen, Chooses
  <2>4. QED
    BY <2>1, <2>3
<1>6. QED
  BY <1>3, <1>4, <1>5 DEF Unchosen

GoodChoices ==
  /\ Sound /\ WholeHistory(history) /\ Waited /\ Different
  /\ \A l \in Lists : Chooses(l) /\ l \notin history.grown => Chosen(l)
  /\ \A l \in Lists : ~Chooses(l) => Unchosen(l)

LEMMA ChoicesAtFirst ==
  ASSUME PagesInit
  PROVE  GoodChoices
<1>1. /\ open = FALSE /\ got = {} /\ failed = {} /\ requests = {}
      /\ history = [crossed |-> {}, blanked |-> {}, grown |-> {}]
      /\ view = [l \in Lists |-> <<>>]
      /\ store = [l \in Lists |-> {Place(Row(i, i), i) : i \in FirstIds(page.lists[l])}]
  BY DEF PagesInit
<1>2. Changes = {} /\ Served = {} /\ Pending = {}
  BY <1>1 DEF Changes, Served, Pending
<1>3. \A l \in Lists : \A r \in store[l] : ~r.chosen
  <2>1. \A list : \A r \in {Place(Row(i, i), i) : i \in FirstIds(list)} : ~r.chosen
    BY FirstRows
  <2>2. QED
    BY <1>1, <2>1
<1>4. \A l \in Lists : DOMAIN view[l] = {}
  BY <1>1
<1>5. WholeHistory(history)
  BY <1>1 DEF WholeHistory
<1>6. Waited
  BY <1>2 DEF Waited
<1>7. Different
  BY <1>2, <1>4 DEF Different, Apart
<1>8. ASSUME NEW l \in Lists PROVE Unchosen(l) /\ Chosen(l)
  BY <1>2, <1>3, <1>4 DEF Unchosen, Chosen, AtMostOne, OneIn, Choosers
<1>9. QED
  BY <1>5, <1>6, <1>7, <1>8, SoundAtFirst DEF GoodChoices

LEMMA ChoicesAlways == PagesSpec => []GoodChoices
<1>1. PagesInit => GoodChoices
  BY ChoicesAtFirst
<1>2. GoodChoices /\ PagesNext => GoodChoices'
  <2> SUFFICES ASSUME GoodChoices, PagesNext PROVE GoodChoices'
    OBVIOUS
  <2>1. Sound' /\ Shape' /\ Steps /\ HistoryStep /\ Waited'
    BY EveryStep, NumberedAgain, FreshAgain, HistorySteps, WaitedAgain DEF GoodChoices, Sound
  <2>2. Lists' = Lists /\ page' = page /\ \A l : Chooses(l)' <=> Chooses(l)
    BY <2>1 DEF Steps, Lists, Chooses
  <2>3. ASSUME NEW l \in Lists, Chooses(l)
        PROVE  ChoiceStep(l)
    BY <2>3, EveryChoiceStep DEF GoodChoices
  <2>4. Different'
    BY <2>1, <2>2, <2>3, DifferentAgain DEF Different, GoodChoices, ChoiceStep
  <2>5. ASSUME NEW l \in Lists, Chooses(l), l \notin history'.grown PROVE Chosen(l)'
    BY <2>1, <2>3, <2>5, ChosenAgain DEF GoodChoices, HistoryStep
  <2>6. ASSUME NEW l \in Lists, ~Chooses(l) PROVE Unchosen(l)'
    BY <2>1, <2>6, UnchosenAgain DEF GoodChoices
  <2>7. QED
    BY <2>1, <2>2, <2>4, <2>5, <2>6 DEF GoodChoices, HistoryStep
<1>3. GoodChoices /\ UNCHANGED productionVars => GoodChoices'
  <2> SUFFICES ASSUME GoodChoices, UNCHANGED productionVars PROVE GoodChoices'
    OBVIOUS
  <2>1. /\ page' = page /\ open' = open /\ view' = view /\ got' = got /\ failed' = failed /\ store' = store
        /\ requests' = requests /\ sent' = sent /\ history' = history
    BY DEF productionVars, pageVars, counters
  <2>2. Sound'
    BY <2>1 DEF GoodChoices, Sound, Shape, Numbered, Fresh, Changes, Served, Adding,
         Pending, RequestOK, LoadOK, ChangeOK, Verbs, GoodStore, Lists, Ids
  <2>3. Waited' /\ Different'
    BY <2>1 DEF GoodChoices, Waited, Different, Chooses, Changes, Pending, Lists
  <2>4. \A l \in Lists : (Chosen(l) => Chosen(l)') /\ (Unchosen(l) => Unchosen(l)')
    BY <2>1 DEF Chosen, Unchosen, Choosers, Changes, Served, Pending, Ids
  <2>5. QED
    BY <2>1, <2>2, <2>3, <2>4 DEF GoodChoices, Lists, Chooses
<1>4. QED
  BY <1>1, <1>2, <1>3, PTL DEF PagesSpec

(* At most one row of a group is chosen, in the store and on the page, while no row is  *)
(* added to the group under a choice that has begun.                                   *)
THEOREM OneIsChosen == PagesSpec => []OneChosen
<1>1. GoodChoices => OneChosen
  BY DEF GoodChoices, Chosen, Unchosen, AtMostOne, OneIn, OneChosen
<1>2. QED
  BY <1>1, ChoicesAlways, PTL

-----------------------------------------------------------------------------
(* What is awaited, and on its way, has not been shown yet.                            *)
OldView ==
  page.gate =>
    \A q \in Pending : q.via \in page.awaited =>
      \A l \in Lists : page.lists[l].via = q.via => view[l] = Unloaded(page.lists[l])

(* A text is one row, which stays.                                                     *)
OneText(l) == Ids(store[l]) = {1} /\ \A q \in Served : Ids(q.rows[l]) = {1}

(* What has been deleted is not there.                                                 *)
Gone == \A w \in Changes : w.verb = "delete" /\ w.stage = "done" => w.row \notin Ids(store[w.list])

DoneStep ==
  \A v \in Changes' : v.verb = "delete" /\ v.stage = "done" =>
    \/ \E u \in Changes : SameChange(v, u) /\ u.stage = "done"
    \/ v.row \notin Ids(store'[v.list])

TextsStay == \A l \in Lists : page.lists[l].keyed => Ids(store'[l]) = Ids(store[l])

LEMMA SentDone ==
  ASSUME NEW w, requests' \subseteq requests \union {w}, w.stage = "sent" \/ w.verb = "get"
  PROVE  DoneStep
BY DEF DoneStep, Changes, SameChange

LEMMA MarkedDone ==
  ASSUME \A v \in requests' : v.verb # "get" =>
           \E u \in Changes : SameRequest(v, u) /\ v.stage = u.stage /\ (v.mine => u.mine)
  PROVE  DoneStep
BY DEF DoneStep, Changes, SameRequest, SameChange

LEMMA ServedDone ==
  ASSUME NEW w \in Changes, NEW v, requests' \subseteq (requests \ {w}) \union {v}, SameRequest(v, w),
         w.verb = "delete" => w.row \notin Ids(store'[w.list])
  PROVE  DoneStep
BY DEF DoneStep, Changes, SameRequest, SameChange

LEMMA UserDone ==
  ASSUME Shape, NEW l \in Lists,
         Add(l) \/ Edit(l) \/ LeaveEmpty(l) \/ RemoveRow(l) \/ Choose(l) \/ Reorder(l) \/ Other(l)
  PROVE  DoneStep /\ TextsStay
<1>1. ASSUME NEW w, SendChange(w), w.stage = "sent" PROVE DoneStep /\ TextsStay
  <2>1. requests' = requests \union {w} /\ store' = store
    BY <1>1 DEF SendChange
  <2>2. QED
    BY <1>1, <2>1, SentDone DEF TextsStay
<1>2. ASSUME NEW verb, NEW row, NEW words, SendChange(Request(verb, l, row, words)) PROVE DoneStep /\ TextsStay
  BY <1>1, <1>2, RequestSent
<1>3. CASE Add(l)
  BY <1>2, <1>3 DEF Add
<1>4. CASE Edit(l)
  <2>1. \E row, words : SendChange(Request("put", l, row, words))
    BY <1>4 DEF Edit
  <2>2. QED
    BY <1>2, <2>1
<1>e. CASE LeaveEmpty(l)
  <2>1. requests' = requests /\ store' = store
    BY <1>e, Emptied
  <2>2. QED
    BY <2>1 DEF DoneStep, TextsStay, Changes, SameChange
<1>5. CASE RemoveRow(l)
  <2>1. \E verb, row : SendChange(Request(verb, l, row, 0))
    BY <1>5 DEF RemoveRow
  <2>2. QED
    BY <1>2, <2>1
<1>6. CASE Choose(l)
  <2>1. \E row : SendChange(Request("choose", l, row, 0))
    BY <1>6 DEF Choose
  <2>2. QED
    BY <1>2, <2>1
<1>7. CASE Reorder(l)
  <2>1. PICK s : SendChange([Request("reorder", l, 0, 0) EXCEPT !.ids = s])
    BY <1>7 DEF Reorder
  <2>2. PICK w : w = [Request("reorder", l, 0, 0) EXCEPT !.ids = s]
    OBVIOUS
  <2>3. SendChange(w) /\ w.stage = "sent"
    BY <2>1, <2>2 DEF Request
  <2>4. QED
    BY <1>1, <2>3
<1>8. CASE Other(l)
  <2>1. PICK verb, row : requests' = requests \union {[Request(verb, l, row, sent + 1) EXCEPT !.mine = FALSE]}
    BY <1>8 DEF Other
  <2>2. PICK w : w = [Request(verb, l, row, sent + 1) EXCEPT !.mine = FALSE]
    OBVIOUS
  <2>3. requests' = requests \union {w} /\ w.stage = "sent" /\ store' = store
    BY <1>8, <2>1, <2>2, RequestSent DEF Other
  <2>4. QED
    BY <2>3, SentDone DEF TextsStay
<1>9. QED
  BY <1>3, <1>4, <1>e, <1>5, <1>6, <1>7, <1>8

LEMMA OpenCloseDone ==
  ASSUME Shape, Open \/ Close
  PROVE  DoneStep /\ TextsStay
<1>1. CASE Open
  <2>1. \A g : LoadRequest(0, g).verb = "get"
    BY DEF LoadRequest
  <2>2. \A v \in requests' : v.verb # "get" => v \in Changes
    BY <1>1, <2>1 DEF Open, Changes
  <2>3. DoneStep
    BY <2>2, MarkedDone DEF SameRequest
  <2>4. QED
    BY <1>1, <2>3 DEF Open, TextsStay
<1>2. CASE Close
  <2>1. requests' = {[w EXCEPT !.mine = FALSE] : w \in Changes}
    BY <1>2 DEF Close, Changes
  <2>2. ASSUME NEW v \in requests'
        PROVE  \E u \in Changes : SameRequest(v, u) /\ v.stage = u.stage /\ (v.mine => u.mine)
    <3>1. PICK u \in Changes : v = [u EXCEPT !.mine = FALSE]
      BY <2>1
    <3>2. ChangeOK(u)
      BY ChangeIsOK
    <3>3. SameRequest(v, u) /\ v.stage = u.stage /\ ~v.mine
      BY <3>1, <3>2, NotMine
    <3>4. QED
      BY <3>3
  <2>3. DoneStep
    BY <2>2, MarkedDone
  <2>4. QED
    BY <1>2, <2>3 DEF Close, TextsStay
<1>3. QED
  BY <1>1, <1>2

LEMMA LoadDone ==
  ASSUME Shape, NEW q \in requests, LoadServed(q) \/ Loaded(q) \/ LoadFailed(q) \/ Fail(q) \/ ChangeAnswered(q)
  PROVE  DoneStep /\ TextsStay
<1>1. TextsStay
  BY DEF LoadServed, Loaded, LoadFailed, Fail, ChangeAnswered, TextsStay
<1>2. CASE LoadServed(q)
  <2>1. PICK p : p = [q EXCEPT !.stage = "done", !.rows = store]
    OBVIOUS
  <2>2. LoadOK(q)
    BY <1>2 DEF LoadServed, Shape, RequestOK
  <2>3. p.verb = "get" /\ requests' \subseteq requests \union {p}
    BY <1>2, <2>1, <2>2 DEF LoadServed, LoadOK
  <2>4. QED
    BY <1>1, <2>3, SentDone
<1>3. CASE Loaded(q)
  <2>1. ASSUME NEW v \in requests', v.verb # "get"
        PROVE  \E u \in Changes : SameRequest(v, u) /\ v.stage = u.stage /\ (v.mine => u.mine)
    <3>1. PICK r \in requests : v = IF r.verb # "get" /\ r.mine /\ page.lists[r.list].via = q.via
                                    THEN [r EXCEPT !.inHand = FALSE] ELSE r
      BY <1>3, <2>1 DEF Loaded, Detached
    <3>2. CASE r.verb # "get" /\ r.mine /\ page.lists[r.list].via = q.via
      <4>1. r \in Changes /\ ChangeOK(r)
        BY <3>2, ChangeFields DEF Changes
      <4>2. SameRequest(v, r) /\ v.stage = r.stage /\ (v.mine <=> r.mine)
        BY <3>1, <3>2, <4>1, OutOfHand
      <4>3. QED
        BY <4>1, <4>2
    <3>3. CASE ~(r.verb # "get" /\ r.mine /\ page.lists[r.list].via = q.via)
      BY <2>1, <3>1, <3>3 DEF Changes, SameRequest
    <3>4. QED
      BY <3>2, <3>3
  <2>2. QED
    BY <1>1, <2>1, MarkedDone
<1>4. CASE LoadFailed(q) \/ Fail(q)
  <2>1. requests' \subseteq requests
    BY <1>4 DEF LoadFailed, Fail
  <2>2. DoneStep
    BY <2>1 DEF DoneStep, Changes, SameChange
  <2>3. QED
    BY <1>1, <2>2
<1>5. CASE ChangeAnswered(q)
  <2>1. \A n, g : LoadRequest(n, g).verb = "get"
    BY DEF LoadRequest
  <2>2. \A v \in requests' : v.verb # "get" => v \in Changes
    BY <1>5, <2>1 DEF ChangeAnswered, Changes
  <2>3. DoneStep
    BY <2>2, MarkedDone DEF SameRequest
  <2>4. QED
    BY <1>1, <2>3
<1>6. QED
  BY <1>2, <1>3, <1>4, <1>5

LEMMA ChoicesAreNotTexts ==
  ASSUME Sound, NEW w \in Changes, w.verb = "choose", NEW l \in Lists, page.lists[l].keyed
  PROVE  w.list # l
<1>1. w.list = l => w.verb = "put"
  BY TextsAreSaved DEF Sound
<1>2. QED
  BY <1>1

LEMMA TextsWritten ==
  ASSUME Sound, NEW w \in requests, Write(w), NEW l \in Lists, page.lists[l].keyed
  PROVE  Ids(store'[l]) = Ids(store[l])
<1>1. /\ Shape /\ w \in Changes /\ store' = Written(w) /\ w.list \in Lists /\ ChangeOK(w)
      /\ store \in [Lists -> SUBSET StoredRow]
  BY ChangeIsOK DEF Sound, Shape, GoodStore, Write, Changes
<1>2. w.list = l => w.verb = "put"
  BY <1>1, TextsAreSaved
<1>3. w.verb = "accept" => page.lists[w.list].joins # l
  BY <1>1, TextsAreSaved
<1>4. w.verb \in {"post", "put", "delete", "choose", "reorder", "accept"}
  BY <1>1, VerbsOf
<1>5. CASE w.list = l
  <2> DEFINE f == [r \in store[l] |-> IF r.id = w.row THEN [r EXCEPT !.words = w.words] ELSE r]
  <2>1. w.verb = "put"
    BY <1>2, <1>5
  <2>2. w.words \in Nat
    BY <1>1, ChangeIsOK
  <2>3. f \in [store[l] -> StoredRow] /\ \A r \in store[l] : f[r].id = r.id
    BY <1>1, <2>2 DEF StoredRow
  <2>4. store'[l] = {f[r] : r \in store[l]}
    BY <1>1, <1>5, <2>1 DEF Written
  <2>5. GoodRows(store[l])
    BY <1>1, ShownFields
  <2>6. QED
    BY <2>3, <2>4, <2>5, RewrittenRows
<1>6. CASE w.list # l
  <2>1. store'[l] = store[l]
    BY <1>1, <1>3, <1>4, <1>6 DEF Written
  <2>2. QED
    BY <2>1
<1>7. QED
  BY <1>5, <1>6

LEMMA WriteDone ==
  ASSUME Sound, NEW w \in requests, Write(w)
  PROVE  DoneStep /\ TextsStay
<1>1. Shape /\ w \in Changes /\ ChangeOK(w) /\ Serve(w)
  BY ChangeIsOK DEF Sound, Write, Changes
<1>2. PICK v : v = [w EXCEPT !.stage = "done"]
  OBVIOUS
<1>3. SameRequest(v, w)
  BY <1>1, <1>2, Staged
<1>4. requests' \subseteq (requests \ {w}) \union {v}
  BY <1>1, <1>2 DEF Serve
<1>5. w.verb = "delete" => w.row \notin Ids(store'[w.list])
  BY WriteSteps
<1>6. DoneStep
  BY <1>1, <1>3, <1>4, <1>5, ServedDone
<1>7. TextsStay
  BY TextsWritten DEF TextsStay
<1>8. QED
  BY <1>6, <1>7

LEMMA ChoosingDone ==
  ASSUME Sound, NEW w \in requests, ChooseFind(w) \/ ChooseLock(w) \/ ChooseCommit(w)
  PROVE  DoneStep /\ TextsStay
<1>1. Shape /\ w \in Changes /\ ChangeOK(w) /\ w.verb = "choose" /\ GoodStore(store)
  BY ChangeIsOK DEF Sound, Shape, ChooseFind, ChooseLock, ChooseCommit, Changes
<1>2. \E v : SameRequest(v, w) /\ requests' \subseteq (requests \ {w}) \union {v}
  <2>1. ASSUME NEW s PROVE SameRequest([w EXCEPT !.stage = s], w)
    BY <1>1, Staged
  <2>2. SameRequest([w EXCEPT !.stage = "seen", !.seen = Cleared(w.list)], w)
    BY <1>1 DEF SameRequest, ChangeOK
  <2>3. CASE ChooseFind(w)
    BY <2>1, <2>2, <2>3 DEF ChooseFind, Serve
  <2>4. CASE ChooseLock(w)
    BY <2>1, <2>4 DEF ChooseLock
  <2>5. CASE ChooseCommit(w)
    BY <2>1, <2>5 DEF ChooseCommit, Serve
  <2>6. QED
    BY <2>3, <2>4, <2>5
<1>3. PICK v : SameRequest(v, w) /\ requests' \subseteq (requests \ {w}) \union {v}
  BY <1>2
<1>4. DoneStep
  BY <1>1, <1>3, ServedDone
<1>5. ASSUME NEW l \in Lists, page.lists[l].keyed PROVE store'[l] = store[l]
  <2>1. w.list # l
    BY <1>1, <1>5, ChoicesAreNotTexts
  <2>2. QED
    BY <1>1, <2>1 DEF ChooseFind, ChooseLock, ChooseCommit, GoodStore
<1>6. QED
  BY <1>4, <1>5 DEF TextsStay

LEMMA EveryDone ==
  ASSUME Sound, PagesNext
  PROVE  DoneStep /\ TextsStay
<1>1. Shape
  BY DEF Sound
<1>2. ASSUME Open \/ Close PROVE DoneStep /\ TextsStay
  BY <1>1, <1>2, OpenCloseDone
<1>3. ASSUME NEW l \in Lists, \/ Add(l) \/ Edit(l) \/ LeaveEmpty(l) \/ RemoveRow(l)
                               \/ Choose(l) \/ Reorder(l) \/ Other(l)
      PROVE  DoneStep /\ TextsStay
  BY <1>1, <1>3, UserDone
<1>4. ASSUME NEW q \in requests, LoadServed(q) \/ Loaded(q) \/ LoadFailed(q) \/ Fail(q) \/ ChangeAnswered(q)
      PROVE  DoneStep /\ TextsStay
  BY <1>1, <1>4, LoadDone
<1>5. ASSUME NEW q \in requests, Write(q) PROVE DoneStep /\ TextsStay
  BY <1>5, WriteDone
<1>6. ASSUME NEW q \in requests, ChooseFind(q) \/ ChooseLock(q) \/ ChooseCommit(q) PROVE DoneStep /\ TextsStay
  BY <1>6, ChoosingDone
<1>7. QED
  BY <1>2, <1>3, <1>4, <1>5, <1>6 DEF PagesNext

LEMMA GoneAgain ==
  ASSUME Sound, Shape', Steps, DoneStep, Gone
  PROVE  Gone'
<1>1. Shape /\ Fresh /\ page' = page /\ Lists' = Lists
  BY DEF Sound, Steps, Lists
<1>2. ASSUME NEW v \in Changes', v.verb = "delete", v.stage = "done", v.row \in Ids(store'[v.list])
      PROVE  FALSE
  <2>1. PICK u \in Changes : SameChange(v, u) /\ u.stage = "done"
    BY <1>2 DEF DoneStep
  <2>2. u.verb = "delete" /\ u.list = v.list /\ u.row = v.row /\ u.list \in Lists
    BY <1>1, <1>2, <2>1, ChangeIsOK DEF SameChange
  <2>3. u.row \notin Ids(store[u.list])
    BY <2>1, <2>2 DEF Gone
  <2>4. PICK r \in store'[v.list] : r.id = v.row
    BY <1>2, IdsOf
  <2>5. CASE StoredKept(v.list, r)
    <3>1. v.row \in Ids(store[v.list])
      BY <2>4, <2>5, IdsOf DEF StoredKept
    <3>2. QED
      BY <2>2, <2>3, <3>1
  <2>6. CASE StoredNew(v.list, r)
    <3>1. PICK x \in Adding : r.id = x.n
      BY <2>6 DEF StoredNew
    <3>2. x # u
      BY <2>2 DEF Adding
    <3>3. u.row # x.n
      BY <1>1, <3>2 DEF Fresh
    <3>4. QED
      BY <2>2, <2>4, <3>1, <3>3
  <2>7. StoredKept(v.list, r) \/ StoredNew(v.list, r)
    BY <2>2, <2>4 DEF Steps, StoreStep
  <2>8. QED
    BY <2>5, <2>6, <2>7
<1>3. QED
  BY <1>2 DEF Gone

LEMMA OneTextAgain ==
  ASSUME Steps, TextsStay, NEW l \in Lists, page.lists[l].keyed, OneText(l)
  PROVE  OneText(l)'
<1>1. Ids(store'[l]) = {1} /\ Ids(store[l]) = {1}
  BY DEF TextsStay, OneText
<1>2. \A q \in Served' : Ids(q.rows[l]) = {1}
  BY <1>1 DEF Steps, LoadsStep, OneText
<1>3. QED
  BY <1>1, <1>2 DEF OneText, Ids

LEMMA AwaitedLoad ==
  ASSUME Waited, page.gate, NEW p \in Pending, p.via \in page.awaited
  PROVE  ~Usable /\ \A w \in Changes : ~w.mine
<1>1. ~(page.awaited \subseteq got \union failed)
  BY DEF Waited
<1>2. QED
  BY <1>1 DEF Waited, Usable, Loading

LEMMA OldViewAgain ==
  ASSUME Sound, Waited, OldView, PagesNext, page' = page
  PROVE  OldView'
<1>1. Shape /\ Lists' = Lists
  BY DEF Sound, Lists
<1>2. ASSUME Open PROVE OldView'
  BY <1>1, <1>2 DEF Open, OldView
<1>3. ASSUME NEW l \in Lists, page.gate, NEW p \in Pending, p.via \in page.awaited, page.lists[l].via = p.via,
             view'[l] = view[l]
      PROVE  view'[l] = Unloaded(page.lists[l])
  BY <1>3 DEF OldView
<1>4. ASSUME view' = view, page.gate => \A q \in Pending' : \E p \in Pending : p.via = q.via
      PROVE  OldView'
  BY <1>1, <1>3, <1>4 DEF OldView
<1>5. ASSUME Close PROVE OldView'
  <2>1. view' = view /\ requests' = {[w EXCEPT !.mine = FALSE] : w \in Changes}
    BY <1>5 DEF Close, Changes
  <2>2. \A w \in Changes : [w EXCEPT !.mine = FALSE].verb # "get"
    BY <1>1, ChangeIsOK, NotMine DEF Changes, SameRequest
  <2>3. Pending' = {}
    BY <2>1, <2>2 DEF Pending
  <2>4. QED
    BY <1>4, <2>1, <2>3
<1>6. ASSUME NEW l \in Lists, Add(l) \/ Edit(l) \/ RemoveRow(l) \/ Choose(l) \/ Reorder(l)
      PROVE  OldView'
  <2>1. PICK w : SendChange(w) /\ w.verb # "get"
    BY <1>6, UserSends
  <2>2. Pending' \subseteq Pending
    BY <2>1 DEF SendChange, Pending
  <2>3. Usable
    BY <1>6, UserSends
  <2>4. page.gate => \A q \in Pending' : q.via \notin page.awaited
    BY <2>2, <2>3, AwaitedLoad
  <2>5. QED
    BY <1>1, <2>4 DEF OldView
<1>e. ASSUME NEW l \in Lists, LeaveEmpty(l) PROVE OldView'
  <2>1. Usable /\ requests' = requests
    BY <1>1, <1>e, Emptied
  <2>2. Pending' \subseteq Pending
    BY <2>1 DEF Pending
  <2>3. page.gate => \A q \in Pending' : q.via \notin page.awaited
    BY <2>1, <2>2, AwaitedLoad
  <2>4. QED
    BY <1>1, <2>3 DEF OldView
<1>7. ASSUME NEW l \in Lists, Other(l) PROVE OldView'
  <2>1. PICK w : w.verb # "get" /\ requests' = requests \union {w}
    BY <1>1, <1>7, OthersSend
  <2>2. Pending' \subseteq Pending /\ view' = view
    BY <1>7, <2>1 DEF Other, Pending, pageVars
  <2>3. QED
    BY <1>4, <2>2
<1>8. ASSUME NEW q \in requests, LoadServed(q) PROVE OldView'
  <2>1. PICK p : p.via = q.via /\ Pending' = (Pending \ {q}) \union {p} /\ q \in Pending
    BY <1>1, <1>8, ServedLoad
  <2>2. view' = view
    BY <1>8 DEF LoadServed, pageVars
  <2>3. QED
    BY <1>4, <2>1, <2>2
<1>9. ASSUME NEW q \in requests, Loaded(q) PROVE OldView'
  <2>1. /\ view' = [l \in Lists |-> IF page.lists[l].via = q.via
                                    THEN Listing(page.lists[l], q.rows[l]) ELSE view[l]]
        /\ q \in Pending
    BY <1>9 DEF Loaded, Pending
  <2>2. \A p \in Pending' : p \in Pending /\ p # q
    BY <1>1, <1>9, SettledLoad
  <2>3. page.gate => \A p \in Pending' : p.via # q.via
    BY <2>1, <2>2 DEF Waited
  <2>4. QED
    BY <1>1, <1>3, <2>1, <2>2, <2>3 DEF OldView
<1>10. ASSUME NEW q \in requests, LoadFailed(q) PROVE OldView'
  <2>1. \A p \in Pending' : p \in Pending /\ p # q
    BY <1>1, <1>10, SettledLoad
  <2>2. view' = view
    BY <1>10 DEF LoadFailed
  <2>3. QED
    BY <1>4, <2>1, <2>2
<1>11. ASSUME NEW w \in requests, Write(w) \/ ChooseFind(w) \/ ChooseLock(w) \/ ChooseCommit(w) \/ Fail(w)
       PROVE  OldView'
  <2>1. Pending' \subseteq Pending
    BY <1>1, <1>11, ServedChange
  <2>2. view' = view
    BY <1>11 DEF Write, ChooseFind, ChooseLock, ChooseCommit, Fail, pageVars
  <2>3. QED
    BY <1>4, <2>1, <2>2
<1>12. ASSUME NEW w \in requests, ChangeAnswered(w) PROVE OldView'
  <2>1. /\ w \in Changes /\ (~w.mine => view' = view)
        /\ requests' = (requests \ {w}) \union {LoadRequest(w.n, g) : g \in IF w.mine THEN Reloaded(w) ELSE {}}
    BY <1>12 DEF ChangeAnswered, Changes
  <2>2. page.gate => Pending' \subseteq Pending
    BY <1>1, <2>1, ReloadingPages DEF Pending
  <2>3. CASE ~w.mine
    BY <1>4, <2>1, <2>2, <2>3
  <2>4. CASE w.mine
    <3>1. page.gate => \A q \in Pending' : q.via \notin page.awaited
      BY <2>1, <2>2, <2>4, AwaitedLoad
    <3>2. QED
      BY <1>1, <3>1 DEF OldView
  <2>5. QED
    BY <2>3, <2>4
<1>13. QED
  BY <1>2, <1>5, <1>6, <1>e, <1>7, <1>8, <1>9, <1>10, <1>11, <1>12 DEF PagesNext

-----------------------------------------------------------------------------
(* Each row of a list is shown after the step, is not stored, or is being deleted.     *)
RowsStay(l) ==
  \A i \in DOMAIN view[l] :
    \/ \E j \in DOMAIN view'[l] : view'[l][j].id = view[l][i].id
    \/ view[l][i].id \notin Ids(store[l])
    \/ \E w \in requests' : w.verb = "delete" /\ w.list = l /\ w.row = view[l][i].id

NowShows(m, t) == view' = [view EXCEPT ![m] = t]

LEMMA SameRowsStay ==
  ASSUME NEW l, view'[l] = view[l]
  PROVE  RowsStay(l)
BY DEF RowsStay

LEMMA ListedRowsStay ==
  ASSUME Shape, NEW m \in Lists, NEW t, NowShows(m, t),
         \A i \in DOMAIN view[m] :
           \/ \E j \in DOMAIN t : t[j].id = view[m][i].id
           \/ view[m][i].id \notin Ids(store[m])
           \/ \E w \in requests' : w.verb = "delete" /\ w.list = m /\ w.row = view[m][i].id
  PROVE  \A l \in Lists : RowsStay(l)
<1>1. view'[m] = t /\ \A l \in Lists : l # m => view'[l] = view[l]
  BY DEF Shape, NowShows
<1>2. RowsStay(m)
  BY <1>1 DEF RowsStay
<1>3. QED
  BY <1>1, <1>2, SameRowsStay

LEMMA KeptRowsStay ==
  ASSUME Shape, NEW m \in Lists, NEW t, NowShows(m, t),
         \A i \in DOMAIN view[m] : \E j \in DOMAIN t : t[j].id = view[m][i].id
  PROVE  \A l \in Lists : RowsStay(l)
<1>1. view'[m] = t /\ \A l \in Lists : l # m => view'[l] = view[l]
  BY DEF Shape, NowShows
<1>2. RowsStay(m)
  BY <1>1 DEF RowsStay
<1>3. QED
  BY <1>1, <1>2, SameRowsStay

LEMMA UserRowsStay ==
  ASSUME Shape, NEW m \in Lists, page.gate,
         Add(m) \/ Edit(m) \/ LeaveEmpty(m) \/ RemoveRow(m) \/ Choose(m) \/ Reorder(m) \/ Other(m)
  PROVE  \A l \in Lists : RowsStay(l)
<1>0. Shape /\ m \in Lists
  OBVIOUS
<1>1. view[m] \in Seq(ShownRow) /\ \A i \in DOMAIN view[m] : view[m][i] \in ShownRow
  BY ShownFields
<1>2. CASE Add(m) \/ Other(m)
  BY <1>2, SameRowsStay DEF Add, Other, pageVars
<1>3. CASE Edit(m)
  <2>0. PICK i \in DOMAIN view[m] : \E words \in {view[m][i].words, sent + 1} :
          view' = IF page.lists[m].shows = "at once" THEN [view EXCEPT ![m][i].words = words] ELSE view
    BY <1>3 DEF Edit
  <2>1. PICK words \in {view[m][i].words, sent + 1} :
          view' = IF page.lists[m].shows = "at once" THEN [view EXCEPT ![m][i].words = words] ELSE view
    BY <2>0
  <2>2. CASE view' = view
    BY <2>2, SameRowsStay
  <2>3. CASE view' = [view EXCEPT ![m][i].words = words]
    <3>1. PICK t : t = [view[m] EXCEPT ![i].words = words]
      OBVIOUS
    <3>2. NowShows(m, t)
      BY <2>3, <3>1 DEF NowShows
    <3>3. words \in Nat
      BY <1>1 DEF ShownRow, Shape
    <3>4. DOMAIN t = DOMAIN view[m] /\ \A k \in DOMAIN view[m] : t[k].id = view[m][k].id
      BY <1>1, <3>1, <3>3, EditedRow
    <3>5. \A k \in DOMAIN view[m] : \E j \in DOMAIN t : t[j].id = view[m][k].id
      BY <3>4
    <3>6. QED
      BY <1>0, <3>2, <3>5, KeptRowsStay
  <2>4. QED
    BY <2>1, <2>2, <2>3
<1>e. CASE LeaveEmpty(m)
  <2>1. PICK t \in Seq(ShownRow) :
          /\ view' = [view EXCEPT ![m] = t] /\ DOMAIN t = DOMAIN view[m]
          /\ \A k \in DOMAIN t : t[k].id = view[m][k].id
    BY <1>e, Emptied
  <2>2. NowShows(m, t)
    BY <2>1 DEF NowShows
  <2>3. \A k \in DOMAIN view[m] : \E j \in DOMAIN t : t[j].id = view[m][k].id
    BY <2>1
  <2>4. QED
    BY <1>0, <2>2, <2>3, KeptRowsStay
<1>4. CASE RemoveRow(m)
  <2>1. page.lists[m].joins = 0
    BY PageFacts DEF Shape, Lists, GoodList
  <2>2. PICK i \in DOMAIN view[m] :
          /\ SendChange(Request("delete", m, view[m][i].id, 0))
          /\ view' = IF page.lists[m].shows = "at once" THEN [view EXCEPT ![m] = RemoveAt(@, i)] ELSE view
    BY <1>4, <2>1 DEF RemoveRow
  <2>3. CASE view' = view
    BY <2>3, SameRowsStay
  <2>4. CASE view' = [view EXCEPT ![m] = RemoveAt(@, i)]
    <3>1. PICK t : t = RemoveAt(view[m], i)
      OBVIOUS
    <3>2. NowShows(m, t)
      BY <2>4, <3>1 DEF NowShows
    <3>3. PICK w : w = Request("delete", m, view[m][i].id, 0)
      OBVIOUS
    <3>4. w \in requests' /\ w.verb = "delete" /\ w.list = m /\ w.row = view[m][i].id
      BY <2>2, <3>3 DEF SendChange, Request
    <3>5. PICK n \in Nat : n = Len(view[m]) /\ DOMAIN view[m] = 1..n
      BY <1>1
    <3>a. t \in Seq(ShownRow) /\ Len(t) = Len(view[m]) - 1
          /\ \A k \in 1..(Len(view[m]) - 1) : t[k] = IF k < i THEN view[m][k] ELSE view[m][k + 1]
      BY <1>1, <3>1, Removed
    <3>6. DOMAIN t = 1..(n - 1) /\ \A k \in 1..(n - 1) : t[k] = IF k < i THEN view[m][k] ELSE view[m][k + 1]
      BY <3>5, <3>a
    <3>7. ASSUME NEW k \in 1..n, k # i PROVE \E j \in DOMAIN t : t[j] = view[m][k]
      <4>1. CASE k < i
        <5>1. k \in 1..(n - 1) /\ t[k] = view[m][k]
          BY <3>5, <3>6, <4>1
        <5>2. QED
          BY <3>6, <5>1
      <4>2. CASE k > i
        <5>1. PICK p : p = k - 1
          OBVIOUS
        <5>2. p \in 1..(n - 1) /\ p + 1 = k /\ ~(p < i)
          BY <3>5, <4>2, <5>1
        <5>3. t[p] = view[m][p + 1]
          BY <3>6, <5>2
        <5>4. QED
          BY <3>6, <5>2, <5>3
      <4>3. QED
        BY <3>5, <3>7, <4>1, <4>2
    <3>8. \A k \in DOMAIN view[m] : k # i => \E j \in DOMAIN t : t[j].id = view[m][k].id
      BY <3>5, <3>7
    <3>9. \A k \in DOMAIN view[m] :
            \/ \E j \in DOMAIN t : t[j].id = view[m][k].id
            \/ \E v \in requests' : v.verb = "delete" /\ v.list = m /\ v.row = view[m][k].id
      BY <3>4, <3>8
    <3>10. QED
      BY <1>0, <3>2, <3>9, ListedRowsStay
  <2>5. QED
    BY <2>2, <2>3, <2>4
<1>5. CASE Choose(m)
  <2>1. PICK i \in DOMAIN view[m] : view' = [view EXCEPT ![m] = Choosing(@, view[m][i].id)]
    BY <1>5 DEF Choose
  <2>2. PICK t : t = Choosing(view[m], view[m][i].id)
    OBVIOUS
  <2>3. NowShows(m, t)
    BY <2>1, <2>2 DEF NowShows
  <2>4. DOMAIN t = DOMAIN view[m] /\ \A k \in DOMAIN view[m] : t[k].id = view[m][k].id
    BY <1>1, <2>2, ChosenRow
  <2>5. \A k \in DOMAIN view[m] : \E j \in DOMAIN t : t[j].id = view[m][k].id
    BY <2>4
  <2>6. QED
    BY <1>0, <2>3, <2>5, KeptRowsStay
<1>6. CASE Reorder(m)
  <2>1. PICK i \in DOMAIN view[m], j \in DOMAIN view[m] :
          view' = [view EXCEPT ![m] = InsertAt(RemoveAt(view[m], i), j, view[m][i])]
    BY <1>6 DEF Reorder
  <2>2. PICK t : t = InsertAt(RemoveAt(view[m], i), j, view[m][i])
    OBVIOUS
  <2>3. \A k \in DOMAIN view[m] : \E p \in DOMAIN t : t[p] = view[m][k]
    BY <1>1, <2>2, MovedElement
  <2>4. NowShows(m, t)
    BY <2>1, <2>2 DEF NowShows
  <2>5. \A k \in DOMAIN view[m] : \E p \in DOMAIN t : t[p].id = view[m][k].id
    BY <2>3
  <2>6. QED
    BY <1>0, <2>4, <2>5, KeptRowsStay
<1>7. QED
  BY <1>2, <1>3, <1>e, <1>4, <1>5, <1>6

LEMMA JoinedKeeps ==
  ASSUME NEW list, NEW s \in Seq(ShownRow), NEW row \in ShownRow, NEW t, t = Joined(list, s, row)
  PROVE  \A i \in DOMAIN s : \E k \in DOMAIN t : t[k] = s[i]
<1>1. <<row>> \in Seq(ShownRow) /\ Len(<<row>>) = 1 /\ <<row>>[1] = row
  OBVIOUS
<1>2. PICK n \in Nat : n = Len(s) /\ DOMAIN s = 1..n
  OBVIOUS
<1>3. CASE list.latest
  <2>1. t = <<row>> \o s
    BY <1>3 DEF Joined
  <2>2. /\ t \in Seq(ShownRow) /\ Len(t) = 1 + n
        /\ \A k \in 1..(1 + n) : t[k] = IF k <= 1 THEN row ELSE s[k - 1]
    BY <1>1, <1>2, <2>1, Concatenated
  <2>3. ASSUME NEW i \in 1..n PROVE \E k \in DOMAIN t : t[k] = s[i]
    <3>1. PICK k : k = i + 1
      OBVIOUS
    <3>2. k \in 1..(1 + n) /\ ~(k <= 1) /\ k - 1 = i
      BY <3>1
    <3>3. t[k] = s[k - 1] /\ k \in DOMAIN t
      BY <2>2, <3>2
    <3>4. QED
      BY <3>2, <3>3
  <2>4. QED
    BY <1>2, <2>3
<1>4. CASE ~list.latest
  <2>1. t = Append(s, row)
    BY <1>4 DEF Joined
  <2>2. \A i \in 1..n : i \in DOMAIN t /\ t[i] = s[i]
    BY <1>2, <2>1
  <2>3. QED
    BY <1>2, <2>2
<1>5. QED
  BY <1>3, <1>4

LEMMA AnsweredRowsStay ==
  ASSUME Shape, Gone, NEW w \in requests, page.gate, ChangeAnswered(w)
  PROVE  \A l \in Lists : RowsStay(l)
<1>1. w \in Changes /\ w.stage = "done" /\ view' = IF w.mine THEN Shown(w) ELSE view
  BY DEF ChangeAnswered, Changes
<1>m. PICK m : m = w.list
  OBVIOUS
<1>2. m \in Lists /\ view[m] \in Seq(ShownRow) /\ w.row \in Nat /\ w.words \in Nat /\ w.verb \in Verbs(m)
  BY <1>1, <1>m, ChangeIsOK, ShownFields
<1>s. PICK s \in Seq(ShownRow) : s = view[m]
  BY <1>2
<1>3. w.verb # "accept"
  BY <1>2, PageFacts DEF Shape, Lists, GoodList, Verbs
<1>4. CASE view' = view
  BY <1>4, SameRowsStay
<1>5. ASSUME NEW t, NowShows(m, t),
             \A i \in DOMAIN s : \/ \E j \in DOMAIN t : t[j].id = s[i].id
                                 \/ s[i].id \notin Ids(store[m])
      PROVE  \A l \in Lists : RowsStay(l)
  BY <1>2, <1>s, <1>5, ListedRowsStay
<1>6. CASE w.mine /\ page.lists[m].shows # "reload" /\ w.verb = "post"
  <2>1. PICK row : row = Row(w.row, w.words)
    OBVIOUS
  <2>2. row \in ShownRow
    BY <1>2, <2>1, PlacedRow
  <2>3. PICK t : t = Joined(page.lists[m], s, row)
    OBVIOUS
  <2>4. NowShows(m, t)
    BY <1>1, <1>m, <1>s, <1>6, <2>1, <2>3 DEF Shown, NowShows
  <2>5. \A i \in DOMAIN s : \E k \in DOMAIN t : t[k].id = s[i].id
    BY <2>2, <2>3, JoinedKeeps
  <2>6. QED
    BY <1>5, <2>4, <2>5
<1>7. CASE w.mine /\ page.lists[m].shows = "on answer" /\ w.verb = "delete"
  <2>1. PICK t : t = Without(s, w.row)
    OBVIOUS
  <2>2. NowShows(m, t)
    <3>1. Shown(w) = [view EXCEPT ![m] = Without(view[m], w.row)]
      BY <1>m, <1>7 DEF Shown
    <3>2. QED
      BY <1>1, <1>s, <1>7, <2>1, <3>1 DEF NowShows
  <2>3. PICK places : places = {i \in DOMAIN s : s[i].id # w.row}
    OBVIOUS
  <2>4. t = Kept(s, places) /\ places \in SUBSET (DOMAIN s)
    BY <2>1, <2>3 DEF Without
  <2>5. \A i \in places : \E k \in DOMAIN t : t[k] = s[i]
    BY <2>4, KeptElements
  <2>6. w.row \notin Ids(store[m])
    BY <1>1, <1>m, <1>7 DEF Gone
  <2>7. \A i \in DOMAIN s : \/ \E j \in DOMAIN t : t[j].id = s[i].id
                            \/ s[i].id \notin Ids(store[m])
    BY <2>3, <2>5, <2>6
  <2>8. QED
    BY <1>5, <2>2, <2>7
<1>8. CASE w.mine /\ page.lists[m].shows = "on answer" /\ w.verb = "put" /\ w.inHand
  <2>1. PICK t : t = [i \in DOMAIN s |-> IF s[i].id = w.row THEN [s[i] EXCEPT !.words = w.words] ELSE s[i]]
    OBVIOUS
  <2>2. NowShows(m, t)
    <3>1. Shown(w) = [view EXCEPT ![m] = [i \in DOMAIN view[m] |->
                        IF view[m][i].id = w.row THEN [view[m][i] EXCEPT !.words = w.words] ELSE view[m][i]]]
      BY <1>m, <1>8 DEF Shown
    <3>2. QED
      BY <1>1, <1>s, <1>8, <2>1, <3>1 DEF NowShows
  <2>3. \A i \in DOMAIN s : i \in DOMAIN t /\ t[i].id = s[i].id
    BY <2>1 DEF ShownRow
  <2>4. QED
    BY <1>5, <2>2, <2>3
<1>9. QED
  BY <1>1, <1>m, <1>3, <1>4, <1>6, <1>7, <1>8 DEF Shown

LEMMA LoadedRowsStay ==
  ASSUME Shape, OldView, NEW q \in requests, page.gate, Loaded(q), NEW l \in Lists, page.lists[l].via \in page.awaited,
         page.lists[l].keyed => OneText(l)
  PROVE  RowsStay(l)
<1>1. /\ q \in Pending /\ q.stage = "done" /\ q \in Served
      /\ view' = [m \in Lists |-> IF page.lists[m].via = q.via
                                  THEN Listing(page.lists[m], q.rows[m]) ELSE view[m]]
  BY DEF Loaded, Pending, Served
<1>2. CASE page.lists[l].via # q.via
  BY <1>1, <1>2, SameRowsStay
<1>3. CASE page.lists[l].via = q.via
  <2>1. view[l] = Unloaded(page.lists[l])
    BY <1>1, <1>3 DEF OldView
  <2>2. view'[l] = Listing(page.lists[l], q.rows[l])
    BY <1>1, <1>3
  <2>3. CASE ~(page.lists[l].keyed /\ page.lists[l].blank)
    <3>1. view[l] = <<>>
      BY <2>1, <2>3 DEF Unloaded
    <3>2. QED
      BY <3>1 DEF RowsStay
  <2>4. CASE page.lists[l].keyed /\ page.lists[l].blank
    <3>1. \A i \in DOMAIN view[l] : view[l][i].id = 1
      BY <2>1, <2>4 DEF Unloaded, Row
    <3>2. PICK r \in q.rows[l] : r.id = 1
      BY <1>1, <2>4, IdsOf, ZenonT(60) DEF OneText
    <3>3. GoodRows(q.rows[l])
      BY <1>1 DEF Shape, RequestOK, LoadOK, GoodStore, Pending
    <3>4. PICK k \in DOMAIN view'[l] : view'[l][k] = Seen(r)
      BY <2>2, <3>2, <3>3, Listed
    <3>5. view'[l][k].id = 1
      BY <3>2, <3>4 DEF Seen
    <3>6. QED
      BY <3>1, <3>5 DEF RowsStay
  <2>5. QED
    BY <2>3, <2>4
<1>4. QED
  BY <1>2, <1>3

-----------------------------------------------------------------------------
(* What is shown does not come too late, and what has been deleted does not come back. *)
Showing ==
  /\ Sound /\ Waited /\ OldView /\ Gone
  /\ \A l \in Lists : page.lists[l].keyed => OneText(l)

LEMMA ShowingAtFirst ==
  ASSUME PagesInit
  PROVE  Showing
<1>1. Sound
  BY SoundAtFirst
<1>2. /\ requests = {} /\ ~open
      /\ store = [l \in Lists |-> {Place(Row(i, i), i) : i \in FirstIds(page.lists[l])}]
  BY DEF PagesInit
<1>3. Waited /\ OldView /\ Gone /\ Served = {}
  BY <1>2 DEF Waited, OldView, Gone, Changes, Pending, Served
<1>4. ASSUME NEW l \in Lists, page.lists[l].keyed PROVE Ids(store[l]) = {1}
  <2>1. page.lists[l].api \subseteq {"put"}
    BY <1>1, <1>4, PageFacts DEF Sound, Shape, Lists, GoodList
  <2>2. FirstIds(page.lists[l]) = {1}
    BY <2>1 DEF FirstIds
  <2>3. PICK r : r = Place(Row(1, 1), 1)
    OBVIOUS
  <2>4. r.id = 1
    BY <2>3, PlacedRow
  <2>5. store[l] = {r}
    BY <1>2, <2>2, <2>3
  <2>6. QED
    BY <2>4, <2>5 DEF Ids
<1>5. QED
  BY <1>1, <1>3, <1>4 DEF Showing, OneText

LEMMA ShowingAlways == PagesSpec => []Showing
<1>1. PagesInit => Showing
  BY ShowingAtFirst
<1>2. Showing /\ PagesNext => Showing'
  <2> SUFFICES ASSUME Showing, PagesNext PROVE Showing'
    OBVIOUS
  <2>1. Sound /\ Waited /\ OldView /\ Gone
    BY DEF Showing
  <2>2. Shape' /\ Steps
    BY <2>1, EveryStep
  <2>3. Sound'
    BY <2>1, <2>2, NumberedAgain, FreshAgain DEF Sound
  <2>4. page' = page /\ Lists' = Lists
    BY <2>2 DEF Steps, Lists
  <2>5. Waited' /\ OldView'
    BY <2>1, <2>2, <2>4, WaitedAgain, OldViewAgain
  <2>6. DoneStep /\ TextsStay
    BY <2>1, EveryDone
  <2>7. Gone'
    BY <2>1, <2>2, <2>6, GoneAgain
  <2>8. \A l \in Lists : page.lists[l].keyed => OneText(l)'
    BY <2>2, <2>6, OneTextAgain DEF Showing
  <2>9. QED
    BY <2>3, <2>4, <2>5, <2>7, <2>8 DEF Showing
<1>3. Showing /\ UNCHANGED productionVars => Showing'
  <2> SUFFICES ASSUME Showing, UNCHANGED productionVars PROVE Showing'
    OBVIOUS
  <2>1. /\ page' = page /\ open' = open /\ view' = view /\ got' = got /\ failed' = failed /\ store' = store
        /\ requests' = requests /\ sent' = sent /\ Lists' = Lists
    BY DEF productionVars, pageVars, counters, Lists
  <2>2. Sound'
    BY <2>1 DEF Showing, Sound, Shape, Numbered, Fresh, Changes, Served, Adding, Pending, RequestOK, LoadOK, ChangeOK,
       Verbs, GoodStore, Lists, Ids
  <2>3. Waited' /\ OldView' /\ Gone'
    BY <2>1 DEF Showing, Waited, OldView, Gone, Changes, Pending, Ids
  <2>4. \A l \in Lists : page.lists[l].keyed => OneText(l)'
    BY <2>1 DEF Showing, OneText, Served, Pending, Ids
  <2>5. QED
    BY <2>1, <2>2, <2>3, <2>4 DEF Showing
<1>4. QED
  BY <1>1, <1>2, <1>3, PTL DEF PagesSpec

LEMMA EveryRowStays ==
  ASSUME Showing, PagesNext, open, page.gate, NEW l \in Lists, page.lists[l].via \in page.awaited
  PROVE  RowsStay(l)
<1>1. Shape /\ OldView /\ Gone /\ (page.lists[l].keyed => OneText(l))
  BY DEF Showing, Sound
<1>2. ASSUME Close PROVE RowsStay(l)
  BY <1>2, SameRowsStay DEF Close
<1>3. ASSUME NEW m \in Lists, \/ Add(m) \/ Edit(m) \/ LeaveEmpty(m) \/ RemoveRow(m)
                               \/ Choose(m) \/ Reorder(m) \/ Other(m)
      PROVE  RowsStay(l)
  BY <1>1, <1>3, UserRowsStay
<1>4. ASSUME NEW q \in requests, LoadServed(q) \/ LoadFailed(q) \/ Write(q) \/ ChooseFind(q) \/ ChooseLock(q)
                                 \/ ChooseCommit(q) \/ Fail(q)
      PROVE  RowsStay(l)
  BY <1>4, SameRowsStay DEF LoadServed, LoadFailed, Write, ChooseFind, ChooseLock, ChooseCommit, Fail, pageVars
<1>5. ASSUME NEW q \in requests, Loaded(q) PROVE RowsStay(l)
  BY <1>1, <1>5, LoadedRowsStay
<1>6. ASSUME NEW q \in requests, ChangeAnswered(q) PROVE RowsStay(l)
  BY <1>1, <1>6, AnsweredRowsStay
<1>7. ASSUME Open PROVE RowsStay(l)
  BY <1>7 DEF Open
<1>8. QED
  BY <1>2, <1>3, <1>4, <1>5, <1>6, <1>7 DEF PagesNext

(* On a page that waits for a list before it shows its controls, a row that is shown,  *)
(* and stored, leaves the list only because the user removes it.                       *)
THEOREM RowsAreKept == PagesSpec => ShownRowsStay
<1> DEFINE Staying == open /\ open' => \A l \in Lists : page.gate /\ page.lists[l].via \in page.awaited => RowsStay(l)
<1>1. Showing /\ PagesNext => Staying
  BY EveryRowStays
<1>2. Showing /\ UNCHANGED productionVars => Staying
  BY SameRowsStay DEF productionVars, pageVars
<1>3. QED
  BY <1>1, <1>2, ShowingAlways, PTL DEF PagesSpec, ShownRowsStay, RowsStay

-----------------------------------------------------------------------------
(* The page's own bookkeeping, against the server's.  Mirror says what a list, as  *)
(* it is shown, has to do with the stored rows R while the requests W are on their *)
(* way: a row or a field may differ only because one of these says why, and every  *)
(* request carries what its service or its answer will make the two agree again.   *)
(* L are the rows that an invite's acceptance, not yet answered, has added.        *)
Earlier(a, b) == a.pos < b.pos \/ (a.pos = b.pos /\ a.id < b.id)
Above(list, a, b) == IF list.latest THEN Earlier(b, a) ELSE Earlier(a, b)
Asked(W, verb, id) == \E w \in W : w.verb = verb /\ w.row = id

(* A stored row is shown, or is being added or removed. *)
AllAreShown(s, R, W, L) ==
  \A r \in R :
    r.id \in L \/ Asked(W, "post", r.id) \/ Asked(W, "delete", r.id) \/ \E i \in DOMAIN s : s[i].id = r.id

(* A row that is shown is stored, or is being removed. *)
NoneTooMany(s, R, W) ==
  \A i \in DOMAIN s :
    s[i].id \in Ids(R) \/ Asked(W, "delete", s[i].id) \/ Asked(W, "accept", s[i].id)

(* Its words agree with those that are stored, or that a save carries. *)
SameWords(list, s, R, W) ==
  \A i \in DOMAIN s : \A r \in R : s[i].id = r.id =>
    /\ ~Asked(W, "put", r.id) => Agrees(list, s[i].words, r.words)
    /\ \A w \in W : w.verb = "put" /\ w.row = r.id =>
         /\ w.stage = "done" => r.words = w.words
         /\ list.shows = "at once" => Agrees(list, s[i].words, w.words)

(* The row that is shown chosen is the one that is, or that the choice names. *)
SameChoice(s, R, W) ==
  \A i \in DOMAIN s : \A r \in R : s[i].id = r.id =>
    /\ (\A w \in W : w.verb # "choose") => (s[i].chosen <=> r.chosen)
    /\ \A w \in W : w.verb = "choose" =>
         /\ s[i].chosen <=> r.id = w.row
         /\ w.stage = "done" => (r.chosen <=> r.id = w.row)

(* The rows are in the stored order, or in that of an order on its way. *)
SameOrder(list, s, R, W) ==
  (\A w \in W : w.verb = "reorder" => w.stage = "done") =>
    \A i, j \in DOMAIN s : \A a, b \in R :
      i < j /\ s[i].id = a.id /\ s[j].id = b.id => Above(list, a, b)
Names(s, ids) ==
  /\ \A a, b \in DOMAIN ids : ids[a] = ids[b] => a = b
  /\ \A i \in DOMAIN s : \E a \in DOMAIN ids : ids[a] = s[i].id
  /\ \A i, j \in DOMAIN s : \A a, b \in DOMAIN ids : i < j /\ ids[a] = s[i].id /\ ids[b] = s[j].id => a < b
OrderSent(s, W) == \A w \in W : w.verb = "reorder" /\ w.stage = "sent" => Names(s, w.ids)

(* What each request will find: the new row is stored last and shown nowhere, the *)
(* row to remove is gone, and a choice has seen every row that is chosen.          *)
IsLast(it, s, R) == \A i \in DOMAIN s : \A r \in R : s[i].id = r.id => Earlier(r, it)
RowsToCome(s, R, W) ==
  \A w \in W : w.verb = "post" =>
    /\ \A i \in DOMAIN s : s[i].id # w.row
    /\ \A v \in W : v # w => v.row # w.row
    /\ w.stage = "done" => \E it \in R : it.id = w.row /\ it.words = w.words /\ ~it.chosen /\ IsLast(it, s, R)
RowsGone(list, s, R, W) ==
  \A w \in W : w.verb \in {"delete", "accept"} =>
    /\ list.shows = "at once" => \A i \in DOMAIN s : s[i].id # w.row
    /\ w.stage = "done" => w.row \notin Ids(R)
ChoiceMade(R, W) ==
  \A w \in W : w.verb = "choose" =>
    /\ w.row \in Ids(R)
    /\ w.stage \in {"seen", "locked"} => \A r \in R : r.chosen => r.id \in w.seen

Mirror(list, s, R, W, L) ==
  /\ Apart(s)
  /\ AllAreShown(s, R, W, L) /\ NoneTooMany(s, R, W)
  /\ SameWords(list, s, R, W) /\ SameChoice(s, R, W)
  /\ SameOrder(list, s, R, W) /\ OrderSent(s, W)
  /\ RowsToCome(s, R, W) /\ RowsGone(list, s, R, W) /\ ChoiceMade(R, W)

(* No two requests on the list cross, and each answer finds its row. *)
Tame(W) ==
  /\ \A w \in W : w.inHand
  /\ \A v, w \in W : v # w => ~Clash(v, w)

Waiting(l) == Loads(page.lists[l].via) # {}
Late(l) ==
  {w.n : w \in {w \in Changes : w.verb = "accept" /\ w.stage = "done" /\ page.lists[w.list].joins = l}}
Reflects(l, s) == Mirror(page.lists[l], s, store[l], Writes(l), Late(l))
Alone == failures = 0 /\ others = 0

(* A list is loaded, and will not be again before something else is sent. *)
Settled(l) ==
  /\ page.lists[l].via \in got /\ ~Waiting(l)
  /\ page.lists[l].shows = "reload" => Writes(l) = {}

(* The inductive invariant of a list: what it shows, once settled, and what every *)
(* load on its way has brought, mirror what is stored.                             *)
Faithful(l) ==
  /\ \A w \in Changes : l \in Touched(w) => w.mine
  /\ Tame(Writes(l))
  /\ Waiting(l) => Writes(l) = {}
  /\ \A q \in Served : q.via = page.lists[l].via => Reflects(l, Listing(page.lists[l], q.rows[l]))
  /\ Settled(l) => Reflects(l, view[l])
AllAskedFor == \A g \in page.gets : g \in got \/ Loads(g) # {}
Mirrored ==
  Alone /\ open => AllAskedFor /\ \A l \in Lists \ history.crossed : Faithful(l)

LEMMA ListedInOrder ==
  ASSUME NEW list, NEW R, GoodRows(R)
  PROVE  \A i, j \in DOMAIN Listing(list, R) : \A a, b \in R :
           i < j /\ Listing(list, R)[i].id = a.id /\ Listing(list, R)[j].id = b.id => Above(list, a, b)
<1> DEFINE s == InOrder(R, OrderBy(list, R))
           n == Cardinality(R)
           shown == [i \in 1..n |-> Seen(s[i])]
<1>1. IsFiniteSet(R) /\ \A a, b \in R : a.id = b.id => a = b
  BY DEF GoodRows
<1>2. /\ n \in Nat /\ s \in Seq(R) /\ Len(s) = n
      /\ \A i, j \in 1..n : <<s[i], s[j]>> \in OrderBy(list, R) <=> i < j
  BY <1>1, OrderByIsStrict, InOrderIsABijection
<1>3. Listing(list, R) = shown
  BY DEF Listing, Seen
<1>4. \A a, b \in R : <<a, b>> \in OrderBy(list, R) <=> Above(list, a, b)
  BY DEF OrderBy, Above, Earlier
<1> HIDE DEF s, n
<1>5. \A i \in 1..n : s[i] \in R /\ Seen(s[i]).id = s[i].id
  BY <1>2 DEF Seen
<1>6. DOMAIN shown = 1..n /\ \A i \in 1..n : shown[i] = Seen(s[i])
  OBVIOUS
<1> HIDE DEF shown
<1>7. ASSUME NEW i \in 1..n, NEW j \in 1..n, NEW a \in R, NEW b \in R, i < j, shown[i].id = a.id, shown[j].id = b.id
      PROVE  Above(list, a, b)
  <2>1. s[i] = a /\ s[j] = b
    BY <1>1, <1>5, <1>6, <1>7
  <2>2. QED
    BY <1>2, <1>4, <1>7, <2>1
<1>8. QED
  BY <1>3, <1>6, <1>7

(* A list that has just been loaded shows what was stored ...                     *)
LEMMA LoadedMirror ==
  ASSUME NEW list, NEW R, GoodRows(R), NEW L
  PROVE  Mirror(list, Listing(list, R), R, {}, L)
<1> DEFINE s == Listing(list, R)
<1>1. /\ \A k \in DOMAIN s : \E r \in R : s[k] = Seen(r)
      /\ \A r \in R : \E k \in DOMAIN s : s[k] = Seen(r)
      /\ \A j, k \in DOMAIN s : s[j].id = s[k].id => j = k
  BY Listed
<1>2. \A i, j \in DOMAIN s : \A a, b \in R : i < j /\ s[i].id = a.id /\ s[j].id = b.id => Above(list, a, b)
  BY ListedInOrder
<1> HIDE DEF s
<1>3. \A r : Seen(r).id = r.id /\ Seen(r).words = r.words /\ Seen(r).chosen = r.chosen
  BY DEF Seen
<1>4. \A a, b \in R : a.id = b.id => a = b
  BY DEF GoodRows
<1>5. \A k \in DOMAIN s : \A r \in R : s[k].id = r.id => s[k] = Seen(r)
  BY <1>1, <1>3, <1>4
<1>6. Apart(s)
  BY <1>1 DEF Apart
<1>7. AllAreShown(s, R, {}, L) /\ NoneTooMany(s, R, {})
  BY <1>1, <1>3, IdsOf DEF AllAreShown, NoneTooMany
<1>8. SameWords(list, s, R, {}) /\ SameChoice(s, R, {})
  BY <1>3, <1>5 DEF SameWords, SameChoice, Agrees
<1>9. SameOrder(list, s, R, {})
  BY <1>2 DEF SameOrder
<1>10. OrderSent(s, {}) /\ RowsToCome(s, R, {}) /\ RowsGone(list, s, R, {}) /\ ChoiceMade(R, {})
  BY DEF OrderSent, RowsToCome, RowsGone, ChoiceMade
<1>11. QED
  BY <1>6, <1>7, <1>8, <1>9, <1>10 DEF Mirror, s

(* ... and one that nothing is on its way for shows what is stored.                *)
LEMMA QuietMirror ==
  ASSUME NEW list, NEW R, GoodRows(R), NEW s \in Seq(ShownRow), Mirror(list, s, R, {}, {})
  PROVE  /\ DOMAIN s = DOMAIN Listing(list, R)
         /\ \A i \in DOMAIN s :
              /\ s[i].id = Listing(list, R)[i].id /\ s[i].chosen = Listing(list, R)[i].chosen
              /\ Agrees(list, s[i].words, Listing(list, R)[i].words)
<1> DEFINE n == Len(s)
           order == OrderBy(list, R)
           RowAt(i) == CHOOSE r \in R : r.id = s[i].id
           f == [i \in 1..n |-> RowAt(i)]
<1>1. n \in Nat /\ DOMAIN s = 1..n /\ \A i \in 1..n : s[i] \in ShownRow
  OBVIOUS
<1>2. \A i \in 1..n : \E r \in R : r.id = s[i].id
  BY <1>1, IdsOf DEF Mirror, NoneTooMany, Asked
<1>3. \A i \in 1..n : RowAt(i) \in R /\ RowAt(i).id = s[i].id
  BY <1>2
<1>4. f \in [1..n -> R] /\ \A i \in 1..n : f[i] \in R /\ f[i].id = s[i].id
  BY <1>3
<1> HIDE DEF f, n
<1>5. \A r \in R : \E i \in 1..n : f[i] = r
  <2>1. \A r \in R : \E i \in 1..n : s[i].id = r.id
    BY <1>1 DEF Mirror, AllAreShown, Asked
  <2>2. \A a, b \in R : a.id = b.id => a = b
    BY DEF GoodRows
  <2>3. QED
    BY <1>4, <2>1, <2>2
<1>6. ASSUME NEW i \in 1..n, NEW j \in 1..n, i < j
      PROVE  <<f[i], f[j]>> \in order
  <2>1. Above(list, f[i], f[j])
    BY <1>1, <1>4, <1>6 DEF Mirror, SameOrder
  <2>2. QED
    BY <1>4, <2>1 DEF OrderBy, Above, Earlier
<1>7. LaysOut(f, n, R, order)
  BY <1>1, <1>4, <1>5, <1>6 DEF LaysOut
<1>8. Cardinality(R) = n /\ \A i \in 1..n : InOrder(R, order)[i] = f[i]
  BY <1>7, OrderByIsStrict, LaidOut
<1>9. ASSUME NEW i \in 1..n
      PROVE  /\ s[i].id = Seen(f[i]).id /\ s[i].chosen = Seen(f[i]).chosen
             /\ Agrees(list, s[i].words, Seen(f[i]).words)
  <2>1. f[i] \in R /\ f[i].id = s[i].id
    BY <1>4
  <2>2. Agrees(list, s[i].words, f[i].words) /\ (s[i].chosen <=> f[i].chosen)
    BY <1>1, <2>1 DEF Mirror, SameWords, SameChoice, Asked
  <2>3. s[i].chosen \in BOOLEAN /\ f[i].chosen \in BOOLEAN
    BY <1>1, <2>1 DEF GoodRows, StoredRow, ShownRow
  <2>4. s[i].chosen = f[i].chosen
    BY <2>2, <2>3
  <2>5. Seen(f[i]).id = f[i].id /\ Seen(f[i]).words = f[i].words /\ Seen(f[i]).chosen = f[i].chosen
    BY DEF Seen
  <2>6. QED
    BY <2>1, <2>2, <2>4, <2>5
<1>10. Listing(list, R) = [i \in 1..n |-> Seen(f[i])]
  BY <1>8 DEF Listing, Seen
<1>11. DOMAIN Listing(list, R) = 1..n /\ \A i \in 1..n : Listing(list, R)[i] = Seen(f[i])
  BY <1>10
<1>12. QED
  BY <1>1, <1>9, <1>11

-----------------------------------------------------------------------------
(* What a list is to the one it was.                                              *)
Reworded(t, s, id, words) ==
  /\ DOMAIN t = DOMAIN s
  /\ \A k \in DOMAIN s :
       /\ t[k].id = s[k].id /\ (t[k].chosen <=> s[k].chosen)
       /\ t[k].words = IF s[k].id = id THEN words ELSE s[k].words
Rechosen(t, s, id) ==
  /\ DOMAIN t = DOMAIN s
  /\ \A k \in DOMAIN s :
       /\ t[k].id = s[k].id /\ t[k].words = s[k].words
       /\ t[k].chosen <=> s[k].id = id
Less(t, s, id) ==
  /\ Apart(t)
  /\ \A k \in DOMAIN t : t[k].id # id /\ \E i \in DOMAIN s : t[k] = s[i]
  /\ \A k, m \in DOMAIN t : k < m => \E i, j \in DOMAIN s : i < j /\ t[k] = s[i] /\ t[m] = s[j]
  /\ \A i \in DOMAIN s : s[i].id # id => \E k \in DOMAIN t : t[k] = s[i]
Permuted(t, s) ==
  /\ Apart(t)
  /\ \A k \in DOMAIN t : \E i \in DOMAIN s : t[k] = s[i]
  /\ \A i \in DOMAIN s : \E k \in DOMAIN t : t[k] = s[i]

(* A change is sent. *)
Sent(W, w, V) == w \notin W /\ w.stage = "sent" /\ V = W \union {w} /\ Tame(V)

LEMMA OneMoreSent ==
  ASSUME NEW list, NEW s, NEW R, NEW W, NEW L, NEW w, NEW V, Sent(W, w, V)
  PROVE  /\ AllAreShown(s, R, W, L) => AllAreShown(s, R, V, L)
         /\ NoneTooMany(s, R, W) => NoneTooMany(s, R, V)
         /\ w.verb # "put" /\ SameWords(list, s, R, W) => SameWords(list, s, R, V)
         /\ w.verb # "choose" /\ SameChoice(s, R, W) => SameChoice(s, R, V)
         /\ w.verb # "choose" /\ ChoiceMade(R, W) => ChoiceMade(R, V)
         /\ SameOrder(list, s, R, W) => SameOrder(list, s, R, V)
         /\ w.verb # "reorder" /\ OrderSent(s, W) => OrderSent(s, V)
         /\ w.verb # "post" /\ (\A v \in W : v.verb = "post" => v.row # w.row) /\ RowsToCome(s, R, W) =>
              RowsToCome(s, R, V)
         /\ w.verb \notin {"delete", "accept"} /\ RowsGone(list, s, R, W) => RowsGone(list, s, R, V)
<1>1. V = W \union {w} /\ w.stage = "sent" /\ w \notin W
  BY DEF Sent
<1>2. AllAreShown(s, R, W, L) => AllAreShown(s, R, V, L)
  BY <1>1 DEF AllAreShown, Asked
<1>3. NoneTooMany(s, R, W) => NoneTooMany(s, R, V)
  BY <1>1 DEF NoneTooMany, Asked
<1>4. ASSUME w.verb # "put", SameWords(list, s, R, W)
      PROVE  SameWords(list, s, R, V)
  BY <1>1, <1>4 DEF SameWords, Asked
<1>5. ASSUME w.verb # "choose", SameChoice(s, R, W)
      PROVE  SameChoice(s, R, V)
  BY <1>1, <1>5 DEF SameChoice
<1>6. ASSUME w.verb # "choose", ChoiceMade(R, W)
      PROVE  ChoiceMade(R, V)
  BY <1>1, <1>6 DEF ChoiceMade
<1>7. SameOrder(list, s, R, W) => SameOrder(list, s, R, V)
  BY <1>1 DEF SameOrder
<1>8. w.verb # "reorder" /\ OrderSent(s, W) => OrderSent(s, V)
  BY <1>1 DEF OrderSent
<1>9. ASSUME w.verb # "post", \A v \in W : v.verb = "post" => v.row # w.row, RowsToCome(s, R, W)
      PROVE  RowsToCome(s, R, V)
  BY <1>1, <1>9 DEF RowsToCome
<1>10. ASSUME w.verb \notin {"delete", "accept"}, RowsGone(list, s, R, W)
       PROVE  RowsGone(list, s, R, V)
  BY <1>1, <1>10 DEF RowsGone
<1>11. QED
  BY <1>2, <1>3, <1>4, <1>5, <1>6, <1>7, <1>8, <1>9, <1>10

LEMMA AmongTheRows ==
  ASSUME NEW list, NEW s, NEW R, NEW W, NEW t, \A k \in DOMAIN t : \E i \in DOMAIN s : t[k] = s[i]
  PROVE  /\ NoneTooMany(s, R, W) => NoneTooMany(t, R, W)
         /\ SameWords(list, s, R, W) => SameWords(list, t, R, W)
         /\ SameChoice(s, R, W) => SameChoice(t, R, W)
         /\ RowsGone(list, s, R, W) => RowsGone(list, t, R, W)
         /\ \A it : IsLast(it, s, R) => IsLast(it, t, R)
         /\ RowsToCome(s, R, W) => RowsToCome(t, R, W)
<1>1. ASSUME NoneTooMany(s, R, W), NEW k \in DOMAIN t
      PROVE  t[k].id \in Ids(R) \/ Asked(W, "delete", t[k].id) \/ Asked(W, "accept", t[k].id)
  <2>1. PICK i \in DOMAIN s : t[k] = s[i]
    OBVIOUS
  <2>2. QED
    BY <1>1, <2>1 DEF NoneTooMany
<1>2. ASSUME SameWords(list, s, R, W), NEW k \in DOMAIN t, NEW r \in R, t[k].id = r.id
      PROVE  /\ ~Asked(W, "put", r.id) => Agrees(list, t[k].words, r.words)
             /\ \A w \in W : w.verb = "put" /\ w.row = r.id =>
                  /\ w.stage = "done" => r.words = w.words
                  /\ list.shows = "at once" => Agrees(list, t[k].words, w.words)
  <2>1. PICK i \in DOMAIN s : t[k] = s[i]
    OBVIOUS
  <2>2. s[i].id = r.id
    BY <1>2, <2>1
  <2>3. /\ ~Asked(W, "put", r.id) => Agrees(list, s[i].words, r.words)
        /\ \A w \in W : w.verb = "put" /\ w.row = r.id =>
             /\ w.stage = "done" => r.words = w.words
             /\ list.shows = "at once" => Agrees(list, s[i].words, w.words)
    BY <1>2, <2>2 DEF SameWords
  <2>4. QED
    BY <2>1, <2>3
<1>3. ASSUME SameChoice(s, R, W), NEW k \in DOMAIN t, NEW r \in R, t[k].id = r.id
      PROVE  /\ (\A w \in W : w.verb # "choose") => (t[k].chosen <=> r.chosen)
             /\ \A w \in W : w.verb = "choose" =>
                  /\ t[k].chosen <=> r.id = w.row
                  /\ w.stage = "done" => (r.chosen <=> r.id = w.row)
  <2>1. PICK i \in DOMAIN s : t[k] = s[i]
    OBVIOUS
  <2>2. QED
    BY <1>3, <2>1 DEF SameChoice
<1>4. \A x : (\A i \in DOMAIN s : s[i].id # x) => \A k \in DOMAIN t : t[k].id # x
  OBVIOUS
<1>5. \A it : IsLast(it, s, R) => IsLast(it, t, R)
  BY DEF IsLast
<1>6. RowsGone(list, s, R, W) => RowsGone(list, t, R, W)
  BY <1>4 DEF RowsGone
<1>7. RowsToCome(s, R, W) => RowsToCome(t, R, W)
  BY <1>4, <1>5 DEF RowsToCome
<1>8. QED
  BY <1>1, <1>2, <1>3, <1>5, <1>6, <1>7 DEF NoneTooMany, SameWords, SameChoice

LEMMA SameRowsInOrder ==
  ASSUME NEW list, NEW s, NEW R, NEW W, NEW L, NEW t, DOMAIN t = DOMAIN s, \A k \in DOMAIN s : t[k].id = s[k].id
  PROVE  /\ Apart(s) => Apart(t)
         /\ AllAreShown(s, R, W, L) => AllAreShown(t, R, W, L)
         /\ NoneTooMany(s, R, W) => NoneTooMany(t, R, W)
         /\ (\A k \in DOMAIN s : t[k].words = s[k].words) /\ SameWords(list, s, R, W) => SameWords(list, t, R, W)
         /\ (\A k \in DOMAIN s : t[k].chosen <=> s[k].chosen) /\ SameChoice(s, R, W) => SameChoice(t, R, W)
         /\ SameOrder(list, s, R, W) => SameOrder(list, t, R, W)
         /\ OrderSent(s, W) => OrderSent(t, W)
         /\ RowsToCome(s, R, W) => RowsToCome(t, R, W)
         /\ RowsGone(list, s, R, W) => RowsGone(list, t, R, W)
<1>1. Apart(s) => Apart(t)
  BY DEF Apart
<1>2. AllAreShown(s, R, W, L) => AllAreShown(t, R, W, L)
  BY DEF AllAreShown
<1>3. NoneTooMany(s, R, W) => NoneTooMany(t, R, W)
  BY DEF NoneTooMany
<1>4. SameOrder(list, s, R, W) => SameOrder(list, t, R, W)
  BY DEF SameOrder
<1>5. \A ids : Names(s, ids) => Names(t, ids)
  BY DEF Names
<1>6. \A it : IsLast(it, s, R) => IsLast(it, t, R)
  BY DEF IsLast
<1>7. \A x : (\A i \in DOMAIN s : s[i].id # x) => \A k \in DOMAIN t : t[k].id # x
  OBVIOUS
<1>8. OrderSent(s, W) => OrderSent(t, W)
  BY <1>5 DEF OrderSent
<1>9. RowsToCome(s, R, W) => RowsToCome(t, R, W)
  BY <1>6, <1>7 DEF RowsToCome
<1>10. RowsGone(list, s, R, W) => RowsGone(list, t, R, W)
  BY <1>7 DEF RowsGone
<1>11. ASSUME \A k \in DOMAIN s : t[k].words = s[k].words, SameWords(list, s, R, W)
       PROVE  SameWords(list, t, R, W)
  <2>1. ASSUME NEW k \in DOMAIN t, NEW r \in R, t[k].id = r.id
        PROVE  /\ ~Asked(W, "put", r.id) => Agrees(list, t[k].words, r.words)
               /\ \A w \in W : w.verb = "put" /\ w.row = r.id =>
                    /\ w.stage = "done" => r.words = w.words
                    /\ list.shows = "at once" => Agrees(list, t[k].words, w.words)
    <3>1. k \in DOMAIN s /\ s[k].id = r.id /\ t[k].words = s[k].words
      BY <1>11, <2>1
    <3>2. /\ ~Asked(W, "put", r.id) => Agrees(list, s[k].words, r.words)
          /\ \A w \in W : w.verb = "put" /\ w.row = r.id =>
               /\ w.stage = "done" => r.words = w.words
               /\ list.shows = "at once" => Agrees(list, s[k].words, w.words)
      BY <1>11, <3>1 DEF SameWords
    <3>3. QED
      BY <3>1, <3>2
  <2>2. QED
    BY <2>1 DEF SameWords
<1>12. ASSUME \A k \in DOMAIN s : t[k].chosen <=> s[k].chosen, SameChoice(s, R, W)
       PROVE  SameChoice(t, R, W)
  BY <1>12 DEF SameChoice
<1>13. QED
  BY <1>1, <1>2, <1>3, <1>4, <1>8, <1>9, <1>10, <1>11, <1>12

LEMMA PostSent ==
  ASSUME NEW list, NEW s, NEW R, NEW W, NEW L, Mirror(list, s, R, W, L), NEW w, NEW V, Sent(W, w, V),
         w.verb = "post", \A v \in W : v.row # w.row, \A i \in DOMAIN s : s[i].id # w.row
  PROVE  Mirror(list, s, R, V, L)
<1>1. V = W \union {w} /\ w.stage = "sent"
  BY DEF Sent
<1>2. RowsToCome(s, R, V)
  BY <1>1 DEF Mirror, RowsToCome
<1>3. QED
  BY <1>2, OneMoreSent DEF Mirror

LEMMA PutSent ==
  ASSUME NEW list, NEW s, NEW R, NEW W, NEW L, Mirror(list, s, R, W, L), NEW w, NEW V, Sent(W, w, V),
         w.verb = "put", NEW o \in DOMAIN s, w.row = s[o].id,
         NEW t, IF list.shows = "at once" THEN Reworded(t, s, w.row, w.words) ELSE t = s
  PROVE  Mirror(list, t, R, V, L)
<1>1. /\ V = W \union {w} /\ w.stage = "sent" /\ w \notin W
      /\ \A v \in W : v # w /\ ~Clash(v, w)
  BY DEF Sent, Tame
<1>2. /\ DOMAIN t = DOMAIN s
      /\ \A k \in DOMAIN s : t[k].id = s[k].id /\ (t[k].chosen <=> s[k].chosen)
      /\ \A k \in DOMAIN s : s[k].id # w.row => t[k].words = s[k].words
      /\ \A k \in DOMAIN s : s[k].id = w.row /\ list.shows = "at once" => t[k].words = w.words
  BY DEF Reworded
<1>3. ~Asked(W, "put", w.row)
  BY <1>1 DEF Clash, Asked
<1>4. \A v \in W : v.verb = "post" => v.row # w.row
  BY DEF Mirror, RowsToCome
<1>5. ASSUME NEW i \in DOMAIN s, NEW r \in R, s[i].id = r.id
      PROVE  /\ ~Asked(V, "put", r.id) => Agrees(list, t[i].words, r.words)
             /\ \A v \in V : v.verb = "put" /\ v.row = r.id =>
                  /\ v.stage = "done" => r.words = v.words
                  /\ list.shows = "at once" => Agrees(list, t[i].words, v.words)
  <2>1. /\ ~Asked(W, "put", r.id) => Agrees(list, s[i].words, r.words)
        /\ \A v \in W : v.verb = "put" /\ v.row = r.id =>
             /\ v.stage = "done" => r.words = v.words
             /\ list.shows = "at once" => Agrees(list, s[i].words, v.words)
    BY <1>5 DEF Mirror, SameWords
  <2>2. CASE r.id = w.row
    <3>1. list.shows = "at once" => Agrees(list, t[i].words, w.words)
      BY <1>2, <1>5, <2>2 DEF Agrees
    <3>2. Asked(V, "put", r.id) /\ \A v \in V : v.verb = "put" /\ v.row = r.id => v = w
      BY <1>1, <1>3, <2>2 DEF Asked
    <3>3. QED
      BY <1>1, <3>1, <3>2
  <2>3. CASE r.id # w.row
    <3>1. t[i].words = s[i].words
      BY <1>2, <1>5, <2>3
    <3>2. Asked(W, "put", r.id) => Asked(V, "put", r.id)
      BY <1>1 DEF Asked
    <3>3. \A v \in V : v.verb = "put" /\ v.row = r.id => v \in W
      BY <1>1, <2>3
    <3>4. QED
      BY <2>1, <3>1, <3>2, <3>3
  <2>4. QED
    BY <2>2, <2>3
<1>6. SameChoice(t, R, V)
  <2>1. SameChoice(s, R, W)
    BY DEF Mirror
  <2>2. SameChoice(t, R, W)
    BY <1>2, <2>1, SameRowsInOrder
  <2>3. QED
    BY <1>1, <2>2, OneMoreSent
<1>7. /\ Apart(t) /\ AllAreShown(t, R, W, L) /\ NoneTooMany(t, R, W) /\ SameOrder(list, t, R, W)
      /\ OrderSent(t, W) /\ RowsToCome(t, R, W) /\ RowsGone(list, t, R, W) /\ ChoiceMade(R, W)
  BY <1>2, SameRowsInOrder DEF Mirror
<1>8. DOMAIN t = DOMAIN s /\ \A k \in DOMAIN t : t[k].id = s[k].id
  BY <1>2
<1>9. SameWords(list, t, R, V)
  BY <1>5, <1>8 DEF SameWords
<1>10. QED
  BY <1>4, <1>6, <1>7, <1>9, OneMoreSent DEF Mirror

LEMMA LessOrder ==
  ASSUME NEW list, NEW s, NEW R, NEW W, SameOrder(list, s, R, W), OrderSent(s, W), NEW t, NEW id, Less(t, s, id)
  PROVE  SameOrder(list, t, R, W) /\ OrderSent(t, W)
<1>1. SameOrder(list, t, R, W)
  BY DEF SameOrder, Less
<1>2. ASSUME NEW ids, Names(s, ids)
      PROVE  Names(t, ids)
  BY <1>2 DEF Names, Less
<1>3. QED
  BY <1>1, <1>2 DEF OrderSent

LEMMA RemovalSent ==
  ASSUME NEW list, NEW s, NEW R, NEW W, NEW L, Mirror(list, s, R, W, L), NEW w, NEW V, Sent(W, w, V),
         w.verb \in {"delete", "accept"}, NEW o \in DOMAIN s, w.row = s[o].id, w.verb = "accept" => list.shows # "at once",
         NEW t, IF list.shows = "at once" THEN Less(t, s, w.row) ELSE t = s
  PROVE  Mirror(list, t, R, V, L)
<1>1. V = W \union {w} /\ w.stage = "sent" /\ w \notin W
  BY DEF Sent
<1>2. /\ Apart(t) /\ \A k \in DOMAIN t : \E i \in DOMAIN s : t[k] = s[i]
      /\ \A i \in DOMAIN s : s[i].id # w.row => \E k \in DOMAIN t : t[k] = s[i]
      /\ list.shows = "at once" => \A k \in DOMAIN t : t[k].id # w.row
      /\ list.shows # "at once" => t = s
  BY DEF Mirror, Less
<1>3. AllAreShown(t, R, V, L)
  <2> SUFFICES ASSUME NEW r \in R, r.id \notin L, ~Asked(V, "post", r.id), ~Asked(V, "delete", r.id)
               PROVE  \E k \in DOMAIN t : t[k].id = r.id
    BY DEF AllAreShown
  <2>1. PICK i \in DOMAIN s : s[i].id = r.id
    BY <1>1 DEF Mirror, AllAreShown, Asked
  <2>2. CASE list.shows # "at once"
    BY <1>2, <2>1, <2>2
  <2>3. CASE list.shows = "at once"
    <3>1. w.verb = "delete" /\ r.id # w.row
      BY <1>1, <2>3 DEF Asked
    <3>2. QED
      BY <1>2, <2>1, <3>1
  <2>4. QED
    BY <2>2, <2>3
<1>4. /\ NoneTooMany(t, R, W) /\ SameWords(list, t, R, W) /\ SameChoice(t, R, W)
      /\ RowsGone(list, t, R, W) /\ RowsToCome(t, R, W) /\ ChoiceMade(R, W)
  BY <1>2, AmongTheRows DEF Mirror
<1>5. SameOrder(list, t, R, W) /\ OrderSent(t, W)
  BY <1>2, LessOrder DEF Mirror
<1>6. \A v \in W : v.verb = "post" => v.row # w.row
  BY DEF Mirror, RowsToCome
<1>7. RowsGone(list, t, R, V)
  BY <1>1, <1>2, <1>4 DEF RowsGone
<1>8. QED
  BY <1>2, <1>3, <1>4, <1>5, <1>6, <1>7, OneMoreSent DEF Mirror

LEMMA ChoiceSent ==
  ASSUME NEW list, NEW s, NEW R, NEW W, NEW L, Mirror(list, s, R, W, L), NEW w, NEW V, Sent(W, w, V),
         w.verb = "choose", NEW o \in DOMAIN s, w.row = s[o].id, \A v \in W : v.verb # "accept",
         NEW t, Rechosen(t, s, w.row)
  PROVE  Mirror(list, t, R, V, L)
<1>1. /\ V = W \union {w} /\ w.stage = "sent" /\ w \notin W
      /\ \A v \in W : v # w /\ ~Clash(v, w)
  BY DEF Sent, Tame
<1>2. /\ DOMAIN t = DOMAIN s
      /\ \A k \in DOMAIN s : t[k].id = s[k].id /\ t[k].words = s[k].words
      /\ \A k \in DOMAIN s : t[k].chosen <=> s[k].id = w.row
  BY DEF Rechosen
<1>3. \A v \in W : v.verb # "choose"
  BY <1>1 DEF Clash
<1>4. w.row \in Ids(R)
  <2>1. ~Asked(W, "delete", w.row) /\ ~Asked(W, "accept", w.row)
    BY <1>1 DEF Clash, Asked
  <2>2. QED
    BY <2>1 DEF Mirror, NoneTooMany
<1>5. SameWords(list, t, R, W)
  <2>1. SameWords(list, s, R, W)
    BY DEF Mirror
  <2>2. QED
    BY <1>2, <2>1, SameRowsInOrder
<1>6. SameChoice(t, R, V)
  BY <1>1, <1>2, <1>3 DEF SameChoice
<1>7. ChoiceMade(R, V)
  BY <1>1, <1>3, <1>4 DEF ChoiceMade
<1>8. \A v \in W : v.verb = "post" => v.row # w.row
  BY DEF Mirror, RowsToCome
<1>9. /\ Apart(t) /\ AllAreShown(t, R, W, L) /\ NoneTooMany(t, R, W) /\ SameOrder(list, t, R, W)
      /\ OrderSent(t, W) /\ RowsToCome(t, R, W) /\ RowsGone(list, t, R, W)
  BY <1>2, SameRowsInOrder DEF Mirror
<1>10. QED
  BY <1>5, <1>6, <1>7, <1>8, <1>9, OneMoreSent DEF Mirror

LEMMA OrderIsSent ==
  ASSUME NEW list, NEW s, NEW R, NEW W, NEW L, Mirror(list, s, R, W, L), NEW w, NEW V, Sent(W, w, V),
         w.verb = "reorder", NEW t, Permuted(t, s), w.ids = [k \in DOMAIN t |-> t[k].id]
  PROVE  Mirror(list, t, R, V, L)
<1>1. /\ V = W \union {w} /\ w.stage = "sent" /\ w \notin W
      /\ \A v \in W : v # w /\ ~Clash(v, w)
  BY DEF Sent, Tame
<1>2. /\ Apart(t) /\ \A k \in DOMAIN t : \E i \in DOMAIN s : t[k] = s[i]
      /\ \A i \in DOMAIN s : \E k \in DOMAIN t : t[k] = s[i]
  BY DEF Permuted
<1>3. \A v \in W : v.verb \notin {"post", "reorder"}
  BY <1>1 DEF Clash
<1>4. AllAreShown(t, R, W, L)
  BY <1>2 DEF Mirror, AllAreShown
<1>5. /\ NoneTooMany(t, R, W) /\ SameWords(list, t, R, W) /\ SameChoice(t, R, W)
      /\ RowsGone(list, t, R, W) /\ RowsToCome(t, R, W) /\ ChoiceMade(R, W)
  BY <1>2, AmongTheRows DEF Mirror
<1>6. SameOrder(list, t, R, V)
  BY <1>1 DEF SameOrder
<1>7. OrderSent(t, V)
  <2>1. Names(t, w.ids)
    BY <1>2 DEF Names, Apart
  <2>2. QED
    BY <1>1, <1>3, <2>1 DEF OrderSent
<1>8. QED
  BY <1>2, <1>3, <1>4, <1>5, <1>6, <1>7, OneMoreSent DEF Mirror

-----------------------------------------------------------------------------
(* A change is served, or a choice is a step further.                              *)
Onward(W, w, d, V) ==
  /\ w \in W /\ V = (W \ {w}) \union {d} /\ Tame(W)
  /\ d.verb = w.verb /\ d.row = w.row /\ d.words = w.words /\ d.ids = w.ids

LEMMA OnwardKeeps ==
  ASSUME NEW list, NEW s, NEW R, NEW W, NEW L, NEW w, NEW d, NEW V, Onward(W, w, d, V)
  PROVE  /\ \A verb, x : Asked(V, verb, x) <=> Asked(W, verb, x)
         /\ AllAreShown(s, R, W, L) => AllAreShown(s, R, V, L)
         /\ NoneTooMany(s, R, W) => NoneTooMany(s, R, V)
         /\ w.verb # "put" /\ SameWords(list, s, R, W) => SameWords(list, s, R, V)
         /\ (w.verb # "choose" \/ d.stage # "done") /\ SameChoice(s, R, W) => SameChoice(s, R, V)
         /\ w.verb # "choose" /\ ChoiceMade(R, W) => ChoiceMade(R, V)
         /\ w.verb # "reorder" /\ SameOrder(list, s, R, W) => SameOrder(list, s, R, V)
         /\ w.verb # "reorder" /\ OrderSent(s, W) => OrderSent(s, V)
         /\ w.verb # "post" /\ RowsToCome(s, R, W) => RowsToCome(s, R, V)
         /\ w.verb \notin {"delete", "accept"} /\ RowsGone(list, s, R, W) => RowsGone(list, s, R, V)
<1>1. /\ w \in W /\ V = (W \ {w}) \union {d}
      /\ d.verb = w.verb /\ d.row = w.row /\ d.words = w.words /\ d.ids = w.ids
  BY DEF Onward
<1>2. \A verb, x : Asked(V, verb, x) <=> Asked(W, verb, x)
  BY <1>1 DEF Asked
<1>3. /\ AllAreShown(s, R, W, L) => AllAreShown(s, R, V, L)
      /\ NoneTooMany(s, R, W) => NoneTooMany(s, R, V)
  BY <1>2 DEF AllAreShown, NoneTooMany
<1>4. ASSUME w.verb # "put", SameWords(list, s, R, W)
      PROVE  SameWords(list, s, R, V)
  BY <1>1, <1>2, <1>4 DEF SameWords
<1>5. ASSUME w.verb # "choose" \/ d.stage # "done", SameChoice(s, R, W)
      PROVE  SameChoice(s, R, V)
  BY <1>1, <1>5 DEF SameChoice
<1>6. ASSUME w.verb # "choose", ChoiceMade(R, W)
      PROVE  ChoiceMade(R, V)
  BY <1>1, <1>6 DEF ChoiceMade
<1>7. ASSUME w.verb # "reorder", SameOrder(list, s, R, W)
      PROVE  SameOrder(list, s, R, V)
  <2>1. (\A v \in V : v.verb = "reorder" => v.stage = "done") => \A v \in W : v.verb = "reorder" => v.stage = "done"
    BY <1>1, <1>7
  <2>2. QED
    BY <1>7, <2>1 DEF SameOrder
<1>8. w.verb # "reorder" /\ OrderSent(s, W) => OrderSent(s, V)
  BY <1>1 DEF OrderSent
<1>9. ASSUME w.verb # "post", RowsToCome(s, R, W)
      PROVE  RowsToCome(s, R, V)
  BY <1>1, <1>9 DEF RowsToCome
<1>10. ASSUME w.verb \notin {"delete", "accept"}, RowsGone(list, s, R, W)
       PROVE  RowsGone(list, s, R, V)
  BY <1>1, <1>10 DEF RowsGone
<1>11. QED
  BY <1>2, <1>3, <1>4, <1>5, <1>6, <1>7, <1>8, <1>9, <1>10

LEMMA PostServed ==
  ASSUME NEW list, NEW s, NEW R, NEW W, NEW L, Mirror(list, s, R, W, L), NEW w, NEW d, NEW V, Onward(W, w, d, V),
         w.verb = "post", d.stage = "done",
         NEW it, it.id = w.row, it.words = w.words, ~it.chosen, \A r \in R : r.id # it.id /\ Earlier(r, it)
  PROVE  Mirror(list, s, R \union {it}, V, L)
<1> DEFINE Q == R \union {it}
<1>1. /\ w \in W /\ V = (W \ {w}) \union {d} /\ d.verb = "post" /\ d.row = w.row /\ d.words = w.words
      /\ \A v \in W : v # w => ~Clash(v, w)
  BY DEF Onward, Tame
<1>2. /\ \A i \in DOMAIN s : s[i].id # it.id
      /\ \A v \in W : v # w => v.row # it.id
  BY <1>1 DEF Mirror, RowsToCome
<1>3. \A v \in V : v.verb \in {"post", "reorder"} => v = d
  BY <1>1 DEF Clash
<1>4. /\ AllAreShown(s, R, V, L) /\ NoneTooMany(s, R, V) /\ SameWords(list, s, R, V) /\ SameChoice(s, R, V)
      /\ ChoiceMade(R, V) /\ SameOrder(list, s, R, V) /\ OrderSent(s, V) /\ RowsGone(list, s, R, V) /\ Apart(s)
  <2>1. /\ AllAreShown(s, R, W, L) /\ NoneTooMany(s, R, W) /\ SameWords(list, s, R, W) /\ SameChoice(s, R, W)
        /\ ChoiceMade(R, W) /\ SameOrder(list, s, R, W) /\ OrderSent(s, W) /\ RowsGone(list, s, R, W) /\ Apart(s)
    BY DEF Mirror
  <2>2. w.verb \notin {"put", "choose", "reorder", "delete", "accept"}
    OBVIOUS
  <2>3. QED
    BY <2>1, <2>2, OnwardKeeps
<1>5. AllAreShown(s, Q, V, L)
  <2>1. Asked(V, "post", it.id)
    BY <1>1 DEF Asked
  <2>2. QED
    BY <1>4, <2>1 DEF AllAreShown
<1>6. NoneTooMany(s, Q, V)
  BY <1>4, IdsOf DEF NoneTooMany
<1>7. SameWords(list, s, Q, V)
  BY <1>2, <1>4 DEF SameWords
<1>8. SameChoice(s, Q, V)
  BY <1>2, <1>4 DEF SameChoice
<1>9. SameOrder(list, s, Q, V)
  BY <1>2, <1>4 DEF SameOrder
<1>10. RowsToCome(s, Q, V)
  <2>1. IsLast(it, s, Q)
    BY <1>2 DEF IsLast
  <2>2. \A v \in V : v # d => v.row # d.row
    BY <1>1, <1>2
  <2>3. it \in Q /\ it.id = d.row /\ it.words = d.words /\ ~it.chosen /\ \A i \in DOMAIN s : s[i].id # d.row
    BY <1>1, <1>2
  <2>4. QED
    BY <1>3, <2>1, <2>2, <2>3 DEF RowsToCome
<1>11. RowsGone(list, s, Q, V)
  <2>1. \A v \in V : v.verb \in {"delete", "accept"} => v.row # it.id
    BY <1>1, <1>2
  <2>2. \A x : x # it.id /\ x \notin Ids(R) => x \notin Ids(Q)
    BY DEF Ids
  <2>3. RowsGone(list, s, R, V)
    BY <1>4
  <2>4. QED
    BY <2>1, <2>2, <2>3 DEF RowsGone
<1>12. ChoiceMade(Q, V)
  BY <1>4, IdsOf DEF ChoiceMade
<1>13. QED
  BY <1>4, <1>5, <1>6, <1>7, <1>8, <1>9, <1>10, <1>11, <1>12 DEF Mirror

(* Rows are rewritten where they are. *)
InPlace(Q, R) ==
  /\ \A q \in Q : \E r \in R : q.id = r.id /\ q.pos = r.pos
  /\ \A r \in R : \E q \in Q : q.id = r.id /\ q.pos = r.pos

LEMMA RowsInPlace ==
  ASSUME NEW list, NEW s, NEW R, NEW W, NEW L, NEW Q, InPlace(Q, R)
  PROVE  /\ AllAreShown(s, R, W, L) => AllAreShown(s, Q, W, L)
         /\ NoneTooMany(s, R, W) => NoneTooMany(s, Q, W)
         /\ SameOrder(list, s, R, W) => SameOrder(list, s, Q, W)
         /\ RowsGone(list, s, R, W) => RowsGone(list, s, Q, W)
         /\ Ids(Q) = Ids(R)
         /\ \A it, q : IsLast(it, s, R) /\ q.id = it.id /\ q.pos = it.pos => IsLast(q, s, Q)
<1>1. \A q \in Q : \E r \in R : q.id = r.id /\ q.pos = r.pos
  BY DEF InPlace
<1>2. \A r \in R : \E q \in Q : q.id = r.id /\ q.pos = r.pos
  BY DEF InPlace
<1>3. Ids(Q) = Ids(R)
  BY <1>1, <1>2 DEF Ids
<1>4. AllAreShown(s, R, W, L) => AllAreShown(s, Q, W, L)
  BY <1>1 DEF AllAreShown
<1>5. NoneTooMany(s, R, W) => NoneTooMany(s, Q, W)
  BY <1>3 DEF NoneTooMany
<1>6. ASSUME SameOrder(list, s, R, W), \A w \in W : w.verb = "reorder" => w.stage = "done",
             NEW i \in DOMAIN s, NEW j \in DOMAIN s, NEW a \in Q, NEW b \in Q, i < j, s[i].id = a.id, s[j].id = b.id
      PROVE  Above(list, a, b)
  <2>1. PICK x \in R : a.id = x.id /\ a.pos = x.pos
    BY <1>1
  <2>2. PICK y \in R : b.id = y.id /\ b.pos = y.pos
    BY <1>1
  <2>3. Above(list, x, y)
    BY <1>6, <2>1, <2>2 DEF SameOrder
  <2>4. QED
    BY <2>1, <2>2, <2>3 DEF Above, Earlier
<1>7. RowsGone(list, s, R, W) => RowsGone(list, s, Q, W)
  BY <1>3 DEF RowsGone
<1>8. ASSUME NEW it, NEW q, IsLast(it, s, R), q.id = it.id, q.pos = it.pos
      PROVE  IsLast(q, s, Q)
  <2>1. ASSUME NEW i \in DOMAIN s, NEW a \in Q, s[i].id = a.id
        PROVE  Earlier(a, q)
    <3>1. PICK x \in R : a.id = x.id /\ a.pos = x.pos
      BY <1>1
    <3>2. Earlier(x, it)
      BY <1>8, <2>1, <3>1 DEF IsLast
    <3>3. QED
      BY <1>8, <3>1, <3>2 DEF Earlier
  <2>2. QED
    BY <2>1 DEF IsLast
<1>9. QED
  BY <1>3, <1>4, <1>5, <1>6, <1>7, <1>8 DEF SameOrder

LEMMA PutServed ==
  ASSUME NEW list, NEW s, NEW R, NEW W, NEW L, Mirror(list, s, R, W, L), NEW w, NEW d, NEW V, Onward(W, w, d, V),
         w.verb = "put", d.stage = "done", \A a, b \in R : a.id = b.id => a = b, NEW Q, InPlace(Q, R),
         \A q \in Q : \E r \in R : q.id = r.id /\ (q.chosen <=> r.chosen) /\ q.words = IF r.id = w.row THEN w.words ELSE r.words
  PROVE  Mirror(list, s, Q, V, L)
<1>1. /\ w \in W /\ V = (W \ {w}) \union {d} /\ d.verb = "put" /\ d.row = w.row /\ d.words = w.words
      /\ \A v \in W : v # w => ~Clash(v, w)
  BY DEF Onward, Tame
<1>2. /\ AllAreShown(s, R, V, L) /\ NoneTooMany(s, R, V) /\ SameChoice(s, R, V) /\ RowsToCome(s, R, V)
      /\ ChoiceMade(R, V) /\ SameOrder(list, s, R, V) /\ OrderSent(s, V) /\ RowsGone(list, s, R, V) /\ Apart(s)
      /\ SameWords(list, s, R, W)
  <2>1. /\ AllAreShown(s, R, W, L) /\ NoneTooMany(s, R, W) /\ SameChoice(s, R, W) /\ RowsToCome(s, R, W)
        /\ ChoiceMade(R, W) /\ SameOrder(list, s, R, W) /\ OrderSent(s, W) /\ RowsGone(list, s, R, W) /\ Apart(s)
        /\ SameWords(list, s, R, W)
    BY DEF Mirror
  <2>2. w.verb \notin {"post", "choose", "reorder", "delete", "accept"}
    OBVIOUS
  <2>3. QED
    BY <2>1, <2>2, OnwardKeeps
<1>3. /\ AllAreShown(s, Q, V, L) /\ NoneTooMany(s, Q, V) /\ SameOrder(list, s, Q, V) /\ RowsGone(list, s, Q, V)
      /\ Ids(Q) = Ids(R)
  BY <1>2, RowsInPlace
<1>4. \A v \in V : v # d => ~(v.verb = "put" /\ v.row = w.row)
  BY <1>1 DEF Clash
<1>5. ASSUME NEW i \in DOMAIN s, NEW q \in Q, s[i].id = q.id
      PROVE  /\ ~Asked(V, "put", q.id) => Agrees(list, s[i].words, q.words)
             /\ \A v \in V : v.verb = "put" /\ v.row = q.id =>
                  /\ v.stage = "done" => q.words = v.words
                  /\ list.shows = "at once" => Agrees(list, s[i].words, v.words)
  <2>1. PICK r \in R : q.id = r.id /\ q.words = IF r.id = w.row THEN w.words ELSE r.words
    OBVIOUS
  <2>2. /\ ~Asked(W, "put", r.id) => Agrees(list, s[i].words, r.words)
        /\ \A v \in W : v.verb = "put" /\ v.row = r.id =>
             /\ v.stage = "done" => r.words = v.words
             /\ list.shows = "at once" => Agrees(list, s[i].words, v.words)
    <3>1. SameWords(list, s, R, W) /\ s[i].id = r.id
      BY <1>2, <1>5, <2>1
    <3>2. QED
      BY <3>1 DEF SameWords
  <2>3. CASE r.id = w.row
    <3>1. q.words = w.words /\ q.id = w.row
      BY <2>1, <2>3
    <3>2. list.shows = "at once" => Agrees(list, s[i].words, w.words)
      BY <1>1, <2>2, <2>3
    <3>3. Asked(V, "put", q.id)
      BY <1>1, <3>1 DEF Asked
    <3>4. \A v \in V : v.verb = "put" /\ v.row = q.id => v.words = w.words
      BY <1>1, <1>4, <3>1
    <3>5. QED
      BY <3>1, <3>2, <3>3, <3>4
  <2>4. CASE r.id # w.row
    <3>1. q.words = r.words /\ q.id = r.id
      BY <2>1, <2>4
    <3>2. \A v \in V : v.row = r.id => v \in W
      BY <1>1, <2>4
    <3>3. Asked(W, "put", r.id) => Asked(V, "put", r.id)
      BY <1>1, <2>4 DEF Asked
    <3>4. QED
      BY <2>2, <3>1, <3>2, <3>3
  <2>5. QED
    BY <2>3, <2>4
<1>6. SameWords(list, s, Q, V)
  BY <1>5 DEF SameWords
<1>7. SameChoice(s, Q, V)
  <2>1. \A q \in Q : \E r \in R : q.id = r.id /\ (q.chosen <=> r.chosen)
    OBVIOUS
  <2>2. QED
    BY <1>2, <2>1 DEF SameChoice
<1>8. RowsToCome(s, Q, V)
  <2>1. ASSUME NEW u \in V, u.verb = "post", u.stage = "done"
        PROVE  \E q \in Q : q.id = u.row /\ q.words = u.words /\ ~q.chosen /\ IsLast(q, s, Q)
    <3>1. PICK it \in R : it.id = u.row /\ it.words = u.words /\ ~it.chosen /\ IsLast(it, s, R)
      BY <1>2, <2>1 DEF RowsToCome
    <3>2. PICK q \in Q : q.id = it.id /\ q.pos = it.pos
      BY DEF InPlace
    <3>3. IsLast(q, s, Q)
      BY <3>1, <3>2, RowsInPlace
    <3>4. u.row # w.row
      BY <1>1, <1>2, <2>1 DEF RowsToCome
    <3>5. PICK r \in R : q.id = r.id /\ (q.chosen <=> r.chosen) /\ q.words = IF r.id = w.row THEN w.words ELSE r.words
      OBVIOUS
    <3>6. r = it
      <4>1. r.id = it.id
        BY <3>2, <3>5
      <4>2. QED
        BY <4>1
    <3>7. QED
      BY <3>1, <3>2, <3>3, <3>4, <3>5, <3>6
  <2>2. QED
    BY <1>2, <2>1 DEF RowsToCome
<1>9. ChoiceMade(Q, V)
  <2>1. \A q \in Q : \E r \in R : q.id = r.id /\ (q.chosen <=> r.chosen)
    OBVIOUS
  <2>2. QED
    BY <1>2, <1>3, <2>1 DEF ChoiceMade
<1>10. QED
  BY <1>2, <1>3, <1>6, <1>7, <1>8, <1>9 DEF Mirror

LEMMA RowsWithTheirWords ==
  ASSUME NEW list, NEW s, NEW R, NEW W, NEW Q, \A q \in Q : \E r \in R : q.id = r.id /\ q.words = r.words
  PROVE  SameWords(list, s, R, W) => SameWords(list, s, Q, W)
<1>1. ASSUME SameWords(list, s, R, W), NEW i \in DOMAIN s, NEW q \in Q, s[i].id = q.id
      PROVE  /\ ~Asked(W, "put", q.id) => Agrees(list, s[i].words, q.words)
             /\ \A w \in W : w.verb = "put" /\ w.row = q.id =>
                  /\ w.stage = "done" => q.words = w.words
                  /\ list.shows = "at once" => Agrees(list, s[i].words, w.words)
  <2>1. PICK r \in R : q.id = r.id /\ q.words = r.words
    OBVIOUS
  <2>2. s[i].id = r.id
    BY <1>1, <2>1
  <2>3. /\ ~Asked(W, "put", r.id) => Agrees(list, s[i].words, r.words)
        /\ \A w \in W : w.verb = "put" /\ w.row = r.id =>
             /\ w.stage = "done" => r.words = w.words
             /\ list.shows = "at once" => Agrees(list, s[i].words, w.words)
    BY <1>1, <2>2 DEF SameWords
  <2>4. QED
    BY <2>1, <2>3
<1>2. QED
  BY <1>1 DEF SameWords

LEMMA RemovalServed ==
  ASSUME NEW list, NEW s, NEW R, NEW W, NEW L, Mirror(list, s, R, W, L), NEW w, NEW d, NEW V, Onward(W, w, d, V),
         w.verb \in {"delete", "accept"}, d.stage = "done", w.verb = "accept" => \A v \in W : v.verb # "choose"
  PROVE  Mirror(list, s, {r \in R : r.id # w.row}, V, L)
<1> DEFINE Q == {r \in R : r.id # w.row}
<1>1. /\ w \in W /\ V = (W \ {w}) \union {d} /\ d.verb = w.verb /\ d.row = w.row
      /\ \A v \in W : v # w => ~Clash(v, w)
  BY DEF Onward, Tame
<1>2. /\ AllAreShown(s, R, V, L) /\ NoneTooMany(s, R, V) /\ SameChoice(s, R, V) /\ RowsToCome(s, R, V)
      /\ ChoiceMade(R, V) /\ SameOrder(list, s, R, V) /\ OrderSent(s, V) /\ Apart(s)
      /\ SameWords(list, s, R, V)
  <2>1. /\ AllAreShown(s, R, W, L) /\ NoneTooMany(s, R, W) /\ SameChoice(s, R, W) /\ RowsToCome(s, R, W)
        /\ ChoiceMade(R, W) /\ SameOrder(list, s, R, W) /\ OrderSent(s, W) /\ Apart(s)
        /\ SameWords(list, s, R, W)
    BY DEF Mirror
  <2>2. w.verb \notin {"post", "put", "choose", "reorder"}
    OBVIOUS
  <2>3. QED
    BY <2>1, <2>2, OnwardKeeps
<1>3. Asked(V, "delete", w.row) \/ Asked(V, "accept", w.row)
  BY <1>1 DEF Asked
<1>4. AllAreShown(s, Q, V, L)
  BY <1>2 DEF AllAreShown
<1>5. NoneTooMany(s, Q, V)
  <2>1. \A x : x \in Ids(R) /\ x # w.row => x \in Ids(Q)
    BY DEF Ids
  <2>2. NoneTooMany(s, R, V)
    BY <1>2
  <2>3. QED
    BY <1>3, <2>1, <2>2 DEF NoneTooMany
<1>6. SameWords(list, s, Q, V)
  BY <1>2 DEF SameWords
<1>7. SameChoice(s, Q, V)
  BY <1>2 DEF SameChoice
<1>8. SameOrder(list, s, Q, V)
  BY <1>2 DEF SameOrder
<1>9. RowsToCome(s, Q, V)
  <2>1. \A it : IsLast(it, s, R) => IsLast(it, s, Q)
    BY DEF IsLast
  <2>2. ASSUME NEW u \in V, u.verb = "post", u.stage = "done"
        PROVE  \E q \in Q : q.id = u.row /\ q.words = u.words /\ ~q.chosen /\ IsLast(q, s, Q)
    <3>1. PICK it \in R : it.id = u.row /\ it.words = u.words /\ ~it.chosen /\ IsLast(it, s, R)
      BY <1>2, <2>2 DEF RowsToCome
    <3>2. u # d
      BY <1>1, <2>2
    <3>3. RowsToCome(s, R, V) /\ d \in V
      BY <1>1, <1>2
    <3>4. u.row # w.row
      BY <1>1, <2>2, <3>2, <3>3 DEF RowsToCome
    <3>5. QED
      BY <2>1, <3>1, <3>4
  <2>3. QED
    BY <1>2, <2>2 DEF RowsToCome
<1>10. RowsGone(list, s, Q, V)
  <2>1. \A x : x \notin Ids(R) => x \notin Ids(Q)
    BY DEF Ids
  <2>2. w.row \notin Ids(Q)
    BY DEF Ids
  <2>3. RowsGone(list, s, R, W)
    BY DEF Mirror
  <2>4. ASSUME NEW u \in V, u.verb \in {"delete", "accept"}
        PROVE  /\ list.shows = "at once" => \A i \in DOMAIN s : s[i].id # u.row
               /\ u.stage = "done" => u.row \notin Ids(Q)
    <3>1. CASE u = d
      BY <1>1, <2>2, <2>3, <2>4, <3>1 DEF RowsGone
    <3>2. CASE u # d
      BY <1>1, <2>1, <2>3, <2>4, <3>2 DEF RowsGone
    <3>3. QED
      BY <3>1, <3>2
  <2>5. QED
    BY <2>4 DEF RowsGone
<1>11. ChoiceMade(Q, V)
  <2>1. ASSUME NEW u \in V, u.verb = "choose"
        PROVE  u.row \in Ids(Q)
    <3>1. u \in W /\ u # w /\ w.verb = "delete"
      BY <1>1, <2>1
    <3>2. u.row # w.row
      BY <1>1, <2>1, <3>1 DEF Clash
    <3>3. u.row \in Ids(R)
      BY <1>2, <2>1 DEF ChoiceMade
    <3>4. QED
      BY <3>2, <3>3 DEF Ids
  <2>2. QED
    BY <1>2, <2>1 DEF ChoiceMade
<1>12. QED
  BY <1>2, <1>4, <1>5, <1>6, <1>7, <1>8, <1>9, <1>10, <1>11 DEF Mirror

LEMMA OrderServed ==
  ASSUME NEW list, NEW s, NEW R, NEW W, NEW L, Mirror(list, s, R, W, L), NEW w, NEW d, NEW V, Onward(W, w, d, V),
         w.verb = "reorder", w.stage = "sent", d.stage = "done", ~list.latest, w.ids \in Seq(Nat),
         NEW Q, \A q \in Q : \E r \in R : q.id = r.id /\ q.words = r.words /\ (q.chosen <=> r.chosen),
         \A r \in R : \E q \in Q : q.id = r.id,
         \A q \in Q : \A a \in DOMAIN w.ids : w.ids[a] = q.id => q.pos = a - 1
  PROVE  Mirror(list, s, Q, V, L)
<1>1. /\ w \in W /\ V = (W \ {w}) \union {d} /\ d.verb = w.verb /\ d.row = w.row
      /\ \A v \in W : v # w => ~Clash(v, w)
  BY DEF Onward, Tame
<1>2. /\ AllAreShown(s, R, V, L) /\ NoneTooMany(s, R, V) /\ SameChoice(s, R, V)
      /\ ChoiceMade(R, V) /\ RowsGone(list, s, R, V) /\ Apart(s) /\ SameWords(list, s, R, V)
  <2>1. /\ AllAreShown(s, R, W, L) /\ NoneTooMany(s, R, W) /\ SameChoice(s, R, W)
        /\ ChoiceMade(R, W) /\ RowsGone(list, s, R, W) /\ Apart(s) /\ SameWords(list, s, R, W)
    BY DEF Mirror
  <2>2. w.verb \notin {"post", "put", "choose", "delete", "accept"}
    OBVIOUS
  <2>3. QED
    BY <2>1, <2>2, OnwardKeeps
<1>3. \A v \in V : v.verb \notin {"post", "reorder"} \/ v = d
  BY <1>1 DEF Clash
<1>4. Ids(Q) = Ids(R)
  BY DEF Ids
<1>5. AllAreShown(s, Q, V, L) /\ NoneTooMany(s, Q, V) /\ RowsGone(list, s, Q, V)
  <2>1. AllAreShown(s, R, V, L) /\ \A q \in Q : \E r \in R : q.id = r.id
    BY <1>2
  <2>2. AllAreShown(s, Q, V, L)
    BY <2>1 DEF AllAreShown
  <2>3. NoneTooMany(s, Q, V) /\ RowsGone(list, s, Q, V)
    BY <1>2, <1>4 DEF NoneTooMany, RowsGone
  <2>4. QED
    BY <2>2, <2>3
<1>6. SameWords(list, s, Q, V)
  <2>1. SameWords(list, s, R, V) /\ \A q \in Q : \E r \in R : q.id = r.id /\ q.words = r.words
    BY <1>2
  <2>2. QED
    BY <2>1, RowsWithTheirWords
<1>7. SameChoice(s, Q, V)
  BY <1>2 DEF SameChoice
<1>8. SameOrder(list, s, Q, V)
  <2>1. Names(s, w.ids)
    BY <1>1 DEF Mirror, OrderSent
  <2>2. ASSUME NEW i \in DOMAIN s, NEW j \in DOMAIN s, NEW a \in Q, NEW b \in Q, i < j, s[i].id = a.id, s[j].id = b.id
        PROVE  Above(list, a, b)
    <3>1. PICK x \in DOMAIN w.ids : w.ids[x] = s[i].id
      BY <2>1 DEF Names
    <3>2. PICK y \in DOMAIN w.ids : w.ids[y] = s[j].id
      BY <2>1 DEF Names
    <3>3. x < y
      BY <2>1, <2>2, <3>1, <3>2 DEF Names
    <3>4. a.pos = x - 1 /\ b.pos = y - 1
      BY <2>2, <3>1, <3>2
    <3>5. x \in Int /\ y \in Int
      OBVIOUS
    <3>6. QED
      BY <3>3, <3>4, <3>5 DEF Above, Earlier
  <2>3. QED
    BY <2>2 DEF SameOrder
<1>9. OrderSent(s, V)
  BY <1>3 DEF OrderSent
<1>10. RowsToCome(s, Q, V)
  BY <1>1, <1>3 DEF RowsToCome
<1>11. ChoiceMade(Q, V)
  BY <1>2, <1>4 DEF ChoiceMade
<1>12. QED
  BY <1>2, <1>5, <1>6, <1>7, <1>8, <1>9, <1>10, <1>11 DEF Mirror

LEMMA ChoiceOnward ==
  ASSUME NEW list, NEW s, NEW R, NEW W, NEW L, Mirror(list, s, R, W, L), NEW w, NEW d, NEW V, Onward(W, w, d, V),
         w.verb = "choose", d.stage # "done",
         d.stage \in {"seen", "locked"} => d.seen = Ids(R) \/ (d.seen = w.seen /\ w.stage \in {"seen", "locked"})
  PROVE  Mirror(list, s, R, V, L)
<1>1. /\ w \in W /\ V = (W \ {w}) \union {d} /\ d.verb = w.verb /\ d.row = w.row
  BY DEF Onward
<1>2. /\ AllAreShown(s, R, V, L) /\ NoneTooMany(s, R, V) /\ SameChoice(s, R, V) /\ RowsToCome(s, R, V)
      /\ SameOrder(list, s, R, V) /\ OrderSent(s, V) /\ RowsGone(list, s, R, V) /\ Apart(s)
      /\ SameWords(list, s, R, V)
  <2>1. /\ AllAreShown(s, R, W, L) /\ NoneTooMany(s, R, W) /\ SameChoice(s, R, W) /\ RowsToCome(s, R, W)
        /\ SameOrder(list, s, R, W) /\ OrderSent(s, W) /\ RowsGone(list, s, R, W) /\ Apart(s)
        /\ SameWords(list, s, R, W)
    BY DEF Mirror
  <2>2. w.verb \notin {"post", "put", "reorder", "delete", "accept"}
    OBVIOUS
  <2>3. QED
    BY <2>1, <2>2, OnwardKeeps
<1>3. ChoiceMade(R, V)
  <2>1. ChoiceMade(R, W)
    BY DEF Mirror
  <2>2. \A r \in R : r.id \in Ids(R)
    BY DEF Ids
  <2>3. QED
    BY <1>1, <2>1, <2>2 DEF ChoiceMade
<1>4. QED
  BY <1>2, <1>3 DEF Mirror

LEMMA ChoiceServed ==
  ASSUME NEW list, NEW s, NEW R, NEW W, NEW L, Mirror(list, s, R, W, L), NEW w, NEW d, NEW V, Onward(W, w, d, V),
         w.verb = "choose", w.stage = "locked", d.stage = "done", \A a, b \in R : a.id = b.id => a = b,
         NEW Q, InPlace(Q, R),
         \A q \in Q : \E r \in R : /\ q.id = r.id /\ q.words = r.words
                                   /\ q.chosen <=> (r.id = w.row \/ (r.chosen /\ r.id \notin w.seen))
  PROVE  Mirror(list, s, Q, V, L)
<1>1. /\ w \in W /\ V = (W \ {w}) \union {d} /\ d.verb = w.verb /\ d.row = w.row /\ d.words = w.words
      /\ \A v \in W : v # w => ~Clash(v, w)
  BY DEF Onward, Tame
<1>2. /\ AllAreShown(s, R, V, L) /\ NoneTooMany(s, R, V) /\ RowsToCome(s, R, V)
      /\ SameOrder(list, s, R, V) /\ OrderSent(s, V) /\ RowsGone(list, s, R, V) /\ Apart(s)
      /\ SameWords(list, s, R, V)
  <2>1. /\ AllAreShown(s, R, W, L) /\ NoneTooMany(s, R, W) /\ RowsToCome(s, R, W)
        /\ SameOrder(list, s, R, W) /\ OrderSent(s, W) /\ RowsGone(list, s, R, W) /\ Apart(s)
        /\ SameWords(list, s, R, W)
    BY DEF Mirror
  <2>2. w.verb \notin {"post", "put", "reorder", "delete", "accept"}
    OBVIOUS
  <2>3. QED
    BY <2>1, <2>2, OnwardKeeps
<1>3. /\ AllAreShown(s, Q, V, L) /\ NoneTooMany(s, Q, V) /\ SameOrder(list, s, Q, V) /\ RowsGone(list, s, Q, V)
      /\ Ids(Q) = Ids(R)
  BY <1>2, RowsInPlace
<1>4. \A v \in V : v.verb = "choose" => v = d
  BY <1>1 DEF Clash
<1>5. w.row \in Ids(R) /\ \A r \in R : r.chosen => r.id \in w.seen
  BY <1>1 DEF Mirror, ChoiceMade
<1>6. ASSUME NEW q \in Q
      PROVE  q.chosen <=> q.id = w.row
  <2>1. PICK r \in R : q.id = r.id /\ (q.chosen <=> (r.id = w.row \/ (r.chosen /\ r.id \notin w.seen)))
    OBVIOUS
  <2>2. ~(r.chosen /\ r.id \notin w.seen)
    BY <1>5
  <2>3. q.chosen <=> r.id = w.row
    BY <2>1, <2>2
  <2>4. QED
    BY <2>1, <2>3
<1>7. SameWords(list, s, Q, V)
  <2>1. SameWords(list, s, R, V) /\ \A q \in Q : \E r \in R : q.id = r.id /\ q.words = r.words
    BY <1>2
  <2>2. QED
    BY <2>1, RowsWithTheirWords
<1>8. SameChoice(s, Q, V)
  <2>1. SameChoice(s, R, W) /\ \A q \in Q : \E r \in R : q.id = r.id
    BY DEF Mirror, InPlace
  <2>2. \A i \in DOMAIN s : \A q \in Q : s[i].id = q.id => (s[i].chosen <=> q.id = w.row)
    BY <1>1, <2>1 DEF SameChoice
  <2>3. d \in V /\ d.verb = "choose" /\ d.row = w.row
    BY <1>1
  <2>4. QED
    BY <1>4, <1>6, <2>2, <2>3 DEF SameChoice
<1>9. RowsToCome(s, Q, V)
  <2>1. ASSUME NEW u \in V, u.verb = "post", u.stage = "done"
        PROVE  \E q \in Q : q.id = u.row /\ q.words = u.words /\ ~q.chosen /\ IsLast(q, s, Q)
    <3>1. PICK it \in R : it.id = u.row /\ it.words = u.words /\ ~it.chosen /\ IsLast(it, s, R)
      BY <1>2, <2>1 DEF RowsToCome
    <3>2. PICK q \in Q : q.id = it.id /\ q.pos = it.pos
      BY DEF InPlace
    <3>3. IsLast(q, s, Q)
      BY <3>1, <3>2, RowsInPlace
    <3>4. RowsToCome(s, R, V) /\ d \in V /\ u # d
      BY <1>1, <1>2, <2>1
    <3>5. u.row # w.row
      BY <1>1, <2>1, <3>4 DEF RowsToCome
    <3>6. PICK r \in R : q.id = r.id /\ q.words = r.words
      OBVIOUS
    <3>7. r = it
      <4>1. r.id = it.id
        BY <3>2, <3>6
      <4>2. QED
        BY <4>1
    <3>8. QED
      BY <1>6, <3>1, <3>2, <3>3, <3>5, <3>6, <3>7
  <2>2. QED
    BY <1>2, <2>1 DEF RowsToCome
<1>10. ChoiceMade(Q, V)
  BY <1>1, <1>3, <1>4, <1>5 DEF ChoiceMade
<1>11. QED
  BY <1>2, <1>3, <1>7, <1>8, <1>9, <1>10 DEF Mirror

-----------------------------------------------------------------------------
(* A change is answered. *)
Answered(W, w, V) == w \in W /\ V = W \ {w} /\ Tame(W) /\ w.stage = "done"

LEMMA AnsweredKeeps ==
  ASSUME NEW list, NEW s, NEW R, NEW W, NEW L, NEW w, NEW V, Answered(W, w, V)
  PROVE  /\ w.verb \notin {"post", "delete"} /\ AllAreShown(s, R, W, L) => AllAreShown(s, R, V, L)
         /\ w.verb \notin {"delete", "accept"} /\ NoneTooMany(s, R, W) => NoneTooMany(s, R, V)
         /\ w.verb # "put" /\ SameWords(list, s, R, W) => SameWords(list, s, R, V)
         /\ w.verb # "choose" /\ SameChoice(s, R, W) => SameChoice(s, R, V)
         /\ ChoiceMade(R, W) => ChoiceMade(R, V)
         /\ SameOrder(list, s, R, W) => SameOrder(list, s, R, V)
         /\ OrderSent(s, W) => OrderSent(s, V)
         /\ RowsToCome(s, R, W) => RowsToCome(s, R, V)
         /\ RowsGone(list, s, R, W) => RowsGone(list, s, R, V)
<1>1. w \in W /\ V = W \ {w} /\ w.stage = "done"
  BY DEF Answered
<1>2. \A verb, x : Asked(W, verb, x) /\ w.verb # verb => Asked(V, verb, x)
  BY <1>1 DEF Asked
<1>3. \A verb, x : Asked(V, verb, x) => Asked(W, verb, x)
  BY <1>1 DEF Asked
<1>4. ASSUME w.verb \notin {"post", "delete"}, AllAreShown(s, R, W, L)
      PROVE  AllAreShown(s, R, V, L)
  BY <1>2, <1>4 DEF AllAreShown
<1>5. ASSUME w.verb \notin {"delete", "accept"}, NoneTooMany(s, R, W)
      PROVE  NoneTooMany(s, R, V)
  BY <1>2, <1>5 DEF NoneTooMany
<1>6. ASSUME w.verb # "put", SameWords(list, s, R, W)
      PROVE  SameWords(list, s, R, V)
  <2>1. \A x : Asked(W, "put", x) => Asked(V, "put", x)
    BY <1>2, <1>6
  <2>2. QED
    BY <1>1, <1>6, <2>1 DEF SameWords
<1>7. ASSUME w.verb # "choose", SameChoice(s, R, W)
      PROVE  SameChoice(s, R, V)
  BY <1>1, <1>7 DEF SameChoice
<1>8. ChoiceMade(R, W) => ChoiceMade(R, V)
  BY <1>1 DEF ChoiceMade
<1>9. SameOrder(list, s, R, W) => SameOrder(list, s, R, V)
  <2>1. (\A v \in V : v.verb = "reorder" => v.stage = "done") => \A v \in W : v.verb = "reorder" => v.stage = "done"
    BY <1>1
  <2>2. QED
    BY <2>1 DEF SameOrder
<1>10. OrderSent(s, W) => OrderSent(s, V)
  BY <1>1 DEF OrderSent
<1>11. RowsToCome(s, R, W) => RowsToCome(s, R, V)
  BY <1>1 DEF RowsToCome
<1>12. RowsGone(list, s, R, W) => RowsGone(list, s, R, V)
  BY <1>1 DEF RowsGone
<1>13. QED
  BY <1>4, <1>5, <1>6, <1>7, <1>8, <1>9, <1>10, <1>11, <1>12

(* A new row is shown, last or first. *)
JoinedTo(list, t, s, row) ==
  /\ t \in Seq(ShownRow) /\ s \in Seq(ShownRow) /\ Len(t) = Len(s) + 1
  /\ IF list.latest THEN t[1] = row /\ \A k \in DOMAIN s : t[k + 1] = s[k]
     ELSE t[Len(s) + 1] = row /\ \A k \in DOMAIN s : t[k] = s[k]

LEMMA JoinedPairs ==
  ASSUME NEW list, NEW s, NEW t, NEW row, JoinedTo(list, t, s, row)
  PROVE  /\ \A k \in DOMAIN t : t[k] = row \/ \E i \in DOMAIN s : t[k] = s[i]
         /\ \A i \in DOMAIN s : \E k \in DOMAIN t : t[k] = s[i]
         /\ \E k \in DOMAIN t : t[k] = row
         /\ \A k, m \in DOMAIN t : k < m =>
              \/ \E i, j \in DOMAIN s : i < j /\ t[k] = s[i] /\ t[m] = s[j]
              \/ list.latest /\ t[k] = row /\ \E j \in DOMAIN s : t[m] = s[j]
              \/ ~list.latest /\ t[m] = row /\ \E i \in DOMAIN s : t[k] = s[i]
<1> DEFINE n == Len(s)
<1>1. n \in Nat /\ DOMAIN s = 1..n /\ DOMAIN t = 1..(n + 1)
  BY DEF JoinedTo
<1> HIDE DEF n
<1>2. CASE list.latest
  <2>1. t[1] = row /\ \A k \in 1..n : t[k + 1] = s[k]
    BY <1>1, <1>2 DEF JoinedTo
  <2>2. \A k \in 2..(n + 1) : k - 1 \in 1..n /\ t[k] = s[k - 1]
    <3>1. \A k \in 2..(n + 1) : k - 1 \in 1..n /\ (k - 1) + 1 = k
      BY <1>1
    <3>2. QED
      BY <2>1, <3>1
  <2>3. \A k \in 1..(n + 1) : k = 1 \/ k \in 2..(n + 1)
    BY <1>1
  <2>4. ASSUME NEW k \in 1..(n + 1), NEW m \in 1..(n + 1), k < m
        PROVE  \/ \E i, j \in 1..n : i < j /\ t[k] = s[i] /\ t[m] = s[j]
               \/ t[k] = row /\ \E j \in 1..n : t[m] = s[j]
    <3>1. m - 1 \in 1..n /\ t[m] = s[m - 1]
      BY <1>1, <2>2, <2>4
    <3>2. CASE k = 1
      BY <2>1, <3>1, <3>2
    <3>3. CASE k # 1
      <4>1. k - 1 \in 1..n /\ t[k] = s[k - 1] /\ k - 1 < m - 1
        BY <1>1, <2>2, <2>4, <3>3
      <4>2. QED
        BY <3>1, <4>1
    <3>4. QED
      BY <3>2, <3>3
  <2>5. \A i \in 1..n : i + 1 \in 1..(n + 1) /\ t[i + 1] = s[i]
    BY <1>1, <2>1
  <2>6. 1 \in 1..(n + 1)
    BY <1>1
  <2>7. \A k \in 1..(n + 1) : t[k] = row \/ \E i \in 1..n : t[k] = s[i]
    BY <2>1, <2>2, <2>3
  <2>8. \A i \in 1..n : \E k \in 1..(n + 1) : t[k] = s[i]
    BY <2>5
  <2>9. \E k \in 1..(n + 1) : t[k] = row
    BY <2>1, <2>6
  <2>10. \A k, m \in 1..(n + 1) : k < m =>
            \/ \E i, j \in 1..n : i < j /\ t[k] = s[i] /\ t[m] = s[j]
            \/ list.latest /\ t[k] = row /\ \E j \in 1..n : t[m] = s[j]
    BY <1>2, <2>4
  <2>11. /\ \A k \in DOMAIN t : t[k] = row \/ \E i \in DOMAIN s : t[k] = s[i]
         /\ \A i \in DOMAIN s : \E k \in DOMAIN t : t[k] = s[i]
         /\ \E k \in DOMAIN t : t[k] = row
    BY <1>1, <2>7, <2>8, <2>9
  <2>12. \A k, m \in DOMAIN t : k < m =>
            \/ \E i, j \in DOMAIN s : i < j /\ t[k] = s[i] /\ t[m] = s[j]
            \/ list.latest /\ t[k] = row /\ \E j \in DOMAIN s : t[m] = s[j]
    BY <1>1, <2>10
  <2>13. QED
    BY <2>11, <2>12
<1>3. CASE ~list.latest
  <2>1. t[n + 1] = row /\ \A k \in 1..n : t[k] = s[k]
    BY <1>1, <1>3 DEF JoinedTo, n
  <2>2. \A k \in 1..(n + 1) : k = n + 1 \/ k \in 1..n
    BY <1>1
  <2>3. ASSUME NEW k \in 1..(n + 1), NEW m \in 1..(n + 1), k < m
        PROVE  \/ \E i, j \in 1..n : i < j /\ t[k] = s[i] /\ t[m] = s[j]
               \/ t[m] = row /\ \E i \in 1..n : t[k] = s[i]
    <3>1. k \in 1..n /\ t[k] = s[k]
      BY <1>1, <2>1, <2>3
    <3>2. CASE m = n + 1
      BY <2>1, <3>1, <3>2
    <3>3. CASE m # n + 1
      BY <2>1, <2>2, <2>3, <3>1, <3>3
    <3>4. QED
      BY <3>2, <3>3
  <2>4. n + 1 \in 1..(n + 1) /\ \A i \in 1..n : i \in 1..(n + 1)
    BY <1>1
  <2>5. /\ \A k \in 1..(n + 1) : t[k] = row \/ \E i \in 1..n : t[k] = s[i]
        /\ \A i \in 1..n : \E k \in 1..(n + 1) : t[k] = s[i]
        /\ \E k \in 1..(n + 1) : t[k] = row
    BY <2>1, <2>2, <2>4
  <2>6. \A k, m \in 1..(n + 1) : k < m =>
            \/ \E i, j \in 1..n : i < j /\ t[k] = s[i] /\ t[m] = s[j]
            \/ ~list.latest /\ t[m] = row /\ \E i \in 1..n : t[k] = s[i]
    BY <1>3, <2>3
  <2>7. /\ \A k \in DOMAIN t : t[k] = row \/ \E i \in DOMAIN s : t[k] = s[i]
        /\ \A i \in DOMAIN s : \E k \in DOMAIN t : t[k] = s[i]
        /\ \E k \in DOMAIN t : t[k] = row
    BY <1>1, <2>5
  <2>8. \A k, m \in DOMAIN t : k < m =>
            \/ \E i, j \in DOMAIN s : i < j /\ t[k] = s[i] /\ t[m] = s[j]
            \/ ~list.latest /\ t[m] = row /\ \E i \in DOMAIN s : t[k] = s[i]
    BY <1>1, <2>6
  <2>9. QED
    BY <2>7, <2>8
<1>4. QED
  BY <1>2, <1>3

LEMMA PostAnswered ==
  ASSUME NEW list, NEW s, NEW R, NEW W, NEW L, Mirror(list, s, R, W, L), NEW w, NEW V, Answered(W, w, V),
         w.verb = "post", \A a, b \in R : a.id = b.id => a = b,
         NEW row, row.id = w.row, row.words = w.words, ~row.chosen, NEW t, JoinedTo(list, t, s, row)
  PROVE  Mirror(list, t, R, V, L)
<1>1. /\ w \in W /\ V = W \ {w} /\ w.stage = "done" /\ \A v \in V : v \in W /\ v # w
      /\ \A v \in W : v # w => ~Clash(v, w)
  BY DEF Answered, Tame
<1>2. /\ \A k \in DOMAIN t : t[k] = row \/ \E i \in DOMAIN s : t[k] = s[i]
      /\ \A i \in DOMAIN s : \E k \in DOMAIN t : t[k] = s[i]
      /\ \E k \in DOMAIN t : t[k] = row
  BY JoinedPairs
<1>3. \A k, m \in DOMAIN t : k < m =>
        \/ \E i, j \in DOMAIN s : i < j /\ t[k] = s[i] /\ t[m] = s[j]
        \/ list.latest /\ t[k] = row /\ \E j \in DOMAIN s : t[m] = s[j]
        \/ ~list.latest /\ t[m] = row /\ \E i \in DOMAIN s : t[k] = s[i]
  BY JoinedPairs
<1>4. /\ \A i \in DOMAIN s : s[i].id # row.id
      /\ \A v \in V : v.row # row.id
  BY <1>1 DEF Mirror, RowsToCome
<1>5. PICK it \in R : it.id = row.id /\ it.words = row.words /\ ~it.chosen /\ IsLast(it, s, R)
  BY <1>1 DEF Mirror, RowsToCome
<1>6. \A v \in V : v.verb \notin {"post", "reorder"}
  BY <1>1 DEF Clash
<1>7. /\ NoneTooMany(s, R, V) /\ SameWords(list, s, R, V) /\ SameChoice(s, R, V) /\ ChoiceMade(R, V)
      /\ RowsGone(list, s, R, V) /\ SameOrder(list, s, R, V)
  <2>1. /\ NoneTooMany(s, R, W) /\ SameWords(list, s, R, W) /\ SameChoice(s, R, W) /\ ChoiceMade(R, W)
        /\ RowsGone(list, s, R, W) /\ SameOrder(list, s, R, W)
    BY DEF Mirror
  <2>2. w.verb \notin {"put", "choose", "reorder", "delete", "accept"}
    OBVIOUS
  <2>3. QED
    BY <2>1, <2>2, AnsweredKeeps
<1>8. Apart(t)
  <2>1. DOMAIN t \subseteq Int /\ DOMAIN s \subseteq Int
    BY DEF JoinedTo
  <2>2. \A k, m \in DOMAIN t : k < m => t[k].id # t[m].id
    <3>1. \A i, j \in DOMAIN s : i < j => s[i].id # s[j].id
      BY <2>1 DEF Mirror, Apart
    <3>2. QED
      BY <1>3, <1>4, <3>1
  <2>3. \A k, m \in DOMAIN t : k < m \/ m < k \/ k = m
    BY <2>1
  <2>4. QED
    BY <2>2, <2>3 DEF Apart
<1>9. AllAreShown(t, R, V, L)
  <2>1. AllAreShown(s, R, W, L)
    BY DEF Mirror
  <2>2. \A verb, x : Asked(W, verb, x) => Asked(V, verb, x) \/ x = row.id
    BY <1>1 DEF Asked
  <2>3. QED
    BY <1>2, <2>1, <2>2 DEF AllAreShown
<1>10. NoneTooMany(t, R, V)
  <2>1. row.id \in Ids(R)
    BY <1>5 DEF Ids
  <2>2. NoneTooMany(s, R, V)
    BY <1>7
  <2>3. QED
    BY <1>2, <2>1, <2>2 DEF NoneTooMany
<1>11. \A r \in R : r.id = row.id => r = it
  BY <1>5
<1>12. SameWords(list, t, R, V)
  <2>1. ASSUME NEW k \in DOMAIN t, NEW r \in R, t[k].id = r.id
        PROVE  /\ ~Asked(V, "put", r.id) => Agrees(list, t[k].words, r.words)
               /\ \A v \in V : v.verb = "put" /\ v.row = r.id =>
                    /\ v.stage = "done" => r.words = v.words
                    /\ list.shows = "at once" => Agrees(list, t[k].words, v.words)
    <3>1. CASE t[k] = row
      <4>1. t[k].words = r.words /\ \A v \in V : v.row # r.id
        BY <1>4, <1>5, <1>11, <2>1, <3>1
      <4>2. QED
        BY <4>1 DEF Agrees
    <3>2. CASE \E i \in DOMAIN s : t[k] = s[i]
      <4>1. PICK i \in DOMAIN s : t[k] = s[i]
        BY <3>2
      <4>2. SameWords(list, s, R, V) /\ s[i].id = r.id
        BY <1>7, <2>1, <4>1
      <4>3. /\ ~Asked(V, "put", r.id) => Agrees(list, s[i].words, r.words)
            /\ \A v \in V : v.verb = "put" /\ v.row = r.id =>
                 /\ v.stage = "done" => r.words = v.words
                 /\ list.shows = "at once" => Agrees(list, s[i].words, v.words)
        BY <4>2 DEF SameWords
      <4>4. QED
        BY <4>1, <4>3
    <3>3. QED
      BY <1>2, <3>1, <3>2
  <2>2. QED
    BY <2>1 DEF SameWords
<1>13. SameChoice(t, R, V)
  <2>1. ASSUME NEW k \in DOMAIN t, NEW r \in R, t[k].id = r.id
        PROVE  /\ (\A v \in V : v.verb # "choose") => (t[k].chosen <=> r.chosen)
               /\ \A v \in V : v.verb = "choose" =>
                    /\ t[k].chosen <=> r.id = v.row
                    /\ v.stage = "done" => (r.chosen <=> r.id = v.row)
    <3>1. CASE t[k] = row
      BY <1>4, <1>5, <1>11, <2>1, <3>1
    <3>2. CASE \E i \in DOMAIN s : t[k] = s[i]
      <4>1. PICK i \in DOMAIN s : t[k] = s[i]
        BY <3>2
      <4>2. SameChoice(s, R, V) /\ s[i].id = r.id
        BY <1>7, <2>1, <4>1
      <4>3. QED
        BY <4>1, <4>2 DEF SameChoice
    <3>3. QED
      BY <1>2, <3>1, <3>2
  <2>2. QED
    BY <2>1 DEF SameChoice
<1>14. SameOrder(list, t, R, V)
  <2>1. SameOrder(list, s, R, V) /\ \A v \in V : v.verb = "reorder" => v.stage = "done"
    BY <1>6, <1>7
  <2>2. ASSUME NEW k \in DOMAIN t, NEW m \in DOMAIN t, NEW a \in R, NEW b \in R, k < m, t[k].id = a.id, t[m].id = b.id
        PROVE  Above(list, a, b)
    <3>1. CASE \E i, j \in DOMAIN s : i < j /\ t[k] = s[i] /\ t[m] = s[j]
      BY <2>1, <2>2, <3>1 DEF SameOrder
    <3>2. CASE list.latest /\ t[k] = row /\ \E j \in DOMAIN s : t[m] = s[j]
      BY <1>5, <1>11, <2>2, <3>2 DEF IsLast, Above
    <3>3. CASE ~list.latest /\ t[m] = row /\ \E i \in DOMAIN s : t[k] = s[i]
      BY <1>5, <1>11, <2>2, <3>3 DEF IsLast, Above
    <3>4. QED
      BY <1>3, <2>2, <3>1, <3>2, <3>3
  <2>3. QED
    BY <2>2 DEF SameOrder
<1>15. OrderSent(t, V) /\ RowsToCome(t, R, V)
  BY <1>6 DEF OrderSent, RowsToCome
<1>16. RowsGone(list, t, R, V)
  <2>1. \A x : x # row.id /\ (\A i \in DOMAIN s : s[i].id # x) => \A k \in DOMAIN t : t[k].id # x
    BY <1>2
  <2>2. RowsGone(list, s, R, V)
    BY <1>7
  <2>3. QED
    BY <1>4, <2>1, <2>2 DEF RowsGone
<1>17. QED
  BY <1>7, <1>8, <1>9, <1>10, <1>12, <1>13, <1>14, <1>15, <1>16 DEF Mirror

LEMMA PutAnswered ==
  ASSUME NEW list, NEW s, NEW R, NEW W, NEW L, Mirror(list, s, R, W, L), NEW w, NEW V, Answered(W, w, V),
         w.verb = "put", NEW t, IF list.shows = "at once" THEN t = s ELSE Reworded(t, s, w.row, w.words)
  PROVE  Mirror(list, t, R, V, L)
<1>1. /\ w \in W /\ V = W \ {w} /\ w.stage = "done"
      /\ \A v \in W : v # w => ~Clash(v, w)
  BY DEF Answered, Tame
<1>2. DOMAIN t = DOMAIN s /\ \A k \in DOMAIN s : t[k].id = s[k].id
  BY DEF Reworded
<1>3. \A k \in DOMAIN s : t[k].chosen <=> s[k].chosen
  BY DEF Reworded
<1>4. \A k \in DOMAIN s : s[k].id # w.row => t[k].words = s[k].words
  BY DEF Reworded
<1>5. \A k \in DOMAIN s : s[k].id = w.row /\ list.shows # "at once" => t[k].words = w.words
  BY DEF Reworded
<1>6. list.shows = "at once" => t = s
  OBVIOUS
<1>7. /\ Apart(s) /\ AllAreShown(s, R, V, L) /\ NoneTooMany(s, R, V) /\ SameChoice(s, R, V) /\ RowsToCome(s, R, V)
      /\ ChoiceMade(R, V) /\ SameOrder(list, s, R, V) /\ OrderSent(s, V) /\ RowsGone(list, s, R, V)
  <2>1. /\ Apart(s) /\ AllAreShown(s, R, W, L) /\ NoneTooMany(s, R, W) /\ SameChoice(s, R, W) /\ RowsToCome(s, R, W)
        /\ ChoiceMade(R, W) /\ SameOrder(list, s, R, W) /\ OrderSent(s, W) /\ RowsGone(list, s, R, W)
    BY DEF Mirror
  <2>2. w.verb \notin {"post", "choose", "delete", "accept"}
    OBVIOUS
  <2>3. QED
    BY <2>1, <2>2, AnsweredKeeps
<1>8. /\ Apart(t) /\ AllAreShown(t, R, V, L) /\ NoneTooMany(t, R, V) /\ SameChoice(t, R, V) /\ RowsToCome(t, R, V)
      /\ SameOrder(list, t, R, V) /\ OrderSent(t, V) /\ RowsGone(list, t, R, V)
  BY <1>2, <1>3, <1>7, SameRowsInOrder
<1>9. ASSUME NEW i \in DOMAIN s, NEW r \in R, s[i].id = r.id
      PROVE  /\ ~Asked(V, "put", r.id) => Agrees(list, t[i].words, r.words)
             /\ \A v \in V : v.verb = "put" /\ v.row = r.id =>
                  /\ v.stage = "done" => r.words = v.words
                  /\ list.shows = "at once" => Agrees(list, t[i].words, v.words)
  <2>1. SameWords(list, s, R, W)
    BY DEF Mirror
  <2>2. /\ ~Asked(W, "put", r.id) => Agrees(list, s[i].words, r.words)
        /\ \A v \in W : v.verb = "put" /\ v.row = r.id =>
             /\ v.stage = "done" => r.words = v.words
             /\ list.shows = "at once" => Agrees(list, s[i].words, v.words)
    BY <1>9, <2>1 DEF SameWords
  <2>3. CASE r.id = w.row
    <3>1. \A v \in V : ~(v.verb = "put" /\ v.row = r.id)
      BY <1>1, <2>3 DEF Clash
    <3>2. r.words = w.words /\ (list.shows = "at once" => Agrees(list, s[i].words, w.words))
      BY <1>1, <2>2, <2>3
    <3>3. Agrees(list, t[i].words, w.words)
      BY <1>5, <1>6, <1>9, <2>3, <3>2 DEF Agrees
    <3>4. QED
      BY <3>1, <3>2, <3>3
  <2>4. CASE r.id # w.row
    <3>1. t[i].words = s[i].words
      BY <1>4, <1>9, <2>4
    <3>2. Asked(W, "put", r.id) => Asked(V, "put", r.id)
      BY <1>1, <2>4 DEF Asked
    <3>3. QED
      BY <1>1, <2>2, <3>1, <3>2
  <2>5. QED
    BY <2>3, <2>4
<1>10. SameWords(list, t, R, V)
  <2>1. \A i \in DOMAIN t : i \in DOMAIN s /\ t[i].id = s[i].id
    BY <1>2
  <2>2. QED
    BY <1>9, <2>1 DEF SameWords
<1>11. QED
  BY <1>7, <1>8, <1>10 DEF Mirror

LEMMA RemovalAnswered ==
  ASSUME NEW list, NEW s, NEW R, NEW W, NEW L, Mirror(list, s, R, W, L), NEW w, NEW V, Answered(W, w, V),
         w.verb \in {"delete", "accept"}, NEW t, IF list.shows = "at once" THEN t = s ELSE Less(t, s, w.row)
  PROVE  Mirror(list, t, R, V, L)
<1>1. w \in W /\ V = W \ {w} /\ w.stage = "done"
  BY DEF Answered
<1>2. w.row \notin Ids(R)
  BY <1>1 DEF Mirror, RowsGone
<1>3. /\ Apart(t) /\ \A k \in DOMAIN t : \E i \in DOMAIN s : t[k] = s[i]
      /\ \A i \in DOMAIN s : s[i].id # w.row => \E k \in DOMAIN t : t[k] = s[i]
  BY DEF Mirror, Less
<1>4. \A k \in DOMAIN t : t[k].id # w.row
  BY <1>1 DEF Mirror, RowsGone, Less
<1>5. /\ SameWords(list, s, R, V) /\ SameChoice(s, R, V) /\ RowsToCome(s, R, V)
      /\ ChoiceMade(R, V) /\ SameOrder(list, s, R, V) /\ OrderSent(s, V) /\ RowsGone(list, s, R, V)
  <2>1. /\ SameWords(list, s, R, W) /\ SameChoice(s, R, W) /\ RowsToCome(s, R, W)
        /\ ChoiceMade(R, W) /\ SameOrder(list, s, R, W) /\ OrderSent(s, W) /\ RowsGone(list, s, R, W)
    BY DEF Mirror
  <2>2. w.verb \notin {"post", "put", "choose"}
    OBVIOUS
  <2>3. QED
    BY <2>1, <2>2, AnsweredKeeps
<1>6. SameWords(list, t, R, V) /\ SameChoice(t, R, V) /\ RowsToCome(t, R, V) /\ RowsGone(list, t, R, V)
  BY <1>3, <1>5, AmongTheRows
<1>7. SameOrder(list, t, R, V) /\ OrderSent(t, V)
  <2>1. CASE list.shows = "at once"
    BY <1>5, <2>1
  <2>2. CASE list.shows # "at once"
    BY <1>5, <2>2, LessOrder
  <2>3. QED
    BY <2>1, <2>2
<1>8. \A verb, x : Asked(W, verb, x) /\ x # w.row => Asked(V, verb, x)
  BY <1>1 DEF Asked
<1>9. AllAreShown(t, R, V, L)
  <2>1. AllAreShown(s, R, W, L)
    BY DEF Mirror
  <2>2. \A r \in R : r.id # w.row
    BY <1>2 DEF Ids
  <2>3. ASSUME NEW r \in R, r.id \notin L, ~Asked(V, "post", r.id), ~Asked(V, "delete", r.id)
        PROVE  \E k \in DOMAIN t : t[k].id = r.id
    <3>1. PICK i \in DOMAIN s : s[i].id = r.id
      BY <1>8, <2>1, <2>2, <2>3 DEF AllAreShown
    <3>2. QED
      BY <1>3, <2>2, <3>1
  <2>4. QED
    BY <2>3 DEF AllAreShown
<1>10. NoneTooMany(t, R, V)
  <2>1. NoneTooMany(s, R, W)
    BY DEF Mirror
  <2>2. NoneTooMany(t, R, W)
    BY <1>3, <2>1, AmongTheRows
  <2>3. QED
    BY <1>4, <1>8, <2>2 DEF NoneTooMany
<1>11. QED
  BY <1>3, <1>5, <1>6, <1>7, <1>9, <1>10 DEF Mirror

LEMMA ChoiceAnswered ==
  ASSUME NEW list, NEW s, NEW R, NEW W, NEW L, Mirror(list, s, R, W, L), NEW w, NEW V, Answered(W, w, V),
         w.verb = "choose"
  PROVE  Mirror(list, s, R, V, L)
<1>1. /\ w \in W /\ V = W \ {w} /\ w.stage = "done"
      /\ \A v \in W : v # w => ~Clash(v, w)
  BY DEF Answered, Tame
<1>2. \A v \in V : v.verb # "choose"
  BY <1>1 DEF Clash
<1>3. /\ Apart(s) /\ AllAreShown(s, R, V, L) /\ NoneTooMany(s, R, V) /\ SameWords(list, s, R, V) /\ RowsToCome(s, R, V)
      /\ ChoiceMade(R, V) /\ SameOrder(list, s, R, V) /\ OrderSent(s, V) /\ RowsGone(list, s, R, V)
  <2>1. /\ Apart(s) /\ AllAreShown(s, R, W, L) /\ NoneTooMany(s, R, W) /\ SameWords(list, s, R, W) /\ RowsToCome(s, R, W)
        /\ ChoiceMade(R, W) /\ SameOrder(list, s, R, W) /\ OrderSent(s, W) /\ RowsGone(list, s, R, W)
    BY DEF Mirror
  <2>2. w.verb \notin {"post", "put", "delete", "accept"}
    OBVIOUS
  <2>3. QED
    BY <2>1, <2>2, AnsweredKeeps
<1>4. SameChoice(s, R, V)
  <2>1. SameChoice(s, R, W)
    BY DEF Mirror
  <2>2. \A i \in DOMAIN s : \A r \in R : s[i].id = r.id => (s[i].chosen <=> r.chosen)
    BY <1>1, <2>1 DEF SameChoice
  <2>3. QED
    BY <1>2, <2>2 DEF SameChoice
<1>5. QED
  BY <1>3, <1>4 DEF Mirror

LEMMA OrderAnswered ==
  ASSUME NEW list, NEW s, NEW R, NEW W, NEW L, Mirror(list, s, R, W, L), NEW w, NEW V, Answered(W, w, V),
         w.verb = "reorder"
  PROVE  Mirror(list, s, R, V, L)
<1>1. /\ Apart(s) /\ AllAreShown(s, R, W, L) /\ NoneTooMany(s, R, W) /\ SameWords(list, s, R, W) /\ RowsToCome(s, R, W)
      /\ ChoiceMade(R, W) /\ SameOrder(list, s, R, W) /\ OrderSent(s, W) /\ RowsGone(list, s, R, W) /\ SameChoice(s, R, W)
  BY DEF Mirror
<1>2. w.verb \notin {"post", "put", "delete", "accept", "choose"}
  OBVIOUS
<1>3. QED
  BY <1>1, <1>2, AnsweredKeeps DEF Mirror

(* A row is stored that the list will be loaded again for.                         *)
LEMMA LateRow ==
  ASSUME NEW list, NEW s, NEW R, NEW W, NEW L, Mirror(list, s, R, W, L),
         NEW it, ~it.chosen, \A i \in DOMAIN s : s[i].id # it.id, \A v \in W : v.row # it.id,
         NEW K, L \union {it.id} \subseteq K
  PROVE  Mirror(list, s, R \union {it}, W, K)
<1> DEFINE Q == R \union {it}
<1>1. AllAreShown(s, Q, W, K)
  BY DEF Mirror, AllAreShown
<1>2. \A x : x # it.id => (x \in Ids(Q) <=> x \in Ids(R))
  BY DEF Ids
<1>3. NoneTooMany(s, Q, W)
  BY <1>2 DEF Mirror, NoneTooMany
<1>4. SameWords(list, s, Q, W)
  <2>1. SameWords(list, s, R, W)
    BY DEF Mirror
  <2>2. QED
    BY <2>1 DEF SameWords
<1>5. SameChoice(s, Q, W)
  <2>1. SameChoice(s, R, W)
    BY DEF Mirror
  <2>2. QED
    BY <2>1 DEF SameChoice
<1>6. SameOrder(list, s, Q, W)
  <2>1. SameOrder(list, s, R, W)
    BY DEF Mirror
  <2>2. QED
    BY <2>1 DEF SameOrder
<1>7. RowsToCome(s, Q, W)
  <2>1. RowsToCome(s, R, W)
    BY DEF Mirror
  <2>2. \A x : IsLast(x, s, R) => IsLast(x, s, Q)
    BY DEF IsLast
  <2>3. QED
    BY <2>1, <2>2 DEF RowsToCome
<1>8. RowsGone(list, s, Q, W)
  <2>1. RowsGone(list, s, R, W)
    BY DEF Mirror
  <2>2. QED
    BY <1>2, <2>1 DEF RowsGone
<1>9. ChoiceMade(Q, W)
  <2>1. ChoiceMade(R, W)
    BY DEF Mirror
  <2>2. QED
    BY <1>2, <2>1 DEF ChoiceMade
<1>10. QED
  BY <1>1, <1>3, <1>4, <1>5, <1>6, <1>7, <1>8, <1>9 DEF Mirror

LEMMA MoreLate ==
  ASSUME NEW list, NEW s, NEW R, NEW W, NEW L, Mirror(list, s, R, W, L), NEW K, L \subseteq K
  PROVE  Mirror(list, s, R, W, K)
<1>1. AllAreShown(s, R, W, K)
  BY DEF Mirror, AllAreShown
<1>2. QED
  BY <1>1 DEF Mirror

-----------------------------------------------------------------------------
(* What the pages do to a list, in these terms.                                   *)
LEMMA EditReworded ==
  ASSUME NEW s \in Seq(ShownRow), Apart(s), NEW i \in DOMAIN s, NEW words \in Nat,
         NEW t, t = [s EXCEPT ![i].words = words]
  PROVE  Reworded(t, s, s[i].id, words)
<1>1. /\ DOMAIN t = DOMAIN s
      /\ \A k \in DOMAIN s : /\ t[k].id = s[k].id /\ t[k].chosen = s[k].chosen
                             /\ t[k].words = IF k = i THEN words ELSE s[k].words
  BY EditedRow
<1>2. \A k \in DOMAIN s : k = i <=> s[k].id = s[i].id
  BY DEF Apart
<1>3. QED
  BY <1>1, <1>2 DEF Reworded

LEMMA AnswerReworded ==
  ASSUME NEW s \in Seq(ShownRow), NEW id, NEW words \in Nat,
         NEW t, t = [i \in DOMAIN s |-> IF s[i].id = id THEN [s[i] EXCEPT !.words = words] ELSE s[i]]
  PROVE  Reworded(t, s, id, words)
<1>1. \A k \in DOMAIN s : s[k] \in ShownRow
  OBVIOUS
<1>2. ASSUME NEW x \in ShownRow
      PROVE  /\ [x EXCEPT !.words = words].id = x.id /\ [x EXCEPT !.words = words].chosen = x.chosen
             /\ [x EXCEPT !.words = words].words = words
  BY DEF ShownRow
<1>3. QED
  BY <1>1, <1>2 DEF Reworded

LEMMA ChoiceRechosen ==
  ASSUME NEW s \in Seq(ShownRow), NEW id
  PROVE  Rechosen(Choosing(s, id), s, id)
BY ChosenRow DEF Rechosen

LEMMA RemovalLess ==
  ASSUME NEW s \in Seq(ShownRow), Apart(s), NEW i \in DOMAIN s, NEW t, t = RemoveAt(s, i)
  PROVE  Less(t, s, s[i].id)
<1>1. /\ t \in Seq(ShownRow) /\ Len(t) = Len(s) - 1
      /\ \A k \in 1..(Len(s) - 1) : t[k] = IF k < i THEN s[k] ELSE s[k + 1]
  BY Removed
<1>2. PICK n \in Nat : n = Len(s) /\ DOMAIN s = 1..n /\ DOMAIN t = 1..(n - 1)
  BY <1>1
<1>3. Apart(t)
  BY RemoveArranged DEF Arranged
<1>4. PICK g : g = [k \in 1..(n - 1) |-> IF k < i THEN k ELSE k + 1]
  OBVIOUS
<1>5. \A k \in 1..(n - 1) : g[k] \in 1..n /\ g[k] # i /\ t[k] = s[g[k]]
  BY <1>1, <1>2, <1>4
<1>6. \A k, m \in 1..(n - 1) : k < m => g[k] < g[m]
  BY <1>2, <1>4
<1>7. ASSUME NEW m \in 1..n, m # i
      PROVE  \E k \in 1..(n - 1) : t[k] = s[m]
  <2>1. CASE m < i
    <3>1. m \in 1..(n - 1) /\ t[m] = s[m]
      BY <1>1, <1>2, <1>7, <2>1
    <3>2. QED
      BY <3>1
  <2>2. CASE m > i
    <3>1. PICK k : k = m - 1
      OBVIOUS
    <3>2. k \in 1..(n - 1) /\ t[k] = s[k + 1] /\ k + 1 = m
      BY <1>1, <1>2, <1>7, <2>2, <3>1
    <3>3. QED
      BY <3>2
  <2>3. QED
    BY <1>2, <1>7, <2>1, <2>2
<1>8. \A k \in DOMAIN t : t[k].id # s[i].id /\ \E j \in DOMAIN s : t[k] = s[j]
  BY <1>2, <1>5 DEF Apart
<1>9. \A k, m \in DOMAIN t : k < m => \E a, b \in DOMAIN s : a < b /\ t[k] = s[a] /\ t[m] = s[b]
  BY <1>2, <1>5, <1>6
<1>10. \A m \in DOMAIN s : s[m].id # s[i].id => \E k \in DOMAIN t : t[k] = s[m]
  BY <1>2, <1>7
<1>11. QED
  BY <1>3, <1>8, <1>9, <1>10 DEF Less

LEMMA WithoutLess ==
  ASSUME NEW s \in Seq(ShownRow), Apart(s), NEW id, NEW t, t = Without(s, id)
  PROVE  Less(t, s, id)
<1>1. PICK places \in SUBSET (DOMAIN s) : places = {i \in DOMAIN s : s[i].id # id}
  OBVIOUS
<1> DEFINE u == InOrder(places, Rising(places))
           n == Cardinality(places)
<1>2. places \in SUBSET Nat /\ IsFiniteSet(places)
  <2>1. DOMAIN s = 1..Len(s) /\ Len(s) \in Nat
    OBVIOUS
  <2>2. places \in SUBSET (1..Len(s))
    BY <2>1
  <2>3. IsFiniteSet(1..Len(s))
    BY <2>1, FS_Interval
  <2>4. QED
    BY <2>2, <2>3, FS_Subset
<1>3. /\ n \in Nat /\ u \in Seq(places) /\ Len(u) = n
      /\ \A x \in places : \E i \in 1..n : u[i] = x
      /\ \A k, m \in 1..n : u[k] = u[m] => k = m
      /\ \A k, m \in 1..n : <<u[k], u[m]>> \in Rising(places) <=> k < m
  BY <1>2, RisingIsStrict, InOrderIsABijection
<1>4. t = [k \in 1..n |-> s[u[k]]]
  BY <1>1 DEF Without, Kept
<1> HIDE DEF u, n
<1>5. DOMAIN t = 1..n /\ \A k \in 1..n : t[k] = s[u[k]] /\ u[k] \in places
  BY <1>3, <1>4
<1>6. \A k, m \in 1..n : k < m => u[k] < u[m]
  BY <1>2, <1>3, RisingPairs
<1>7. \A k \in 1..n : u[k] \in DOMAIN s /\ s[u[k]].id # id
  BY <1>1, <1>5
<1>8. Apart(t)
  BY <1>3, <1>5, <1>7 DEF Apart
<1>9. \A k, m \in DOMAIN t : k < m => \E a, b \in DOMAIN s : a < b /\ t[k] = s[a] /\ t[m] = s[b]
  BY <1>5, <1>6, <1>7
<1>10. \A i \in DOMAIN s : s[i].id # id => \E k \in DOMAIN t : t[k] = s[i]
  <2>1. ASSUME NEW i \in DOMAIN s, s[i].id # id
        PROVE  \E k \in DOMAIN t : t[k] = s[i]
    <3>1. i \in places
      BY <1>1, <2>1
    <3>2. PICK k \in 1..n : u[k] = i
      BY <1>3, <3>1
    <3>3. QED
      BY <1>5, <3>2
  <2>2. QED
    BY <2>1
<1>11. QED
  BY <1>5, <1>7, <1>8, <1>9, <1>10 DEF Less

LEMMA MovePermutes ==
  ASSUME NEW s \in Seq(ShownRow), Apart(s), NEW i \in DOMAIN s, NEW j \in DOMAIN s,
         NEW t, t = InsertAt(RemoveAt(s, i), j, s[i])
  PROVE  Permuted(t, s)
<1>1. PICK u : u = RemoveAt(s, i)
  OBVIOUS
<1>2. /\ u \in Seq(ShownRow) /\ Len(u) = Len(s) - 1
      /\ \A k \in 1..(Len(s) - 1) : u[k] = IF k < i THEN s[k] ELSE s[k + 1]
  BY <1>1, Removed
<1>3. PICK n \in Nat : n = Len(s) /\ DOMAIN s = 1..n /\ s[i] \in ShownRow
  OBVIOUS
<1>4. /\ DOMAIN t = 1..n
      /\ \A k \in 1..n : t[k] = IF k < j THEN u[k] ELSE IF k = j THEN s[i] ELSE u[k - 1]
  <2>1. PICK e \in ShownRow : e = s[i]
    BY <1>3
  <2>2. n = Len(u) + 1 /\ j \in Nat /\ j \in 1..n
    BY <1>2, <1>3
  <2>3. t = InsertAt(u, j, e)
    BY <1>1, <2>1
  <2>4. j \in 1..(Len(u) + 1)
    BY <2>2
  <2>5. InsertAt(u, j, e) \in Seq(ShownRow) /\ PutIn(InsertAt(u, j, e), u, j, e)
    BY <1>2, <2>4, Inserted
  <2>6. t \in Seq(ShownRow) /\ Len(t) = n
    BY <2>2, <2>3, <2>5 DEF PutIn
  <2>7. ASSUME NEW k \in 1..n PROVE t[k] = IF k < j THEN u[k] ELSE IF k = j THEN s[i] ELSE u[k - 1]
    BY <2>1, <2>2, <2>3, <2>5 DEF PutIn
  <2>8. DOMAIN t = 1..n
    BY <2>6
  <2>9. QED
    BY <2>7, <2>8
<1>5. PICK g : g = [k \in 1..n |-> IF k < j THEN (IF k < i THEN k ELSE k + 1)
                                  ELSE IF k = j THEN i ELSE (IF k - 1 < i THEN k - 1 ELSE k)]
  OBVIOUS
<1>6. \A k \in 1..n : g[k] = IF k < j THEN (IF k < i THEN k ELSE k + 1)
                             ELSE IF k = j THEN i ELSE (IF k - 1 < i THEN k - 1 ELSE k)
  BY <1>5
<1>7. i \in 1..n /\ j \in 1..n
  BY <1>3
<1>8. ASSUME NEW k \in 1..n PROVE g[k] \in 1..n /\ t[k] = s[g[k]]
  <2>1. CASE k < j
    <3>1. t[k] = u[k] /\ k \in 1..(n - 1)
      BY <1>4, <1>7, <2>1
    <3>2. u[k] = IF k < i THEN s[k] ELSE s[k + 1]
      BY <1>2, <1>3, <3>1
    <3>3. QED
      BY <1>6, <1>7, <2>1, <3>1, <3>2
  <2>2. CASE k = j
    BY <1>4, <1>6, <1>7, <2>2
  <2>3. CASE k > j
    <3>1. PICK p : p = k - 1
      OBVIOUS
    <3>2. t[k] = u[p] /\ p \in 1..(n - 1) /\ p + 1 = k
      BY <1>4, <1>7, <2>3, <3>1
    <3>3. u[p] = IF p < i THEN s[p] ELSE s[p + 1]
      BY <1>2, <1>3, <3>2
    <3>4. g[k] = IF p < i THEN p ELSE k
      BY <1>6, <1>7, <2>3, <3>1
    <3>5. QED
      BY <1>7, <3>2, <3>3, <3>4
  <2>4. QED
    BY <1>7, <2>1, <2>2, <2>3
<1>9. \A k, m \in 1..n : g[k] = g[m] => k = m
  BY <1>6, <1>7
<1>10. Apart(t)
  BY <1>3, <1>4, <1>8, <1>9 DEF Apart
<1>11. \A k \in DOMAIN t : \E m \in DOMAIN s : t[k] = s[m]
  BY <1>3, <1>4, <1>8
<1>12. \A m \in DOMAIN s : \E k \in DOMAIN t : t[k] = s[m]
  <2>1. s \in Seq(ShownRow)
    OBVIOUS
  <2>2. QED
    BY <2>1, MovedElement
<1>13. QED
  BY <1>10, <1>11, <1>12 DEF Permuted

LEMMA NewRowJoined ==
  ASSUME NEW list, NEW s \in Seq(ShownRow), NEW row \in ShownRow, NEW t, t = Joined(list, s, row)
  PROVE  JoinedTo(list, t, s, row)
<1>1. <<row>> \in Seq(ShownRow) /\ Len(<<row>>) = 1 /\ <<row>>[1] = row
  OBVIOUS
<1>2. PICK n \in Nat : n = Len(s) /\ DOMAIN s = 1..n
  OBVIOUS
<1>3. CASE list.latest
  <2>1. t = <<row>> \o s
    BY <1>3 DEF Joined
  <2>2. /\ t \in Seq(ShownRow) /\ Len(t) = 1 + Len(s)
        /\ \A k \in 1..(1 + Len(s)) : t[k] = IF k <= 1 THEN row ELSE s[k - 1]
    BY <1>1, <2>1, Concatenated
  <2>3. t[1] = row /\ \A k \in 1..n : t[k + 1] = s[k]
    <3>1. 1 \in 1..(1 + n) /\ \A k \in 1..n : k + 1 \in 1..(1 + n) /\ ~(k + 1 <= 1) /\ (k + 1) - 1 = k
      OBVIOUS
    <3>2. QED
      BY <1>2, <2>2, <3>1
  <2>4. QED
    BY <1>2, <1>3, <2>2, <2>3 DEF JoinedTo
<1>4. CASE ~list.latest
  <2>1. t = Append(s, row)
    BY <1>4 DEF Joined
  <2>2. /\ t \in Seq(ShownRow) /\ Len(t) = n + 1
        /\ t[n + 1] = row /\ \A k \in 1..n : t[k] = s[k]
    BY <1>2, <2>1
  <2>3. QED
    BY <1>2, <1>4, <2>2 DEF JoinedTo
<1>5. QED
  BY <1>3, <1>4

-----------------------------------------------------------------------------
(* What the pages' lists have in common.                                          *)
Orderly(list) ==
  /\ list.shows \in {"at once", "on answer", "reload"}
  /\ "reorder" \in list.api => list.shows = "at once" /\ ~list.latest
  /\ list.joins # 0 => list.shows = "on answer"

LEMMA OrderlyLists ==
  ASSUME NEW api, NEW via
  PROVE  /\ Orderly(RowList(api, via)) /\ Orderly(NeverEmpty(RowList(api, via)))
         /\ Orderly(Text(api, via)) /\ Orderly(SavedBlank(Text(api, via)))
         /\ "reorder" \notin api =>
              \A way \in {"on answer", "reload"} :
                /\ Orderly(ShownBy(way, RowList(api, via))) /\ Orderly(ShownBy(way, Text(api, via)))
                /\ Orderly(NewestFirst(ShownBy(way, RowList(api, via))))
                /\ way = "on answer" =>
                     Orderly([ShownBy(way, RowList(api, via)) EXCEPT !.busy = TRUE, !.joins = 1])
BY DEF Orderly, RowList, NeverEmpty, Text, SavedBlank, ShownBy, NewestFirst

OrderlyPage(p) == 0 \notin DOMAIN p.lists /\ \A l \in DOMAIN p.lists : Orderly(p.lists[l])

LEMMA OneOrderly ==
  ASSUME NEW p, NEW a, p.lists = <<a>>, Orderly(a)
  PROVE  OrderlyPage(p)
BY DEF OrderlyPage

LEMMA TwoOrderly ==
  ASSUME NEW p, NEW a, NEW b, p.lists = <<a, b>>, Orderly(a), Orderly(b)
  PROVE  OrderlyPage(p)
BY DEF OrderlyPage

LEMMA ThreeOrderly ==
  ASSUME NEW p, NEW a, NEW b, NEW c, p.lists = <<a, b, c>>, Orderly(a), Orderly(b), Orderly(c)
  PROVE  OrderlyPage(p)
BY DEF OrderlyPage

LEMMA PagesAreOrderly ==
  ASSUME NEW p \in Pages
  PROVE  OrderlyPage(p)
<1> DEFINE Drawers == {CastingBoard, LocationScouting, ShotList, RehearsalTracker, ContinuityNotes, MusicVfx,
                       MilestoneTracker}
<1>1. \A q \in Drawers : OrderlyPage(q)
  <2> SUFFICES ASSUME NEW q \in Drawers PROVE OrderlyPage(q)
    OBVIOUS
  <2>1. \E api : q = Drawer(<<RowList(api, "rows")>>)
    BY DEF CastingBoard, LocationScouting, ShotList, RehearsalTracker, ContinuityNotes, MusicVfx, MilestoneTracker
  <2>2. PICK api : q.lists = <<RowList(api, "rows")>>
    BY <2>1, DrawerMade
  <2>3. Orderly(RowList(api, "rows"))
    BY OrderlyLists
  <2>4. QED
    BY <2>2, <2>3, OneOrderly
<1>2. OrderlyPage(BreakdownDrawer) /\ OrderlyPage(Credits)
  <2>1. /\ BreakdownDrawer.lists = <<SavedBlank(Text(SceneBreakdownService, "rows"))>>
        /\ Credits.lists = <<SavedBlank(Text(CreditsService, "rows"))>>
    BY DrawerMade DEF BreakdownDrawer, Credits
  <2>2. /\ Orderly(SavedBlank(Text(SceneBreakdownService, "rows")))
        /\ Orderly(SavedBlank(Text(CreditsService, "rows")))
    BY OrderlyLists
  <2>3. QED
    BY <2>1, <2>2, OneOrderly
<1>3. OrderlyPage(PressKit)
  <2>1. PressKit.lists = <<Text(PressKitService.kit, "rows"), RowList(PressKitService.stills, "rows"),
                           Text(PressKitService.bios, "rows")>>
    BY DrawerMade DEF PressKit
  <2>2. /\ Orderly(Text(PressKitService.kit, "rows"))
        /\ Orderly(RowList(PressKitService.stills, "rows"))
        /\ Orderly(Text(PressKitService.bios, "rows"))
    BY OrderlyLists
  <2>3. QED
    BY <2>1, <2>2, ThreeOrderly
<1>4. OrderlyPage(FestivalTracker)
  <2>1. FestivalTracker.lists = <<RowList(DistributionService.festivals, "festivals"),
                                  RowList(DistributionService.links, "links")>>
    BY DEF FestivalTracker, Drawer
  <2>2. /\ Orderly(RowList(DistributionService.festivals, "festivals"))
        /\ Orderly(RowList(DistributionService.links, "links"))
    BY OrderlyLists
  <2>3. QED
    BY <2>1, <2>2, TwoOrderly
<1>5. OrderlyPage(BudgetEstimator)
  <2>1. BudgetEstimator.lists = <<SavedBlank(Text(BudgetService.estimate, "budget")),
                                  RowList(BudgetService.lineItems, "budget")>>
    BY DEF BudgetEstimator, Drawer
  <2>2. /\ Orderly(SavedBlank(Text(BudgetService.estimate, "budget")))
        /\ Orderly(RowList(BudgetService.lineItems, "budget"))
    BY OrderlyLists
  <2>3. QED
    BY <2>1, <2>2, TwoOrderly
<1>6. OrderlyPage(StoryPage)
  <2>1. StoryPage.lists = <<Text(StoryService.bible, "story"), NeverEmpty(RowList(StoryService.notes, "story")),
                            Text(StoryService.scripts, "story")>>
    BY DEF StoryPage
  <2>2. /\ Orderly(Text(StoryService.bible, "story"))
        /\ Orderly(NeverEmpty(RowList(StoryService.notes, "story")))
        /\ Orderly(Text(StoryService.scripts, "story"))
    BY OrderlyLists
  <2>3. QED
    BY <2>1, <2>2, ThreeOrderly
<1>7. /\ "reorder" \notin ProjectService.all /\ "reorder" \notin ProjectService.one /\ "reorder" \notin ProjectService.trash
      /\ "reorder" \notin ScriptService.all /\ "reorder" \notin ScriptService.one /\ "reorder" \notin ScriptService.trash
      /\ "reorder" \notin MembershipService.invites /\ "reorder" \notin MembershipService.mine /\ "reorder" \notin CrewService
  BY DEF ProjectService, ScriptService, MembershipService, CrewService
<1>8. OrderlyPage(Dashboard)
  <2>1. PICK a, b :
             /\ Dashboard.lists = <<a, b>>
             /\ a = NewestFirst(ShownBy("on answer", RowList(ProjectService.all, "projects")))
             /\ b = [ShownBy("on answer", RowList(MembershipService.mine, "invites")) EXCEPT !.busy = TRUE, !.joins = 1]
    BY DEF Dashboard
  <2>2. Orderly(a) /\ Orderly(b)
    BY <1>7, <2>1, OrderlyLists
  <2>3. QED
    BY <2>1, <2>2, TwoOrderly
<1>9. OrderlyPage(ProjectPage)
  <2>1. ProjectPage.lists = <<NewestFirst(ShownBy("on answer", RowList(ScriptService.all, "scripts"))),
                              ShownBy("on answer", Text(ProjectService.one, "project"))>>
    BY DEF ProjectPage
  <2>2. /\ Orderly(NewestFirst(ShownBy("on answer", RowList(ScriptService.all, "scripts"))))
        /\ Orderly(ShownBy("on answer", Text(ProjectService.one, "project")))
    BY <1>7, OrderlyLists
  <2>3. QED
    BY <2>1, <2>2, TwoOrderly
<1>10. OrderlyPage(TrashPage) /\ OrderlyPage(ProjectTrashPage)
  <2>1. /\ TrashPage.lists = <<ShownBy("on answer", RowList(ProjectService.trash, "trash"))>>
        /\ ProjectTrashPage.lists = <<ShownBy("on answer", RowList(ScriptService.trash, "trash"))>>
    BY DEF TrashPage, ProjectTrashPage
  <2>2. /\ Orderly(ShownBy("on answer", RowList(ProjectService.trash, "trash")))
        /\ Orderly(ShownBy("on answer", RowList(ScriptService.trash, "trash")))
    BY <1>7, OrderlyLists
  <2>3. QED
    BY <2>1, <2>2, OneOrderly
<1>11. OrderlyPage(CollaboratorStack) /\ OrderlyPage(CrewStack)
  <2>1. /\ CollaboratorStack.lists = <<ShownBy("reload", RowList(MembershipService.invites, "invites"))>>
        /\ CrewStack.lists = <<ShownBy("reload", RowList(CrewService, "crew"))>>
    BY DEF CollaboratorStack, CrewStack
  <2>2. /\ Orderly(ShownBy("reload", RowList(MembershipService.invites, "invites")))
        /\ Orderly(ShownBy("reload", RowList(CrewService, "crew")))
    BY <1>7, OrderlyLists
  <2>3. QED
    BY <2>1, <2>2, OneOrderly
<1>12. OrderlyPage(EditorPage)
  <2>1. EditorPage.lists = <<ShownBy("on answer", Text(ProjectService.one, "project")),
                             ShownBy("on answer", Text(ScriptService.one, "script"))>>
    BY DEF EditorPage, RenameModals
  <2>2. /\ Orderly(ShownBy("on answer", Text(ProjectService.one, "project")))
        /\ Orderly(ShownBy("on answer", Text(ScriptService.one, "script")))
    BY <1>7, OrderlyLists
  <2>3. QED
    BY <2>1, <2>2, TwoOrderly
<1>13. QED
  BY <1>1, <1>2, <1>3, <1>4, <1>5, <1>6, <1>8, <1>9, <1>10, <1>11, <1>12 DEF Pages

LEMMA ListFacts ==
  ASSUME Shape, NEW l \in Lists
  PROVE  /\ l # 0 /\ GoodList(page, l) /\ Orderly(page.lists[l])
         /\ GoodRows(store[l]) /\ view[l] \in Seq(ShownRow)
BY PageFacts, PagesAreOrderly, ShownFields DEF Shape, Lists, OrderlyPage

-----------------------------------------------------------------------------
(* What a step leaves a list showing.                                             *)
LEMMA StillFaithful ==
  ASSUME NEW l, page' = page, NEW list, list = page.lists[l],
         NEW W, W = Writes(l)', NEW L, L = Late(l)', NEW R, R = store'[l],
         \A v \in Changes' : l \in Touched(v) => v.mine,
         Tame(W), Waiting(l)' => W = {},
         \A q \in Served' : q.via = list.via => Mirror(list, Listing(list, q.rows[l]), R, W, L),
         list.via \in got' /\ ~Waiting(l)' /\ (list.shows = "reload" => W = {}) => Mirror(list, view'[l], R, W, L)
  PROVE  Faithful(l)'
<1>1. \A v : Touched(v)' = Touched(v)
  BY DEF Touched
<1>2. Settled(l)' <=> list.via \in got' /\ ~Waiting(l)' /\ (list.shows = "reload" => W = {})
  BY DEF Settled
<1>3. \A s : Mirror(list, s, R, W, L) => Reflects(l, s)'
  BY DEF Reflects
<1>4. Tame(Writes(l))'
  BY DEF Tame, Clash
<1>5. QED
  BY <1>1, <1>2, <1>3, <1>4 DEF Faithful

LEMMA Untouched ==
  ASSUME NEW l, Faithful(l), page' = page, store'[l] = store[l], view'[l] = view[l], Writes(l)' = Writes(l),
         Late(l)' = Late(l), page.lists[l].via \in got' => page.lists[l].via \in got, Waiting(l)' <=> Waiting(l),
         \A q \in Served' : q.via = page.lists[l].via => q \in Served,
         \A v \in Changes' : l \in Touched(v) => v.mine
  PROVE  Faithful(l)'
<1>1. PICK list, W, L, R : list = page.lists[l] /\ W = Writes(l) /\ L = Late(l) /\ R = store[l]
  OBVIOUS
<1>2. Tame(W) /\ (Waiting(l) => W = {})
  BY <1>1 DEF Faithful
<1>3. \A q \in Served' : q.via = list.via => Mirror(list, Listing(list, q.rows[l]), R, W, L)
  BY <1>1 DEF Faithful, Reflects
<1>4. list.via \in got' /\ ~Waiting(l)' /\ (list.shows = "reload" => W = {}) => Mirror(list, view'[l], R, W, L)
  BY <1>1 DEF Faithful, Settled, Reflects
<1>5. W = Writes(l)' /\ L = Late(l)' /\ R = store'[l] /\ (Waiting(l)' => W = {})
  BY <1>1, <1>2
<1>6. QED
  BY <1>1, <1>2, <1>3, <1>4, <1>5, StillFaithful

LEMMA ClashBothWays == \A v, w : Clash(v, w) <=> Clash(w, v)
<1> TAKE v, w
<1>1. {v.verb, w.verb} = {w.verb, v.verb}
  OBVIOUS
<1>2. QED
  BY <1>1 DEF Clash

LEMMA OneSent ==
  ASSUME Sound, NEW l \in Lists, Faithful(l), NEW w, w.list \in Lists, w.n = sent + 1, w.verb # "get", w.stage = "sent",
         w.mine, w.inHand, l \notin CrossedBy(w), page' = page, got' = got, store' = store,
         requests' = requests \union {w},
         w.list # l => view'[l] = view[l],
         NEW list, list = page.lists[l],
         w.list = l /\ Mirror(list, view[l], store[l], Writes(l), Late(l)) /\ list.shows # "reload" =>
           \A V : Sent(Writes(l), w, V) => Mirror(list, view'[l], store[l], V, Late(l))
  PROVE  Faithful(l)'
<1>1. Shape /\ Numbered /\ l # 0
  BY ListFacts DEF Sound
<1>2. /\ Changes' = Changes \union {w} /\ Pending' = Pending /\ Served' = Served
      /\ \A g : Loads(g)' = Loads(g)
      /\ Writes(l)' = IF w.list = l THEN Writes(l) \union {w} ELSE Writes(l)
  BY DEF Changes, Pending, Served, Loads, Writes
<1>3. Waiting(l)' <=> Waiting(l)
  BY <1>2 DEF Waiting
<1>4. Late(l)' = Late(l)
  BY <1>2 DEF Late
<1>5. \A v \in Changes' : l \in Touched(v) => v.mine
  BY <1>2 DEF Faithful
<1>6. CASE w.list # l
  <2>1. QED
    BY <1>2, <1>3, <1>4, <1>5, <1>6, Untouched
<1>7. CASE w.list = l
  <2>1. l \in Touched(w)
    BY <1>1, <1>7 DEF Touched
  <2>2. ~Waiting(l) /\ \A v \in Writes(l) : ~Clash(v, w)
    BY <2>1 DEF CrossedBy, Waiting
  <2>3. PICK W, V, L, R : W = Writes(l) /\ V = W \union {w} /\ L = Late(l) /\ R = store[l]
    OBVIOUS
  <2>4. Tame(V)
    BY <2>2, <2>3, ClashBothWays DEF Faithful, Tame
  <2>5. w \notin W
    <3>1. \A v \in W : v.n # w.n
      BY <1>1, <2>3, ChangeIsOK DEF Writes, Changes, Shape
    <3>2. QED
      BY <3>1
  <2>6. Sent(W, w, V)
    BY <2>3, <2>4, <2>5 DEF Sent
  <2>7. \A q \in Served : q.via # list.via
    BY <2>2 DEF Served, Pending, Waiting, Loads
  <2>8. list.via \in got' /\ ~Waiting(l)' /\ (list.shows = "reload" => V = {}) => Mirror(list, view'[l], R, V, L)
    <3>1. ASSUME list.via \in got', list.shows = "reload" => V = {}
          PROVE  Mirror(list, view'[l], R, V, L)
      <4>1. list.shows # "reload"
        BY <2>3, <3>1
      <4>2. Settled(l)
        BY <2>2, <3>1, <4>1 DEF Settled
      <4>3. Mirror(list, view[l], store[l], Writes(l), Late(l))
        BY <4>2 DEF Faithful, Reflects
      <4>4. QED
        BY <1>7, <2>3, <2>6, <4>1, <4>3
    <3>2. QED
      BY <3>1
  <2>9. V = Writes(l)' /\ L = Late(l)' /\ R = store'[l] /\ ~Waiting(l)'
    BY <1>2, <1>3, <1>4, <1>7, <2>2, <2>3
  <2>10. QED
    BY <1>2, <1>5, <2>4, <2>7, <2>8, <2>9, StillFaithful
<1>8. QED
  BY <1>6, <1>7

LEMMA CrossedRecalled ==
  ASSUME NEW h, WholeHistory(h), NEW x, NEW k
  PROVE  /\ k = [h EXCEPT !.crossed = x] => k.crossed = x
         /\ k = [h EXCEPT !.blanked = x] => k.crossed = h.crossed
         /\ k = [h EXCEPT !.grown = x] => k.crossed = h.crossed
<1>1. PICK c, b, g : h = [crossed |-> c, blanked |-> b, grown |-> g]
  BY DEF WholeHistory
<1>2. QED
  BY <1>1

(* A request of the user's, and what the page shows of it at once.                  *)
LEMMA AddFaithful ==
  ASSUME Sound, WholeHistory(history), NEW l \in Lists, Faithful(l), NEW m \in Lists, Add(m), l \notin history'.crossed
  PROVE  Faithful(l)'
<1>1. Shape /\ Numbered /\ sent \in Nat
  BY DEF Sound, Shape
<1>2. PICK w : w = Request("post", m, sent + 1, sent + 1)
  OBVIOUS
<1>3. /\ w.n = sent + 1 /\ w.verb = "post" /\ w.list = m /\ w.row = sent + 1 /\ w.stage = "sent" /\ w.mine /\ w.inHand
  BY <1>2, RequestFields
<1>4. SendChange(w) /\ view' = view
  BY <1>2 DEF Add
<1>5. /\ l \notin CrossedBy(w) /\ page' = page /\ got' = got /\ store' = store /\ requests' = requests \union {w}
  BY <1>4, CrossedRecalled DEF SendChange
<1>6. PICK list : list = page.lists[l]
  OBVIOUS
<1>7. ASSUME m = l, Mirror(list, view[l], store[l], Writes(l), Late(l)), NEW V, Sent(Writes(l), w, V)
      PROVE  Mirror(list, view[l], store[l], V, Late(l))
  <2>1. \A v \in Writes(l) : v.row # w.row
    <3>1. \A v \in Changes : v.row <= sent /\ v.row \in Nat
      BY <1>1, ChangeIsOK
    <3>2. QED
      BY <1>1, <1>3, <3>1 DEF Writes, Changes
  <2>2. \A i \in DOMAIN view[l] : view[l][i].id # w.row
    BY <1>1, <1>3, ShownFields DEF Numbered
  <2>3. QED
    BY <1>3, <1>7, <2>1, <2>2, PostSent
<1>8. QED
  BY <1>3, <1>4, <1>5, <1>6, <1>7, OneSent

LEMMA EditFaithful ==
  ASSUME Sound, WholeHistory(history), NEW l \in Lists, Faithful(l), NEW m \in Lists, Edit(m), l \notin history'.crossed
  PROVE  Faithful(l)'
<1>1. Shape /\ Numbered /\ sent \in Nat
  BY DEF Sound, Shape
<1>2. PICK i \in DOMAIN view[m] : \E words \in {view[m][i].words, sent + 1} :
        /\ SendChange(Request("put", m, view[m][i].id, words))
        /\ view' = IF page.lists[m].shows = "at once"
                   THEN [view EXCEPT ![m][i].words = words] ELSE view
  BY DEF Edit
<1>3. PICK words \in {view[m][i].words, sent + 1} :
        /\ SendChange(Request("put", m, view[m][i].id, words))
        /\ view' = IF page.lists[m].shows = "at once"
                   THEN [view EXCEPT ![m][i].words = words] ELSE view
  BY <1>2
<1>4. PICK w : w = Request("put", m, view[m][i].id, words)
  OBVIOUS
<1>5. /\ w.n = sent + 1 /\ w.verb = "put" /\ w.list = m /\ w.row = view[m][i].id /\ w.words = words
      /\ w.stage = "sent" /\ w.mine /\ w.inHand
  BY <1>4, RequestFields
<1>6. /\ l \notin CrossedBy(w) /\ page' = page /\ got' = got /\ store' = store /\ requests' = requests \union {w}
  <2>1. SendChange(w)
    BY <1>3, <1>4
  <2>2. QED
    BY <2>1, CrossedRecalled DEF SendChange
<1>7. m # l => view'[l] = view[l]
  BY <1>1, <1>3 DEF Shape
<1>8. PICK list, s, t : list = page.lists[l] /\ s = view[l] /\ t = view'[l]
  OBVIOUS
<1>9. words \in Nat /\ s \in Seq(ShownRow) /\ view \in [Lists -> Seq(ShownRow)]
  BY <1>1, <1>8, ShownFields DEF Shape
<1>10. ASSUME m = l, Mirror(list, s, store[l], Writes(l), Late(l)), NEW V, Sent(Writes(l), w, V)
       PROVE  Mirror(list, t, store[l], V, Late(l))
  <2>1. i \in DOMAIN s /\ w.row = s[i].id
    BY <1>5, <1>8, <1>10
  <2>2. Apart(s)
    BY <1>10 DEF Mirror
  <2>3. IF list.shows = "at once" THEN Reworded(t, s, w.row, w.words) ELSE t = s
    <3>1. CASE list.shows = "at once"
      <4>1. t = [s EXCEPT ![i].words = words]
        BY <1>3, <1>8, <1>9, <1>10, <3>1
      <4>2. Reworded(t, s, s[i].id, words)
        BY <1>9, <2>1, <2>2, <4>1, EditReworded
      <4>3. QED
        BY <1>5, <2>1, <3>1, <4>2
    <3>2. CASE list.shows # "at once"
      BY <1>3, <1>8, <1>10, <3>2
    <3>3. QED
      BY <3>1, <3>2
  <2>4. QED
    BY <1>5, <1>10, <2>1, <2>3, PutSent
<1>11. QED
  BY <1>5, <1>6, <1>7, <1>8, <1>10, OneSent

(* A note that is left empty still agrees with whatever is stored.                     *)
LEMMA LeaveEmptyFaithful ==
  ASSUME Sound, NEW l \in Lists, Faithful(l), NEW m \in Lists, LeaveEmpty(m)
  PROVE  Faithful(l)'
<1>1. /\ Shape /\ page.lists[m].filled
      /\ page' = page /\ got' = got /\ store' = store /\ requests' = requests
  BY Emptied DEF Sound
<1>2. PICK t \in Seq(ShownRow) :
        /\ view' = [view EXCEPT ![m] = t] /\ DOMAIN t = DOMAIN view[m]
        /\ \A k \in DOMAIN t : /\ t[k].id = view[m][k].id /\ t[k].chosen = view[m][k].chosen
                               /\ t[k].words = view[m][k].words \/ t[k].words = 0
  BY <1>1, Emptied
<1>3. PICK list, s, W, L, R : list = page.lists[l] /\ s = view[l] /\ W = Writes(l) /\ L = Late(l) /\ R = store[l]
  OBVIOUS
<1>4. /\ W = Writes(l)' /\ L = Late(l)' /\ R = store'[l] /\ (Waiting(l)' <=> Waiting(l))
      /\ Served' = Served /\ Changes' = Changes
  BY <1>1, <1>3 DEF Writes, Late, Waiting, Loads, Served, Pending, Changes
<1>5. /\ \A v \in Changes' : l \in Touched(v) => v.mine
      /\ Tame(W) /\ (Waiting(l)' => W = {})
  BY <1>3, <1>4 DEF Faithful
<1>6. \A q \in Served' : q.via = list.via => Mirror(list, Listing(list, q.rows[l]), R, W, L)
  BY <1>3, <1>4 DEF Faithful, Reflects
<1>7. list.via \in got' /\ ~Waiting(l)' /\ (list.shows = "reload" => W = {}) => Mirror(list, s, R, W, L)
  BY <1>1, <1>3, <1>4 DEF Faithful, Settled, Reflects
<1>8. ASSUME Mirror(list, s, R, W, L) PROVE Mirror(list, view'[l], R, W, L)
  <2>1. CASE m # l
    <3>1. view'[l] = s
      BY <1>1, <1>2, <1>3, <2>1 DEF Shape
    <3>2. QED
      BY <1>8, <3>1
  <2>2. CASE m = l
    <3>1. view'[l] = t /\ list.filled
      BY <1>1, <1>2, <1>3, <2>2 DEF Shape
    <3>2. /\ DOMAIN t = DOMAIN s
          /\ \A k \in DOMAIN s : t[k].id = s[k].id /\ (t[k].chosen <=> s[k].chosen)
          /\ \A k \in DOMAIN s : t[k].words = s[k].words \/ t[k].words = 0
      BY <1>2, <1>3, <2>2
    <3>3. \A k \in DOMAIN s : \A words : Agrees(list, s[k].words, words) => Agrees(list, t[k].words, words)
      BY <3>1, <3>2 DEF Agrees
    <3>4. SameWords(list, s, R, W)
      BY <1>8 DEF Mirror
    <3>5. SameWords(list, t, R, W)
      <4>1. SUFFICES ASSUME NEW k \in DOMAIN s, NEW r \in R, t[k].id = r.id
            PROVE  /\ ~Asked(W, "put", r.id) => Agrees(list, t[k].words, r.words)
                   /\ \A w \in W : w.verb = "put" /\ w.row = r.id =>
                        /\ w.stage = "done" => r.words = w.words
                        /\ list.shows = "at once" => Agrees(list, t[k].words, w.words)
        BY <3>2 DEF SameWords
      <4>2. s[k].id = r.id /\ \A words : Agrees(list, s[k].words, words) => Agrees(list, t[k].words, words)
        BY <3>2, <3>3, <4>1
      <4>3. /\ ~Asked(W, "put", r.id) => Agrees(list, s[k].words, r.words)
            /\ \A w \in W : w.verb = "put" /\ w.row = r.id =>
                 /\ w.stage = "done" => r.words = w.words
                 /\ list.shows = "at once" => Agrees(list, s[k].words, w.words)
        BY <3>4, <4>2 DEF SameWords
      <4>4. QED
        BY <4>2, <4>3
    <3>6. Mirror(list, t, R, W, L)
      BY <1>8, <3>2, <3>5, SameRowsInOrder DEF Mirror
    <3>7. QED
      BY <3>1, <3>6
  <2>3. QED
    BY <2>1, <2>2
<1>9. list.via \in got' /\ ~Waiting(l)' /\ (list.shows = "reload" => W = {}) => Mirror(list, view'[l], R, W, L)
  BY <1>7, <1>8
<1>10. QED
  BY <1>1, <1>3, <1>4, <1>5, <1>6, <1>9, StillFaithful

LEMMA RemoveFaithful ==
  ASSUME Sound, WholeHistory(history), NEW l \in Lists, Faithful(l), NEW m \in Lists, RemoveRow(m),
         l \notin history'.crossed
  PROVE  Faithful(l)'
<1>1. Shape /\ Numbered /\ sent \in Nat
  BY DEF Sound, Shape
<1>2. PICK i \in DOMAIN view[m] :
       /\ \E verb \in {"delete"} \union IF page.lists[m].joins = 0 THEN {} ELSE {"accept"} :
            SendChange(Request(verb, m, view[m][i].id, 0))
       /\ view' = IF page.lists[m].shows = "at once"
                  THEN [view EXCEPT ![m] = RemoveAt(@, i)] ELSE view
  BY DEF RemoveRow
<1>3. PICK verb \in {"delete"} \union IF page.lists[m].joins = 0 THEN {} ELSE {"accept"} :
            SendChange(Request(verb, m, view[m][i].id, 0))
  BY <1>2
<1>4. PICK w : w = Request(verb, m, view[m][i].id, 0)
  OBVIOUS
<1>5. /\ w.n = sent + 1 /\ w.verb = verb /\ w.list = m /\ w.row = view[m][i].id
      /\ w.stage = "sent" /\ w.mine /\ w.inHand /\ verb \in {"delete", "accept"}
      /\ verb = "accept" => page.lists[m].joins # 0
  <2>1. verb \in {"delete", "accept"} /\ (verb = "accept" => page.lists[m].joins # 0)
    OBVIOUS
  <2>2. QED
    BY <1>4, <2>1, RequestFields
<1>6. /\ l \notin CrossedBy(w) /\ page' = page /\ got' = got /\ store' = store /\ requests' = requests \union {w}
  BY <1>3, <1>4, CrossedRecalled DEF SendChange
<1>7. m # l => view'[l] = view[l]
  BY <1>1, <1>2 DEF Shape
<1>8. PICK list, s, t : list = page.lists[l] /\ s = view[l] /\ t = view'[l]
  OBVIOUS
<1>9. s \in Seq(ShownRow) /\ view \in [Lists -> Seq(ShownRow)] /\ Orderly(list)
  BY <1>1, <1>8, ShownFields, ListFacts DEF Shape
<1>10. ASSUME m = l, Mirror(list, s, store[l], Writes(l), Late(l)), NEW V, Sent(Writes(l), w, V)
       PROVE  Mirror(list, t, store[l], V, Late(l))
  <2>1. i \in DOMAIN s /\ w.row = s[i].id
    BY <1>5, <1>8, <1>10
  <2>2. Apart(s)
    BY <1>10 DEF Mirror
  <2>3. IF list.shows = "at once" THEN Less(t, s, w.row) ELSE t = s
    <3>1. CASE list.shows = "at once"
      <4>1. t = RemoveAt(s, i)
        BY <1>2, <1>8, <1>9, <1>10, <3>1
      <4>2. QED
        BY <1>9, <2>1, <2>2, <3>1, <4>1, RemovalLess
    <3>2. CASE list.shows # "at once"
      BY <1>2, <1>8, <1>10, <3>2
    <3>3. QED
      BY <3>1, <3>2
  <2>4. w.verb = "accept" => list.shows # "at once"
    BY <1>5, <1>8, <1>9, <1>10 DEF Orderly
  <2>5. w.verb \in {"delete", "accept"}
    BY <1>5
  <2>6. QED
    BY <1>10, <2>1, <2>3, <2>4, <2>5, RemovalSent
<1>11. w.list \in Lists /\ w.verb # "get"
  BY <1>5
<1>12. QED
  BY <1>5, <1>6, <1>7, <1>8, <1>10, <1>11, OneSent

LEMMA ChooseFaithful ==
  ASSUME Sound, WholeHistory(history), NEW l \in Lists, Faithful(l), NEW m \in Lists, Choose(m), l \notin history'.crossed
  PROVE  Faithful(l)'
<1>1. Shape /\ Numbered /\ sent \in Nat
  BY DEF Sound, Shape
<1>2. PICK i \in DOMAIN view[m] :
       /\ SendChange(Request("choose", m, view[m][i].id, 0))
       /\ view' = [view EXCEPT ![m] = Choosing(@, view[m][i].id)]
  BY DEF Choose
<1>4. PICK w : w = Request("choose", m, view[m][i].id, 0)
  OBVIOUS
<1>5. /\ w.n = sent + 1 /\ w.verb = "choose" /\ w.list = m /\ w.row = view[m][i].id
      /\ w.stage = "sent" /\ w.mine /\ w.inHand
  BY <1>4, RequestFields
<1>6. /\ l \notin CrossedBy(w) /\ page' = page /\ got' = got /\ store' = store /\ requests' = requests \union {w}
  BY <1>2, <1>4, CrossedRecalled DEF SendChange
<1>7. m # l => view'[l] = view[l]
  BY <1>1, <1>2 DEF Shape
<1>8. PICK list, s, t : list = page.lists[l] /\ s = view[l] /\ t = view'[l]
  OBVIOUS
<1>9. s \in Seq(ShownRow) /\ view \in [Lists -> Seq(ShownRow)] /\ "choose" \in page.lists[m].api
  BY <1>1, <1>8, ShownFields DEF Shape, Choose, Can
<1>10. ASSUME m = l, Mirror(list, s, store[l], Writes(l), Late(l)), NEW V, Sent(Writes(l), w, V)
       PROVE  Mirror(list, t, store[l], V, Late(l))
  <2>1. i \in DOMAIN s /\ w.row = s[i].id
    BY <1>5, <1>8, <1>10
  <2>2. t = Choosing(s, w.row)
    BY <1>2, <1>8, <1>9, <1>10, <2>1
  <2>3. Rechosen(t, s, w.row)
    BY <1>9, <2>2, ChoiceRechosen
  <2>4. \A v \in Writes(l) : v.verb # "accept"
    <3>1. list.joins = 0 /\ list.api \subseteq {"post", "put", "delete", "choose", "reorder"}
      BY <1>1, <1>8, <1>9, <1>10, ListFacts DEF GoodList
    <3>2. \A v \in Changes : v.list = l => v.verb \in list.api
      BY <1>1, <1>8, <3>1, ChangeIsOK DEF Verbs
    <3>3. QED
      BY <3>1, <3>2 DEF Writes, Changes
  <2>5. QED
    BY <1>5, <1>10, <2>1, <2>3, <2>4, ChoiceSent
<1>11. QED
  BY <1>5, <1>6, <1>7, <1>8, <1>10, OneSent

LEMMA ReorderFaithful ==
  ASSUME Sound, WholeHistory(history), NEW l \in Lists, Faithful(l), NEW m \in Lists, Reorder(m), l \notin history'.crossed
  PROVE  Faithful(l)'
<1>1. Shape /\ Numbered /\ sent \in Nat
  BY DEF Sound, Shape
<1> DEFINE Moved(i, j) == InsertAt(RemoveAt(view[m], i), j, view[m][i])
<1>2. PICK i \in DOMAIN view[m], j \in DOMAIN view[m] :
       /\ SendChange([Request("reorder", m, 0, 0) EXCEPT !.ids = [k \in DOMAIN Moved(i, j) |-> Moved(i, j)[k].id]])
       /\ view' = [view EXCEPT ![m] = Moved(i, j)]
  BY DEF Reorder
<1>3. PICK u : u = Moved(i, j)
  OBVIOUS
<1>4. PICK w0, ids : w0 = Request("reorder", m, 0, 0) /\ ids = [k \in DOMAIN u |-> u[k].id]
  OBVIOUS
<1>a. PICK w : w = [w0 EXCEPT !.ids = ids]
  OBVIOUS
<1>5. /\ w.n = sent + 1 /\ w.verb = "reorder" /\ w.list = m /\ w.ids = ids
      /\ w.stage = "sent" /\ w.mine /\ w.inHand
  BY <1>4, <1>a DEF Request
<1>6. /\ l \notin CrossedBy(w) /\ page' = page /\ got' = got /\ store' = store /\ requests' = requests \union {w}
  BY <1>2, <1>3, <1>4, <1>a, CrossedRecalled DEF SendChange
<1>7. m # l => view'[l] = view[l]
  BY <1>1, <1>2 DEF Shape
<1>8. PICK list, s, t : list = page.lists[l] /\ s = view[l] /\ t = view'[l]
  OBVIOUS
<1>9. s \in Seq(ShownRow) /\ view \in [Lists -> Seq(ShownRow)]
  BY <1>1, <1>8, ShownFields DEF Shape
<1>10. ASSUME m = l, Mirror(list, s, store[l], Writes(l), Late(l)), NEW V, Sent(Writes(l), w, V)
       PROVE  Mirror(list, t, store[l], V, Late(l))
  <2>1. i \in DOMAIN s /\ j \in DOMAIN s /\ u = InsertAt(RemoveAt(s, i), j, s[i])
    BY <1>3, <1>8, <1>10
  <2>2. t = u
    BY <1>2, <1>3, <1>8, <1>9, <1>10
  <2>3. Apart(s)
    BY <1>10 DEF Mirror
  <2>4. Permuted(t, s)
    BY <1>9, <2>1, <2>2, <2>3, MovePermutes
  <2>5. w.ids = [k \in DOMAIN t |-> t[k].id]
    BY <1>4, <1>5, <2>2
  <2>6. QED
    BY <1>5, <1>10, <2>4, <2>5, OrderIsSent
<1>11. QED
  BY <1>5, <1>6, <1>7, <1>8, <1>10, OneSent

(* A page that is opened knows nothing of what is on its way.                        *)
LEMMA OpenFaithful ==
  ASSUME Sound, WholeHistory(history), Waited, NEW l \in Lists, Open, l \notin history'.crossed
  PROVE  Faithful(l)' /\ AllAskedFor'
<1>1. Shape /\ l # 0
  BY ListFacts DEF Sound
<1>2. /\ Pending = {} /\ page' = page /\ got' = {}
      /\ requests' = requests \union {LoadRequest(0, g) : g \in page.gets}
      /\ \A w \in requests : l \notin Touched(w)
  BY CrossedRecalled DEF Open, Waited
<1>3. \A g : LoadRequest(0, g).verb = "get" /\ LoadRequest(0, g).via = g /\ LoadRequest(0, g).stage = "sent"
  BY DEF LoadRequest
<1>4. Changes' = Changes /\ Served' = {} /\ \A g \in page.gets : Loads(g)' # {}
  BY <1>2, <1>3 DEF Changes, Served, Pending, Loads
<1>5. \A w \in Changes : l \notin Touched(w)
  BY <1>2 DEF Changes
<1>6. Writes(l)' = {}
  BY <1>1, <1>4, <1>5 DEF Writes, Changes, Touched
<1>7. PICK list, L, R, W : list = page.lists[l] /\ L = Late(l)' /\ R = store'[l] /\ W = {}
  OBVIOUS
<1>8. Tame(W)
  BY <1>7 DEF Tame
<1>9. Faithful(l)'
  BY <1>2, <1>4, <1>5, <1>6, <1>7, <1>8, StillFaithful
<1>10. AllAskedFor'
  BY <1>2, <1>4 DEF AllAskedFor
<1>11. QED
  BY <1>9, <1>10

(* A load is served: it will show what is stored now.                               *)
LEMMA LoadServedFaithful ==
  ASSUME Sound, NEW l \in Lists, Faithful(l), NEW q \in requests, LoadServed(q)
  PROVE  Faithful(l)'
<1>1. Shape /\ GoodRows(store[l])
  BY ListFacts DEF Sound
<1>2. PICK p : p = [q EXCEPT !.stage = "done", !.rows = store]
  OBVIOUS
<1>3. /\ requests' = (requests \ {q}) \union {p} /\ q.verb = "get" /\ page' = page /\ view' = view /\ got' = got
      /\ store' = store /\ q \in Pending
  BY <1>2 DEF LoadServed, pageVars, Pending
<1>4. LoadOK(q)
  BY <1>1, <1>3 DEF Shape, RequestOK
<1>5. p.verb = "get" /\ p.via = q.via /\ p.rows = store
  BY <1>2, <1>4 DEF LoadOK
<1>6. Changes' = Changes /\ \A v \in Served' : v \in Served \/ v = p
  BY <1>3, <1>5 DEF Changes, Served, Pending
<1>7. \A g : Loads(g)' # {} <=> Loads(g) # {}
  <2>1. \A g : Loads(g)' = IF g = q.via THEN (Loads(g) \ {q}) \union {p} ELSE Loads(g)
    BY <1>3, <1>5 DEF Loads
  <2>2. q \in Loads(q.via)
    BY <1>3 DEF Loads
  <2>3. QED
    BY <2>1, <2>2
<1>8. Waiting(l)' <=> Waiting(l)
  BY <1>3, <1>7 DEF Waiting
<1>9. Writes(l)' = Writes(l) /\ Late(l)' = Late(l)
  BY <1>3, <1>6 DEF Writes, Changes, Late
<1>10. \A v \in Changes' : l \in Touched(v) => v.mine
  BY <1>6 DEF Faithful
<1>11. CASE q.via # page.lists[l].via
  <2>1. \A v \in Served' : v.via = page.lists[l].via => v \in Served
    BY <1>5, <1>6, <1>11
  <2>2. QED
    BY <1>3, <1>8, <1>9, <1>10, <2>1, Untouched
<1>12. CASE q.via = page.lists[l].via
  <2>1. Waiting(l) /\ Writes(l) = {}
    BY <1>3, <1>12 DEF Waiting, Loads, Faithful
  <2>2. PICK list, L, R, W : list = page.lists[l] /\ L = Late(l) /\ R = store[l] /\ W = {}
    OBVIOUS
  <2>3. Mirror(list, Listing(list, R), R, W, L)
    BY <1>1, <2>2, LoadedMirror
  <2>4. \A v \in Served : v.via = list.via => Mirror(list, Listing(list, v.rows[l]), R, W, L)
    BY <2>1, <2>2 DEF Faithful, Reflects
  <2>5. \A v \in Served' : v.via = list.via => Mirror(list, Listing(list, v.rows[l]), R, W, L)
    BY <1>5, <1>6, <2>2, <2>3, <2>4
  <2>6. Tame(W)
    BY <2>2 DEF Tame
  <2>7. Waiting(l)'
    BY <1>8, <2>1
  <2>8. W = Writes(l)' /\ L = Late(l)' /\ R = store'[l]
    BY <1>3, <1>9, <2>1, <2>2
  <2>9. QED
    BY <1>3, <1>10, <2>2, <2>5, <2>6, <2>7, <2>8, StillFaithful
<1>13. QED
  BY <1>11, <1>12

(* The changes that are on their way when a load is answered: some lose their row.     *)
LEMMA DetachedChanges ==
  ASSUME Shape, NEW q \in requests, Loaded(q)
  PROVE  /\ \A v \in Changes' : \E r \in Changes :
              /\ SameRequest(v, r) /\ v.stage = r.stage /\ (v.mine <=> r.mine)
              /\ v = r \/ page.lists[r.list].via = q.via
         /\ \A r \in Changes : \E v \in Changes' :
              /\ SameRequest(v, r) /\ v.stage = r.stage /\ (v.mine <=> r.mine)
              /\ v = r \/ page.lists[r.list].via = q.via
         /\ Pending' = Pending \ {q}
<1> DEFINE Drop(r) == IF r.verb # "get" /\ r.mine /\ page.lists[r.list].via = q.via THEN [r EXCEPT !.inHand = FALSE] ELSE r
<1>1. requests' = {Drop(r) : r \in requests} \ {q} /\ q.verb = "get"
  BY DEF Loaded, Detached
<1>2. ASSUME NEW r \in Changes
      PROVE  /\ SameRequest(Drop(r), r) /\ Drop(r).stage = r.stage /\ (Drop(r).mine <=> r.mine)
             /\ Drop(r) = r \/ page.lists[r.list].via = q.via
             /\ Drop(r).verb # "get"
  <2>1. ChangeOK(r) /\ r.verb # "get"
    BY ChangeIsOK DEF Changes
  <2>2. CASE r.mine /\ page.lists[r.list].via = q.via
    <3>1. PICK v : v = [r EXCEPT !.inHand = FALSE]
      OBVIOUS
    <3>2. SameRequest(v, r) /\ v.stage = r.stage /\ (v.mine <=> r.mine)
      BY <2>1, <3>1, OutOfHand
    <3>3. Drop(r) = v
      BY <2>1, <2>2, <3>1
    <3>4. QED
      BY <2>1, <2>2, <3>2, <3>3 DEF SameRequest
  <2>3. CASE ~(r.mine /\ page.lists[r.list].via = q.via)
    BY <2>1, <2>3 DEF SameRequest
  <2>4. QED
    BY <2>2, <2>3
<1>3. \A r \in Pending : Drop(r) = r
  BY DEF Pending
<1> HIDE DEF Drop
<1>4. ASSUME NEW v \in Changes'
      PROVE  \E r \in Changes : v = Drop(r)
  <2>1. PICK r \in requests : v = Drop(r) /\ v.verb # "get"
    BY <1>1 DEF Changes
  <2>2. r \in Changes
    BY <1>3, <2>1 DEF Changes, Pending
  <2>3. QED
    BY <2>1, <2>2
<1>5. ASSUME NEW r \in Changes
      PROVE  Drop(r) \in Changes'
  <2>1. Drop(r).verb # "get" /\ r \in requests
    BY <1>2 DEF Changes
  <2>2. Drop(r) # q
    BY <1>1, <2>1
  <2>3. QED
    BY <1>1, <2>1, <2>2 DEF Changes
<1>6. Pending' = Pending \ {q}
  <2>1. ASSUME NEW v \in Pending' PROVE v \in Pending \ {q}
    BY SettledLoad, <2>1
  <2>2. ASSUME NEW v \in Pending \ {q} PROVE v \in Pending'
    BY <1>1, <1>3, <2>2 DEF Pending
  <2>3. QED
    BY <2>1, <2>2
<1>7. \A v \in Changes' : \E r \in Changes :
        /\ SameRequest(v, r) /\ v.stage = r.stage /\ (v.mine <=> r.mine)
        /\ v = r \/ page.lists[r.list].via = q.via
  BY <1>2, <1>4
<1>8. \A r \in Changes : \E v \in Changes' :
        /\ SameRequest(v, r) /\ v.stage = r.stage /\ (v.mine <=> r.mine)
        /\ v = r \/ page.lists[r.list].via = q.via
  BY <1>2, <1>5
<1>9. QED
  BY <1>6, <1>7, <1>8

LEMMA LoadedFaithful ==
  ASSUME Sound, NEW l \in Lists, Faithful(l), NEW q \in requests, Loaded(q)
  PROVE  Faithful(l)'
<1>1. Shape
  BY DEF Sound
<1>2. /\ q \in Pending /\ q \in Served /\ page' = page /\ got' = got \union {q.via} /\ store' = store
      /\ view'[l] = IF page.lists[l].via = q.via THEN Listing(page.lists[l], q.rows[l]) ELSE view[l]
  BY DEF Loaded, Pending, Served
<1> DEFINE Twins(v, r) == /\ SameRequest(v, r) /\ v.stage = r.stage /\ (v.mine <=> r.mine)
                          /\ v = r \/ page.lists[r.list].via = q.via
<1>3. /\ \A v \in Changes' : \E r \in Changes : Twins(v, r)
      /\ \A r \in Changes : \E v \in Changes' : Twins(v, r)
      /\ Pending' = Pending \ {q}
  BY <1>1, DetachedChanges
<1>4. Served' \subseteq Served /\ \A g : Loads(g)' = Loads(g) \ {q}
  BY <1>3 DEF Served, Pending, Loads
<1>5. \A v \in Changes' : l \in Touched(v) => v.mine
  <2>1. \A v, r : Twins(v, r) => Touched(v) = Touched(r) /\ (v.mine <=> r.mine)
    BY DEF SameRequest, Touched
  <2>2. QED
    BY <1>3, <2>1 DEF Faithful
<1>6. Late(l)' = Late(l)
  <2> DEFINE In(w) == w.verb = "accept" /\ w.stage = "done" /\ page.lists[w.list].joins = l
  <2>1. \A v, r : Twins(v, r) => v.n = r.n /\ (In(v) <=> In(r))
    BY DEF SameRequest
  <2>2. Late(l) = {w.n : w \in {w \in Changes : In(w)}} /\ Late(l)' = {w.n : w \in {w \in Changes' : In(w)}}
    BY <1>2 DEF Late
  <2> HIDE DEF In, Twins
  <2>3. QED
    BY <1>3, <2>1, <2>2
<1>7. CASE q.via # page.lists[l].via
  <2>1. q \notin Loads(page.lists[l].via) /\ (Waiting(l)' <=> Waiting(l))
    BY <1>2, <1>4, <1>7 DEF Loads, Waiting
  <2>2. \A v, r : Twins(v, r) /\ (v.list = l \/ r.list = l) => v = r
    BY <1>7 DEF SameRequest
  <2>3. Writes(l)' = {v \in Changes' : v.list = l} /\ Writes(l) = {v \in Changes : v.list = l}
    BY DEF Writes, Changes
  <2>4. Writes(l)' = Writes(l)
    <3> HIDE DEF Twins
    <3>1. ASSUME NEW v \in Writes(l)' PROVE v \in Writes(l)
      <4>1. v \in Changes' /\ v.list = l
        BY <2>3
      <4>2. PICK r \in Changes : Twins(v, r)
        BY <1>3, <4>1
      <4>3. QED
        BY <2>2, <2>3, <4>1, <4>2
    <3>2. ASSUME NEW r \in Writes(l) PROVE r \in Writes(l)'
      <4>1. r \in Changes /\ r.list = l
        BY <2>3
      <4>2. PICK v \in Changes' : Twins(v, r)
        BY <1>3, <4>1
      <4>3. v = r
        BY <2>2, <4>1, <4>2
      <4>4. QED
        BY <2>3, <4>1, <4>2, <4>3
    <3>3. QED
      BY <3>1, <3>2
  <2>5. QED
    BY <1>2, <1>4, <1>5, <1>6, <1>7, <2>1, <2>4, Untouched
<1>8. CASE q.via = page.lists[l].via
  <2>1. Waiting(l) /\ Writes(l) = {}
    BY <1>2, <1>8 DEF Waiting, Loads, Pending, Faithful
  <2>2. Writes(l)' = {}
    <3>1. \A v, r : Twins(v, r) => v.list = r.list
      BY DEF SameRequest
    <3>2. QED
      BY <1>3, <2>1, <3>1 DEF Writes, Changes
  <2>3. PICK list, L, R, W : list = page.lists[l] /\ L = Late(l) /\ R = store[l] /\ W = {}
    OBVIOUS
  <2>4. \A v \in Served : v.via = list.via => Mirror(list, Listing(list, v.rows[l]), R, W, L)
    BY <2>1, <2>3 DEF Faithful, Reflects
  <2>5. Mirror(list, view'[l], R, W, L)
    BY <1>2, <1>8, <2>3, <2>4
  <2>6. Tame(W)
    BY <2>3 DEF Tame
  <2>7. W = Writes(l)' /\ L = Late(l)' /\ R = store'[l]
    BY <1>2, <1>6, <2>2, <2>3
  <2>8. \A v \in Served' : v.via = list.via => Mirror(list, Listing(list, v.rows[l]), R, W, L)
    BY <1>4, <2>4
  <2>9. QED
    BY <1>2, <1>5, <2>3, <2>5, <2>6, <2>7, <2>8, StillFaithful
<1>9. QED
  BY <1>7, <1>8

-----------------------------------------------------------------------------
(* A change moves on at the server, and what the lists' rows become.                 *)
LEMMA ChangeMoved ==
  ASSUME Shape, page' = page, NEW w \in Changes, NEW d, SameRequest(d, w), NEW D \in SUBSET {d},
         requests' = (requests \ {w}) \union D
  PROVE  /\ Pending' = Pending /\ Served' = Served /\ (\A l : Waiting(l)' <=> Waiting(l))
         /\ \A l : Writes(l)' = IF w.list = l THEN (Writes(l) \ {w}) \union D ELSE Writes(l)
         /\ Changes' = (Changes \ {w}) \union D
<1>1. w.verb # "get" /\ d.verb # "get" /\ d.list = w.list /\ w \in requests
  BY DEF Changes, SameRequest
<1>2. Pending' = Pending /\ Changes' = (Changes \ {w}) \union D
  BY <1>1 DEF Pending, Changes
<1>3. Served' = Served /\ \A g : Loads(g)' = Loads(g)
  BY <1>1, <1>2 DEF Served, Loads
<1>4. \A l : Waiting(l)' <=> Waiting(l)
  BY <1>3 DEF Waiting
<1>5. \A l : Writes(l)' = IF w.list = l THEN (Writes(l) \ {w}) \union D ELSE Writes(l)
  BY <1>1 DEF Writes
<1>6. QED
  BY <1>2, <1>3, <1>4, <1>5

LEMMA NoListJoinsItself ==
  ASSUME Shape, NEW l \in Lists
  PROVE  page.lists[l].joins # l
BY ListFacts DEF GoodList

LEMMA MovedHere ==
  ASSUME Sound, NEW l \in Lists, Faithful(l), NEW w \in Changes, w.list = l,
         NEW d, SameRequest(d, w), d.ids = w.ids, d.inHand <=> w.inHand, d.mine <=> w.mine,
         requests' = (requests \ {w}) \union {d}, page' = page, got' = got, view' = view,
         NEW list, list = page.lists[l],
         Mirror(list, view[l], store[l], Writes(l), Late(l)) =>
           \A V : Onward(Writes(l), w, d, V) => Mirror(list, view[l], store'[l], V, Late(l))
  PROVE  Faithful(l)'
<1>1. Shape /\ page.lists[l].joins # l
  BY NoListJoinsItself DEF Sound
<1>2. d.n = w.n /\ d.verb = w.verb /\ d.list = w.list /\ d.row = w.row /\ d.words = w.words
  BY DEF SameRequest
<1>3. /\ Served' = Served /\ (Waiting(l)' <=> Waiting(l))
      /\ Writes(l)' = (Writes(l) \ {w}) \union {d} /\ Changes' = (Changes \ {w}) \union {d}
  BY <1>1, ChangeMoved
<1>4. w \in Writes(l)
  BY DEF Writes, Changes
<1>5. ~Waiting(l) /\ Tame(Writes(l))
  BY <1>4 DEF Faithful
<1>6. PICK W, V, L, R : W = Writes(l) /\ V = (W \ {w}) \union {d} /\ L = Late(l) /\ R = store'[l]
  OBVIOUS
<1>7. Onward(W, w, d, V)
  BY <1>2, <1>4, <1>5, <1>6 DEF Onward
<1>8. \A x : Clash(d, x) <=> Clash(w, x)
  BY <1>2 DEF Clash
<1>9. Tame(V)
  <2>1. \A v \in V : v.inHand
    BY <1>4, <1>5, <1>6 DEF Tame
  <2>2. \A x \in W \ {w} : ~Clash(d, x) /\ ~Clash(x, d)
    BY <1>4, <1>5, <1>6, <1>8, ClashBothWays DEF Tame
  <2>3. \A x, y \in V : x # y => ~Clash(x, y)
    BY <1>5, <1>6, <2>2 DEF Tame
  <2>4. QED
    BY <2>1, <2>3 DEF Tame
<1>10. Late(l)' = Late(l)
  BY <1>1, <1>2, <1>3 DEF Late
<1>11. \A v \in Changes' : l \in Touched(v) => v.mine
  <2>1. Touched(d) = Touched(w)
    BY <1>2 DEF Touched
  <2>2. QED
    BY <1>3, <2>1 DEF Faithful
<1>12. \A q \in Served' : q.via # list.via
  BY <1>3, <1>5 DEF Waiting, Loads, Served, Pending
<1>13. ASSUME list.via \in got', list.shows = "reload" => V = {}
       PROVE  Mirror(list, view'[l], R, V, L)
  <2>1. list.shows # "reload"
    BY <1>6, <1>13
  <2>2. Settled(l)
    BY <1>5, <1>13, <2>1 DEF Settled
  <2>3. Mirror(list, view[l], store[l], Writes(l), Late(l))
    BY <2>2 DEF Faithful, Reflects
  <2>4. QED
    BY <1>6, <1>7, <2>3
<1>14. V = Writes(l)' /\ L = Late(l)' /\ R = store'[l] /\ ~Waiting(l)'
  BY <1>3, <1>5, <1>6, <1>10
<1>15. QED
  BY <1>9, <1>11, <1>12, <1>13, <1>14, StillFaithful

LEMMA MovedElsewhere ==
  ASSUME Sound, NEW l \in Lists, Faithful(l), NEW w \in Changes, w.list # l,
         NEW d, SameRequest(d, w), d.mine <=> w.mine, NEW D \in SUBSET {d}, requests' = (requests \ {w}) \union D,
         page' = page, got' = got, view' = view, store'[l] = store[l], Late(l)' = Late(l)
  PROVE  Faithful(l)'
<1>1. Shape
  BY DEF Sound
<1>2. /\ Served' = Served /\ (Waiting(l)' <=> Waiting(l))
      /\ Writes(l)' = Writes(l) /\ Changes' = (Changes \ {w}) \union D
  BY <1>1, ChangeMoved
<1>3. \A v \in Changes' : l \in Touched(v) => v.mine
  <2>1. Touched(d) = Touched(w)
    BY DEF Touched, SameRequest
  <2>2. QED
    BY <1>2, <2>1 DEF Faithful
<1>4. QED
  BY <1>2, <1>3, Untouched

LEMMA NextPositionIsLast ==
  ASSUME NEW R, GoodRows(R), NEW r \in R
  PROVE  r.pos < NextPosition(R) /\ r.pos \in Nat /\ NextPosition(R) \in Nat
<1> DEFINE f == [x \in R |-> x.pos]
           P == {x.pos : x \in R}
<1>1. IsFiniteSet(R) /\ \A x \in R : x.pos \in Nat
  BY DEF GoodRows, StoredRow
<1>2. f \in Surjection(R, P) /\ P \in SUBSET Nat
  BY <1>1 DEF Surjection
<1>3. IsFiniteSet(P)
  BY <1>1, <1>2, FS_Surjection
<1>4. r.pos \in P
  OBVIOUS
<1>5. Max(P) \in Nat /\ Max(P) >= r.pos
  BY <1>2, <1>3, <1>4, LargestNumber
<1>6. NextPosition(R) = Max(P) + 1
  BY DEF NextPosition
<1>7. QED
  BY <1>1, <1>5, <1>6

LEMMA PostReflected ==
  ASSUME Sound, NEW w \in Changes, w.stage = "sent", w.verb = "post", store' = Written(w), NEW l, l = w.list,
         NEW list, NEW s, NEW W, NEW L, Mirror(list, s, store[l], W, L), NEW d, d.stage = "done",
         NEW V, Onward(W, w, d, V)
  PROVE  Mirror(list, s, store'[l], V, L)
<1>1. Shape /\ ChangeOK(w) /\ l \in Lists /\ w \in Adding /\ w.row = w.n /\ GoodRows(store[l])
      /\ w.words \in Nat /\ w.row \in Nat
  BY ChangeIsOK, ListFacts DEF Sound, Adding, Shape
<1>2. PICK it : it = Place(Row(w.row, w.words), NextPosition(store[l]))
  OBVIOUS
<1>3. w.n \notin Ids(store[l])
  BY <1>1 DEF Sound, Fresh
<1>4. NextPosition(store[l]) \in Nat
  BY <1>1, NextPositionIsANumber
<1>5. it.id = w.row /\ it.words = w.words /\ ~it.chosen /\ it.pos = NextPosition(store[l])
  BY <1>1, <1>2, <1>4, PlacedRow
<1>6. store'[l] = store[l] \union {it}
  BY <1>1, <1>2 DEF Written, Shape, GoodStore
<1>7. \A r \in store[l] : r.id # it.id /\ Earlier(r, it)
  <2> TAKE r \in store[l]
  <2>1. r.id # it.id
    BY <1>1, <1>3, <1>5, IdsOf
  <2>2. r.pos < it.pos
    BY <1>1, <1>5, NextPositionIsLast
  <2>3. QED
    BY <2>1, <2>2 DEF Earlier
<1>8. QED
  BY <1>5, <1>6, <1>7, PostServed

LEMMA PutReflected ==
  ASSUME Sound, NEW w \in Changes, w.stage = "sent", w.verb = "put", store' = Written(w), NEW l, l = w.list,
         NEW list, NEW s, NEW W, NEW L, Mirror(list, s, store[l], W, L), NEW d, d.stage = "done",
         NEW V, Onward(W, w, d, V)
  PROVE  Mirror(list, s, store'[l], V, L)
<1>1. Shape /\ l \in Lists /\ GoodRows(store[l]) /\ w.words \in Nat
  BY ChangeIsOK, ListFacts DEF Sound
<1>2. PICK Q, R : R = store[l] /\ Q = {IF r.id = w.row THEN [r EXCEPT !.words = w.words] ELSE r : r \in R}
  OBVIOUS
<1>3. store'[l] = Q
  BY <1>1, <1>2 DEF Written, Shape, GoodStore
<1> DEFINE New(r) == IF r.id = w.row THEN [r EXCEPT !.words = w.words] ELSE r
<1>4. ASSUME NEW r \in R
      PROVE  /\ New(r).id = r.id /\ New(r).pos = r.pos /\ New(r).chosen = r.chosen
             /\ New(r).words = IF r.id = w.row THEN w.words ELSE r.words
  <2>1. r \in StoredRow
    BY <1>1, <1>2 DEF GoodRows
  <2>2. QED
    BY <2>1 DEF StoredRow
<1>5. Q = {New(r) : r \in R}
  BY <1>2
<1> HIDE DEF New
<1>6. InPlace(Q, R)
  BY <1>4, <1>5 DEF InPlace
<1>7. \A q \in Q : \E r \in R : q.id = r.id /\ (q.chosen <=> r.chosen) /\ q.words = IF r.id = w.row THEN w.words ELSE r.words
  BY <1>4, <1>5
<1>8. \A a, b \in R : a.id = b.id => a = b
  BY <1>1, <1>2 DEF GoodRows
<1>9. Mirror(list, s, R, W, L)
  BY <1>2
<1>10. QED
  BY <1>3, <1>6, <1>7, <1>8, <1>9, PutServed

LEMMA RemovalReflected ==
  ASSUME Sound, NEW w \in Changes, w.stage = "sent", w.verb \in {"delete", "accept"}, store' = Written(w),
         NEW l, l = w.list,
         NEW list, NEW s, NEW W, NEW L, Mirror(list, s, store[l], W, L), NEW d, d.stage = "done",
         NEW V, Onward(W, w, d, V), W = Writes(l)
  PROVE  Mirror(list, s, store'[l], V, L)
<1>1. Shape /\ l \in Lists /\ GoodRows(store[l]) /\ w.verb \in Verbs(l) /\ GoodList(page, l)
  BY ChangeIsOK, ListFacts DEF Sound
<1>2. store'[l] = {r \in store[l] : r.id # w.row}
  <2>1. CASE w.verb = "delete"
    BY <1>1, <2>1 DEF Written, Shape, GoodStore
  <2>2. CASE w.verb = "accept" /\ w.row \in Ids(store[l])
    <3>1. PICK j, T, it : /\ j = page.lists[l].joins /\ T = {r \in store[l] : r.id # w.row}
                          /\ it = Place(Row(w.n, w.n), 0)
      OBVIOUS
    <3>2. store' = [store EXCEPT ![l] = T, ![j] = @ \union {it}]
      BY <2>2, <3>1 DEF Written
    <3>3. j # l
      BY <1>1, <3>1, NoListJoinsItself
    <3>4. store'[l] = T
      BY <1>1, <3>2, <3>3 DEF Shape, GoodStore
    <3>5. QED
      BY <3>1, <3>4
  <2>3. CASE w.verb = "accept" /\ w.row \notin Ids(store[l])
    <3>1. store' = store
      BY <2>3 DEF Written
    <3>2. QED
      BY <2>3, <3>1, IdsOf
  <2>4. QED
    BY <2>1, <2>2, <2>3
<1>3. w.verb = "accept" => \A v \in W : v.verb # "choose"
  <2>1. w.verb = "accept" => "choose" \notin page.lists[l].api
    BY <1>1 DEF GoodList, Verbs
  <2>2. \A v \in W : v.verb = "choose" => "choose" \in page.lists[l].api
    <3>1. \A v \in W : v \in Changes /\ v.list = l
      BY DEF Writes, Changes
    <3>2. \A v \in Changes : v.verb = "choose" => "choose" \in page.lists[v.list].api
      BY <1>1, ChangeIsOK DEF Verbs
    <3>3. QED
      BY <3>1, <3>2
  <2>3. QED
    BY <2>1, <2>2
<1>4. QED
  BY <1>2, <1>3, RemovalServed

LEMMA OrderReflected ==
  ASSUME Sound, NEW w \in Changes, w.stage = "sent", w.verb = "reorder", store' = Written(w), NEW l, l = w.list,
         NEW list, list = page.lists[l], NEW s, NEW W, NEW L, Mirror(list, s, store[l], W, L), NEW d, d.stage = "done",
         NEW V, Onward(W, w, d, V)
  PROVE  Mirror(list, s, store'[l], V, L)
<1> DEFINE At(x) == {i \in 1..Len(w.ids) : w.ids[i] = x}
           Found(x) == IF At(x) # {} THEN Min(At(x)) ELSE 0
<1>1. Shape /\ l \in Lists /\ GoodRows(store[l]) /\ w.ids \in Seq(Nat) /\ w.verb \in Verbs(l) /\ Orderly(list)
  BY ChangeIsOK, ListFacts DEF Sound
<1>2. PICK Q, R : R = store[l] /\ Q = {IF Contains(w.ids, r.id) THEN [r EXCEPT !.pos = Found(r.id) - 1] ELSE r : r \in R}
  OBVIOUS
<1>3. store'[l] = Q
  BY <1>1, <1>2 DEF Written, SelectInSeq, Shape, GoodStore
<1>4. ~list.latest
  BY <1>1 DEF Orderly, Verbs
<1>5. \A a, b \in DOMAIN w.ids : w.ids[a] = w.ids[b] => a = b
  BY DEF Mirror, OrderSent, Names, Onward
<1>6. DOMAIN w.ids = 1..Len(w.ids) /\ Len(w.ids) \in Nat
  BY <1>1
<1> DEFINE New(r) == IF Contains(w.ids, r.id) THEN [r EXCEPT !.pos = Found(r.id) - 1] ELSE r
<1>7. ASSUME NEW r \in R
      PROVE  /\ New(r).id = r.id /\ New(r).chosen = r.chosen /\ New(r).words = r.words
             /\ \A a \in DOMAIN w.ids : w.ids[a] = r.id => New(r).pos = a - 1
  <2>1. r \in StoredRow
    BY <1>1, <1>2 DEF GoodRows
  <2>2. CASE Contains(w.ids, r.id)
    <3>1. PICK I : I = At(r.id)
      OBVIOUS
    <3>2. I # {} /\ Min(I) \in 1..Len(w.ids) /\ Len(w.ids) \in Nat
      BY <1>1, <2>2, <3>1, FoundPlace
    <3>3. I \in SUBSET Nat /\ IsFiniteSet(I)
      <4>1. I \subseteq 1..Len(w.ids) /\ IsFiniteSet(1..Len(w.ids))
        BY <1>6, <3>1, FS_Interval
      <4>2. IsFiniteSet(I)
        BY <4>1, FS_Subset
      <4>3. I \in SUBSET Nat
        BY <1>6, <4>1
      <4>4. QED
        BY <4>2, <4>3
    <3>4. Min(I) \in I
      BY <3>2, <3>3, LargestNumber
    <3>5. \A a \in DOMAIN w.ids : w.ids[a] = r.id => Min(I) = a
      BY <1>5, <1>6, <3>1, <3>4
    <3>6. PICK m : m = Min(I) - 1
      OBVIOUS
    <3>7. New(r) = [r EXCEPT !.pos = m]
      BY <2>2, <3>1, <3>2, <3>6
    <3>8. /\ New(r).id = r.id /\ New(r).chosen = r.chosen /\ New(r).words = r.words /\ New(r).pos = m
      BY <2>1, <3>7 DEF StoredRow
    <3>9. QED
      BY <3>5, <3>6, <3>8
  <2>3. CASE ~Contains(w.ids, r.id)
    <3>1. \A a \in DOMAIN w.ids : w.ids[a] # r.id
      BY <2>3, <1>1 DEF Contains
    <3>2. QED
      BY <2>3, <3>1
  <2>4. QED
    BY <2>2, <2>3
<1>8. Q = {New(r) : r \in R}
  BY <1>2
<1> HIDE DEF New
<1>9. \A q \in Q : \E r \in R : q.id = r.id /\ q.words = r.words /\ (q.chosen <=> r.chosen)
  BY <1>7, <1>8
<1>10. \A r \in R : \E q \in Q : q.id = r.id
  BY <1>7, <1>8
<1>11. \A q \in Q : \A a \in DOMAIN w.ids : w.ids[a] = q.id => q.pos = a - 1
  BY <1>7, <1>8
<1>12. Mirror(list, s, R, W, L)
  BY <1>2
<1>13. QED
  BY <1>1, <1>3, <1>4, <1>9, <1>10, <1>11, <1>12, OrderServed

-----------------------------------------------------------------------------
(* A change is written.                                                            *)
LEMMA DoneRequest ==
  ASSUME NEW w, ChangeOK(w), NEW d, d = [w EXCEPT !.stage = "done"]
  PROVE  d.stage = "done" /\ SameRequest(d, w) /\ d.ids = w.ids /\ (d.inHand <=> w.inHand) /\ (d.mine <=> w.mine)
BY DEF ChangeOK, SameRequest

LEMMA WriteReflected ==
  ASSUME Sound, NEW w \in Changes, w.stage = "sent", w.verb # "choose", store' = Written(w), NEW l, l = w.list,
         NEW list, list = page.lists[l], NEW s, Mirror(list, s, store[l], Writes(l), Late(l)),
         NEW d, d.stage = "done", NEW V, Onward(Writes(l), w, d, V)
  PROVE  Mirror(list, s, store'[l], V, Late(l))
<1>1. PICK W, L : W = Writes(l) /\ L = Late(l)
  OBVIOUS
<1>2. Mirror(list, s, store[l], W, L) /\ Onward(W, w, d, V)
  BY <1>1
<1>3. w.verb \in {"post", "put", "delete", "reorder", "accept"}
  BY VerbsOf DEF Sound
<1>4. CASE w.verb = "post"
  BY <1>1, <1>2, <1>4, PostReflected
<1>5. CASE w.verb = "put"
  BY <1>1, <1>2, <1>5, PutReflected
<1>6. CASE w.verb \in {"delete", "accept"}
  BY <1>1, <1>2, <1>6, RemovalReflected
<1>7. CASE w.verb = "reorder"
  BY <1>1, <1>2, <1>7, OrderReflected
<1>8. QED
  BY <1>3, <1>4, <1>5, <1>6, <1>7

LEMMA WrittenElsewhere ==
  ASSUME Shape, NEW w \in Changes, store' = Written(w), NEW l \in Lists, w.list # l
  PROVE  ~(w.verb = "accept" /\ page.lists[w.list].joins = l) => store'[l] = store[l]
<1>1. store \in [Lists -> SUBSET StoredRow] /\ w.list \in Lists
  BY ChangeIsOK DEF Shape, GoodStore
<1>2. CASE w.verb = "accept"
  <2>1. CASE w.row \in Ids(store[w.list])
    <3>1. PICK j, T, it : /\ j = page.lists[w.list].joins /\ T = {r \in store[w.list] : r.id # w.row}
                          /\ it = Place(Row(w.n, w.n), 0)
      OBVIOUS
    <3>2. store' = [store EXCEPT ![w.list] = T, ![j] = @ \union {it}]
      BY <1>2, <2>1, <3>1 DEF Written
    <3>3. QED
      BY <1>1, <1>2, <3>1, <3>2
  <2>2. CASE w.row \notin Ids(store[w.list])
    BY <1>2, <2>2 DEF Written
  <2>3. QED
    BY <2>1, <2>2
<1>3. CASE w.verb # "accept"
  BY <1>1, <1>3 DEF Written
<1>4. QED
  BY <1>2, <1>3

LEMMA JoinedElsewhere ==
  ASSUME Sound, NEW w \in Changes, w.stage = "sent", w.verb = "accept", store' = Written(w),
         NEW l \in Lists, l # w.list, l = page.lists[w.list].joins,
         NEW list, NEW s, \A i \in DOMAIN s : s[i].id # w.n,
         NEW K, K = Late(l) \union {w.n}, Mirror(list, s, store[l], Writes(l), Late(l))
  PROVE  Mirror(list, s, store'[l], Writes(l), K)
<1>1. /\ Shape /\ w \in Adding /\ w.list \in Lists /\ w.n \in Nat
      /\ store \in [Lists -> SUBSET StoredRow]
  BY ChangeIsOK DEF Sound, Adding, Shape, GoodStore
<1>2. PICK L, W, R : L = Late(l) /\ W = Writes(l) /\ R = store[l]
  OBVIOUS
<1>3. Mirror(list, s, R, W, L) /\ K = L \union {w.n}
  BY <1>2
<1>4. \A v \in W : v.row # w.n
  <2>1. \A v \in W : v \in Changes /\ v # w
    BY <1>2 DEF Writes, Changes
  <2>2. QED
    BY <1>1, <2>1 DEF Sound, Fresh
<1>5. CASE w.row \in Ids(store[w.list])
  <2>1. PICK it, T : it = Place(Row(w.n, w.n), 0) /\ T = {r \in store[w.list] : r.id # w.row}
    OBVIOUS
  <2>2. store' = [store EXCEPT ![w.list] = T, ![l] = @ \union {it}]
    BY <1>5, <2>1 DEF Written
  <2>3. store'[l] = R \union {it}
    BY <1>1, <1>2, <2>2
  <2>4. it.id = w.n /\ ~it.chosen
    BY <1>1, <2>1, PlacedRow
  <2>5. Mirror(list, s, R \union {it}, W, K)
    BY <1>3, <1>4, <2>4, LateRow
  <2>6. QED
    BY <1>2, <2>3, <2>5
<1>6. CASE w.row \notin Ids(store[w.list])
  <2>1. store' = store
    BY <1>6 DEF Written
  <2>2. Mirror(list, s, R, W, K)
    BY <1>3, MoreLate
  <2>3. QED
    BY <1>2, <2>1, <2>2
<1>7. QED
  BY <1>5, <1>6

LEMMA WriteFaithful ==
  ASSUME Sound, NEW l \in Lists, Faithful(l), NEW w \in requests, Write(w)
  PROVE  Faithful(l)'
<1>1. /\ w.verb \notin {"get", "choose"} /\ w.stage = "sent" /\ store' = Written(w) /\ Serve(w)
      /\ page' = page /\ got' = got /\ view' = view /\ Shape
  BY DEF Write, pageVars, Sound
<1>2. w \in Changes /\ ChangeOK(w) /\ w.list \in Lists
  BY <1>1, ChangeIsOK DEF Changes
<1>3. PICK d : d = [w EXCEPT !.stage = "done"]
  OBVIOUS
<1>4. d.stage = "done" /\ SameRequest(d, w) /\ d.ids = w.ids /\ (d.inHand <=> w.inHand) /\ (d.mine <=> w.mine)
  BY <1>2, <1>3, DoneRequest
<1>5. requests' = (requests \ {w}) \union IF w.mine THEN {d} ELSE {}
  BY <1>1, <1>3 DEF Serve
<1>6. l \in Touched(w) => w.mine
  BY <1>2 DEF Faithful
<1>7. PICK list : list = page.lists[l]
  OBVIOUS
<1>8. CASE w.list = l
  <2>1. l \in Touched(w)
    BY <1>1, <1>8, ListFacts DEF Touched
  <2>2. requests' = (requests \ {w}) \union {d}
    BY <1>5, <1>6, <2>1
  <2>3. Mirror(list, view[l], store[l], Writes(l), Late(l)) =>
          \A V : Onward(Writes(l), w, d, V) => Mirror(list, view[l], store'[l], V, Late(l))
    BY <1>1, <1>2, <1>4, <1>7, <1>8, WriteReflected
  <2>4. QED
    BY <1>1, <1>2, <1>4, <1>7, <1>8, <2>2, <2>3, MovedHere
<1>9. CASE w.list # l /\ ~(w.verb = "accept" /\ page.lists[w.list].joins = l)
  <2>1. PICK D : D = IF w.mine THEN {d} ELSE {}
    OBVIOUS
  <2>2. D \in SUBSET {d} /\ requests' = (requests \ {w}) \union D
    BY <1>5, <2>1
  <2>3. store'[l] = store[l]
    BY <1>1, <1>2, <1>9, WrittenElsewhere
  <2>4. Changes' = (Changes \ {w}) \union D
    BY <1>1, <1>2, <1>4, <2>2, ChangeMoved
  <2>5. Late(l)' = Late(l)
    BY <1>1, <1>4, <1>9, <2>2, <2>4 DEF Late, SameRequest
  <2>6. QED
    BY <1>1, <1>2, <1>4, <1>9, <2>2, <2>3, <2>5, MovedElsewhere
<1>10. CASE w.list # l /\ w.verb = "accept" /\ page.lists[w.list].joins = l
  <2>1. l \in Touched(w)
    BY <1>1, <1>10, ListFacts DEF Touched
  <2>2. requests' = (requests \ {w}) \union {d} /\ w.mine
    BY <1>5, <1>6, <2>1
  <2>3. /\ Served' = Served /\ (Waiting(l)' <=> Waiting(l))
        /\ Writes(l)' = Writes(l) /\ Changes' = (Changes \ {w}) \union {d}
    <3>1. PICK D : D = {d}
      OBVIOUS
    <3>2. D \in SUBSET {d} /\ requests' = (requests \ {w}) \union D
      BY <2>2, <3>1
    <3>3. /\ Served' = Served /\ (Waiting(l)' <=> Waiting(l))
          /\ Writes(l)' = Writes(l) /\ Changes' = (Changes \ {w}) \union D
      BY <1>1, <1>2, <1>4, <1>10, <3>2, ChangeMoved
    <3>4. QED
      BY <3>1, <3>3
  <2>4. PICK K : K = Late(l) \union {w.n}
    OBVIOUS
  <2>5. Late(l)' = K
    BY <1>1, <1>4, <1>10, <2>3, <2>4 DEF Late, SameRequest
  <2>6. w \in Adding
    BY <1>1, <1>2, <1>10 DEF Adding
  <2>7. ASSUME NEW s, \A i \in DOMAIN s : s[i].id # w.n, Mirror(list, s, store[l], Writes(l), Late(l))
        PROVE  Mirror(list, s, store'[l], Writes(l), K)
    BY <1>1, <1>2, <1>10, <2>4, <2>7, JoinedElsewhere
  <2>8. \A i \in DOMAIN view[l] : view[l][i].id # w.n
    BY <2>6 DEF Sound, Fresh
  <2>9. ASSUME NEW q \in Served, q.via = list.via
        PROVE  Mirror(list, Listing(list, q.rows[l]), store'[l], Writes(l), K)
    <3>1. Mirror(list, Listing(list, q.rows[l]), store[l], Writes(l), Late(l))
      BY <1>7, <2>9 DEF Faithful, Reflects
    <3>2. GoodRows(q.rows[l])
      BY <1>1, <2>9 DEF Shape, RequestOK, LoadOK, Served, Pending, GoodStore
    <3>3. \A r \in q.rows[l] : r.id # w.n
      BY <2>6, <2>9, IdsOf DEF Sound, Fresh
    <3>4. PICK t : t = Listing(list, q.rows[l])
      OBVIOUS
    <3>5. \A i \in DOMAIN t : t[i].id # w.n
      <4>1. \A k \in DOMAIN t : \E r \in q.rows[l] : t[k] = Seen(r)
        BY <3>2, <3>4, Listed
      <4>2. QED
        BY <3>3, <4>1 DEF Seen
    <3>6. QED
      BY <2>7, <3>1, <3>4, <3>5
  <2>10. \A v \in Changes' : l \in Touched(v) => v.mine
    BY <1>4, <2>2, <2>3 DEF Faithful
  <2>11. PICK W, R : W = Writes(l)' /\ R = store'[l]
    OBVIOUS
  <2>12. Tame(W) /\ (Waiting(l)' => W = {})
    BY <2>3, <2>11 DEF Faithful
  <2>13. \A q \in Served' : q.via = list.via => Mirror(list, Listing(list, q.rows[l]), R, W, K)
    BY <2>3, <2>9, <2>11
  <2>14. ASSUME list.via \in got', ~Waiting(l)', list.shows = "reload" => W = {}
         PROVE  Mirror(list, view'[l], R, W, K)
    <3>1. Settled(l)
      BY <1>1, <1>7, <2>3, <2>11, <2>14 DEF Settled
    <3>2. Mirror(list, view[l], store[l], Writes(l), Late(l))
      BY <1>7, <3>1 DEF Faithful, Reflects
    <3>3. PICK t : t = view[l]
      OBVIOUS
    <3>4. Mirror(list, t, store'[l], Writes(l), K)
      BY <2>7, <2>8, <3>2, <3>3
    <3>5. QED
      BY <1>1, <2>3, <2>11, <3>3, <3>4
  <2>15. QED
    BY <1>1, <1>7, <2>5, <2>10, <2>11, <2>12, <2>13, <2>14, StillFaithful
<1>11. QED
  BY <1>8, <1>9, <1>10

(* A choice is made, in its three steps. *)
LEMMA ChoiceElsewhere ==
  ASSUME Sound, NEW l \in Lists, Faithful(l), NEW w \in Changes, w.list # l, w.verb = "choose",
         NEW d, SameRequest(d, w), d.mine <=> w.mine, NEW D \in SUBSET {d}, requests' = (requests \ {w}) \union D,
         page' = page, got' = got, view' = view, store'[l] = store[l]
  PROVE  Faithful(l)'
<1>1. Shape
  BY DEF Sound
<1>2. Changes' = (Changes \ {w}) \union D
  BY <1>1, ChangeMoved
<1>3. Late(l)' = Late(l)
  BY <1>2 DEF Late, SameRequest
<1>4. QED
  BY <1>3, MovedElsewhere

LEMMA ChooseFindFaithful ==
  ASSUME Sound, NEW l \in Lists, Faithful(l), NEW w \in requests, ChooseFind(w)
  PROVE  Faithful(l)'
<1>1. /\ w.verb = "choose" /\ w.stage = "sent" /\ store' = store
      /\ page' = page /\ got' = got /\ view' = view /\ Shape
  BY DEF ChooseFind, pageVars, Sound
<1>2. w \in Changes /\ ChangeOK(w) /\ w.list \in Lists
  BY <1>1, ChangeIsOK DEF Changes
<1>3. PICK list, R : list = page.lists[l] /\ R = store[l]
  OBVIOUS
<1>4. CASE w.row \in Ids(store[w.list])
  <2>1. PICK z : z = Cleared(w.list)
    OBVIOUS
  <2>2. PICK s : s = "seen"
    OBVIOUS
  <2>3. PICK d : d = [w EXCEPT !.stage = s, !.seen = z]
    OBVIOUS
  <2>4. /\ SameRequest(d, w) /\ d.ids = w.ids /\ (d.inHand <=> w.inHand) /\ (d.mine <=> w.mine)
        /\ d.stage = s /\ d.seen = z
    BY <1>2, <2>3 DEF ChangeOK, SameRequest
  <2>5. requests' = (requests \ {w}) \union {d}
    BY <1>4, <2>1, <2>2, <2>3 DEF ChooseFind
  <2>6. CASE w.list = l
    <3>1. ASSUME Mirror(list, view[l], R, Writes(l), Late(l)), NEW V, Onward(Writes(l), w, d, V)
          PROVE  Mirror(list, view[l], R, V, Late(l))
      <4>1. PICK t, W, L : t = view[l] /\ W = Writes(l) /\ L = Late(l)
        OBVIOUS
      <4>2. d.stage # "done" /\ d.seen = Ids(R)
        BY <1>3, <2>1, <2>2, <2>4, <2>6 DEF Cleared
      <4>3. Mirror(list, t, R, W, L) /\ Onward(W, w, d, V)
        BY <3>1, <4>1
      <4>4. Mirror(list, t, R, V, L)
        BY <1>1, <4>2, <4>3, ChoiceOnward
      <4>5. QED
        BY <4>1, <4>4
    <3>2. QED
      BY <1>1, <1>2, <1>3, <2>4, <2>5, <2>6, <3>1, MovedHere
  <2>7. CASE w.list # l
    BY <1>1, <1>2, <2>4, <2>5, <2>7, ChoiceElsewhere
  <2>8. QED
    BY <2>6, <2>7
<1>5. CASE w.row \notin Ids(store[w.list])
  <2>1. PICK d : d = [w EXCEPT !.stage = "done"]
    OBVIOUS
  <2>2. SameRequest(d, w) /\ d.ids = w.ids /\ (d.inHand <=> w.inHand) /\ (d.mine <=> w.mine)
    BY <1>2, <2>1, DoneRequest
  <2>3. requests' = (requests \ {w}) \union IF w.mine THEN {d} ELSE {}
    BY <1>5, <2>1 DEF ChooseFind, Serve
  <2>4. CASE w.list = l
    <3>1. l \in Touched(w)
      BY <1>1, <2>4, ListFacts DEF Touched
    <3>2. requests' = (requests \ {w}) \union {d}
      BY <1>2, <2>3, <3>1 DEF Faithful
    <3>3. w \in Writes(l)
      BY <1>2, <2>4 DEF Writes, Changes
    <3>4. ~Mirror(list, view[l], store[l], Writes(l), Late(l))
      <4>1. PICK t, W, L : t = view[l] /\ W = Writes(l) /\ L = Late(l)
        OBVIOUS
      <4>2. ~ChoiceMade(R, W)
        BY <1>1, <1>3, <1>5, <2>4, <3>3, <4>1 DEF ChoiceMade
      <4>3. ~Mirror(list, t, R, W, L)
        BY <4>2 DEF Mirror
      <4>4. QED
        BY <1>3, <4>1, <4>3
    <3>5. QED
      BY <1>1, <1>2, <1>3, <2>2, <2>4, <3>2, <3>4, MovedHere
  <2>5. CASE w.list # l
    <3>1. PICK D : D = IF w.mine THEN {d} ELSE {}
      OBVIOUS
    <3>2. D \in SUBSET {d} /\ requests' = (requests \ {w}) \union D
      BY <2>3, <3>1
    <3>3. QED
      BY <1>1, <1>2, <2>2, <2>5, <3>2, ChoiceElsewhere
  <2>6. QED
    BY <2>4, <2>5
<1>6. QED
  BY <1>4, <1>5

LEMMA ChooseLockFaithful ==
  ASSUME Sound, NEW l \in Lists, Faithful(l), NEW w \in requests, ChooseLock(w)
  PROVE  Faithful(l)'
<1>1. /\ w.verb = "choose" /\ w.stage = "seen" /\ store' = store
      /\ page' = page /\ got' = got /\ view' = view /\ Shape
  BY DEF ChooseLock, pageVars, Sound
<1>2. w \in Changes /\ ChangeOK(w) /\ w.list \in Lists
  BY <1>1, ChangeIsOK DEF Changes
<1>3. PICK list, R : list = page.lists[l] /\ R = store[l]
  OBVIOUS
<1>4. PICK d : d = [w EXCEPT !.stage = "locked"]
  OBVIOUS
<1>5. /\ SameRequest(d, w) /\ d.ids = w.ids /\ (d.inHand <=> w.inHand) /\ (d.mine <=> w.mine)
      /\ d.stage = "locked" /\ d.seen = w.seen
  BY <1>2, <1>4 DEF ChangeOK, SameRequest
<1>6. requests' = (requests \ {w}) \union {d}
  BY <1>4 DEF ChooseLock
<1>7. CASE w.list = l
  <2>1. ASSUME Mirror(list, view[l], R, Writes(l), Late(l)), NEW V, Onward(Writes(l), w, d, V)
        PROVE  Mirror(list, view[l], R, V, Late(l))
    <3>1. PICK t, W, L : t = view[l] /\ W = Writes(l) /\ L = Late(l)
      OBVIOUS
    <3>2. d.stage # "done" /\ d.seen = w.seen /\ w.stage \in {"seen", "locked"}
      BY <1>1, <1>5
    <3>3. Mirror(list, t, R, W, L) /\ Onward(W, w, d, V)
      BY <2>1, <3>1
    <3>4. Mirror(list, t, R, V, L)
      BY <1>1, <3>2, <3>3, ChoiceOnward
    <3>5. QED
      BY <3>1, <3>4
  <2>2. QED
    BY <1>1, <1>2, <1>3, <1>5, <1>6, <1>7, <2>1, MovedHere
<1>8. CASE w.list # l
  BY <1>1, <1>2, <1>5, <1>6, <1>8, ChoiceElsewhere
<1>9. QED
  BY <1>7, <1>8

LEMMA ChoiceReflected ==
  ASSUME Sound, NEW w \in Changes, w.stage = "locked", w.verb = "choose", NEW l, l = w.list,
         store' = [store EXCEPT ![w.list] =
           {[r EXCEPT !.chosen = (r.id = w.row) \/ (r.chosen /\ r.id \notin w.seen)] : r \in @}],
         NEW list, NEW s, NEW W, NEW L, Mirror(list, s, store[l], W, L), NEW d, d.stage = "done",
         NEW V, Onward(W, w, d, V)
  PROVE  Mirror(list, s, store'[l], V, L)
<1>1. Shape /\ l \in Lists /\ GoodRows(store[l])
  BY ChangeIsOK, ListFacts DEF Sound
<1>2. PICK R, Q : /\ R = store[l]
                  /\ Q = {[r EXCEPT !.chosen = (r.id = w.row) \/ (r.chosen /\ r.id \notin w.seen)] : r \in R}
  OBVIOUS
<1>3. store'[l] = Q
  BY <1>1, <1>2 DEF Shape, GoodStore
<1> DEFINE New(r) == [r EXCEPT !.chosen = (r.id = w.row) \/ (r.chosen /\ r.id \notin w.seen)]
<1>4. ASSUME NEW r \in R
      PROVE  /\ New(r).id = r.id /\ New(r).pos = r.pos /\ New(r).words = r.words
             /\ New(r).chosen <=> (r.id = w.row \/ (r.chosen /\ r.id \notin w.seen))
  <2>1. r \in StoredRow
    BY <1>1, <1>2 DEF GoodRows
  <2>2. PICK b \in BOOLEAN : b <=> (r.id = w.row \/ (r.chosen /\ r.id \notin w.seen))
    OBVIOUS
  <2>3. New(r) = [r EXCEPT !.chosen = b]
    BY <2>1, <2>2 DEF StoredRow
  <2>4. /\ New(r).id = r.id /\ New(r).pos = r.pos /\ New(r).words = r.words /\ New(r).chosen = b
    BY <2>1, <2>3 DEF StoredRow
  <2>5. QED
    BY <2>2, <2>4
<1>5. Q = {New(r) : r \in R}
  BY <1>2
<1> HIDE DEF New
<1>6. InPlace(Q, R)
  BY <1>4, <1>5 DEF InPlace
<1>7. \A q \in Q : \E r \in R : /\ q.id = r.id /\ q.words = r.words
                                /\ q.chosen <=> (r.id = w.row \/ (r.chosen /\ r.id \notin w.seen))
  BY <1>4, <1>5
<1>8. \A a, b \in R : a.id = b.id => a = b
  BY <1>1, <1>2 DEF GoodRows
<1>9. Mirror(list, s, R, W, L)
  BY <1>2
<1>10. QED
  BY <1>3, <1>6, <1>7, <1>8, <1>9, ChoiceServed

LEMMA ChooseCommitFaithful ==
  ASSUME Sound, NEW l \in Lists, Faithful(l), NEW w \in requests, ChooseCommit(w)
  PROVE  Faithful(l)'
<1>1. /\ w.verb = "choose" /\ w.stage = "locked" /\ Serve(w)
      /\ page' = page /\ got' = got /\ view' = view /\ Shape
      /\ store' = [store EXCEPT ![w.list] =
           {[r EXCEPT !.chosen = (r.id = w.row) \/ (r.chosen /\ r.id \notin w.seen)] : r \in @}]
  BY DEF ChooseCommit, pageVars, Sound
<1>2. w \in Changes /\ ChangeOK(w) /\ w.list \in Lists
  BY <1>1, ChangeIsOK DEF Changes
<1>3. PICK d : d = [w EXCEPT !.stage = "done"]
  OBVIOUS
<1>4. d.stage = "done" /\ SameRequest(d, w) /\ d.ids = w.ids /\ (d.inHand <=> w.inHand) /\ (d.mine <=> w.mine)
  BY <1>2, <1>3, DoneRequest
<1>5. requests' = (requests \ {w}) \union IF w.mine THEN {d} ELSE {}
  BY <1>1, <1>3 DEF Serve
<1>6. PICK list : list = page.lists[l]
  OBVIOUS
<1>7. CASE w.list = l
  <2>1. l \in Touched(w)
    BY <1>1, <1>7, ListFacts DEF Touched
  <2>2. requests' = (requests \ {w}) \union {d}
    BY <1>2, <1>5, <2>1 DEF Faithful
  <2>3. ASSUME Mirror(list, view[l], store[l], Writes(l), Late(l)), NEW V, Onward(Writes(l), w, d, V)
        PROVE  Mirror(list, view[l], store'[l], V, Late(l))
    <3>1. PICK t, W, L : t = view[l] /\ W = Writes(l) /\ L = Late(l)
      OBVIOUS
    <3>2. Mirror(list, t, store[l], W, L) /\ Onward(W, w, d, V)
      BY <2>3, <3>1
    <3>3. Mirror(list, t, store'[l], V, L)
      BY <1>1, <1>2, <1>4, <1>7, <3>2, ChoiceReflected
    <3>4. QED
      BY <3>1, <3>3
  <2>4. QED
    BY <1>1, <1>2, <1>4, <1>6, <1>7, <2>2, <2>3, MovedHere
<1>8. CASE w.list # l
  <2>1. PICK D : D = IF w.mine THEN {d} ELSE {}
    OBVIOUS
  <2>2. D \in SUBSET {d} /\ requests' = (requests \ {w}) \union D
    BY <1>5, <2>1
  <2>3. store'[l] = store[l]
    BY <1>1, <1>2, <1>8 DEF Shape, GoodStore
  <2>4. QED
    BY <1>1, <1>2, <1>4, <1>8, <2>2, <2>3, ChoiceElsewhere
<1>9. QED
  BY <1>7, <1>8

-----------------------------------------------------------------------------
(* A change is answered.                                                           *)
LEMMA AnswerReflected ==
  ASSUME Sound, NEW w \in Changes, w.stage = "done", w.inHand, view' = Shown(w), NEW l, l = w.list,
         NEW list, list = page.lists[l], list.shows # "reload",
         NEW W, NEW L, NEW R, R = store[l], Mirror(list, view[l], R, W, L), NEW V, Answered(W, w, V)
  PROVE  Mirror(list, view'[l], R, V, L)
<1>1. /\ Shape /\ l \in Lists /\ w.row \in Nat /\ w.words \in Nat /\ w.verb \in Verbs(l)
      /\ GoodList(page, l) /\ Orderly(list) /\ GoodRows(R)
      /\ view[l] \in Seq(ShownRow) /\ view \in [Lists -> Seq(ShownRow)]
  BY ChangeIsOK, ListFacts DEF Sound, Shape
<1>2. PICK s, row : s = view[l] /\ row = Row(w.row, w.words)
  OBVIOUS
<1>3. Mirror(list, s, R, W, L) /\ s \in Seq(ShownRow)
  BY <1>1, <1>2
<1>4. Apart(s)
  BY <1>3 DEF Mirror
<1>5. w.verb \in {"post", "put", "delete", "choose", "reorder", "accept"}
  BY <1>1, VerbsOf
<1>6. list.shows \in {"at once", "on answer"}
  BY <1>1 DEF Orderly
<1>7. CASE w.verb = "post"
  <2>1. PICK t : t = Joined(list, s, row)
    OBVIOUS
  <2>2. Shown(w) = [view EXCEPT ![l] = t]
    BY <1>2, <1>7, <2>1 DEF Shown
  <2>3. view'[l] = t
    BY <1>1, <2>2
  <2>4. row \in ShownRow /\ row.id = w.row /\ row.words = w.words /\ ~row.chosen
    BY <1>1, <1>2, PlacedRow
  <2>5. JoinedTo(list, t, s, row)
    BY <1>3, <2>1, <2>4, NewRowJoined
  <2>6. \A a, b \in R : a.id = b.id => a = b
    BY <1>1 DEF GoodRows
  <2>7. Mirror(list, t, R, V, L)
    BY <1>3, <1>7, <2>4, <2>5, <2>6, PostAnswered
  <2>8. QED
    BY <2>3, <2>7
<1>8. CASE w.verb = "put"
  <2>1. PICK t : t = view'[l]
    OBVIOUS
  <2>2. CASE list.shows = "at once"
    <3>1. Shown(w) = view
      BY <1>8, <2>2 DEF Shown
    <3>2. t = s
      BY <1>2, <2>1, <3>1
    <3>3. Mirror(list, t, R, V, L)
      BY <1>3, <1>8, <2>2, <3>2, PutAnswered
    <3>4. QED
      BY <2>1, <3>3
  <2>3. CASE list.shows = "on answer"
    <3>1. PICK u : u = [i \in DOMAIN s |-> IF s[i].id = w.row THEN [s[i] EXCEPT !.words = w.words] ELSE s[i]]
      OBVIOUS
    <3>2. Shown(w) = [view EXCEPT ![l] = [i \in DOMAIN view[l] |->
                        IF view[l][i].id = w.row THEN [view[l][i] EXCEPT !.words = w.words] ELSE view[l][i]]]
      BY <1>8, <2>3 DEF Shown
    <3>3. t = u
      <4>1. Shown(w) = [view EXCEPT ![l] = u]
        BY <1>2, <3>1, <3>2
      <4>2. QED
        BY <1>1, <2>1, <4>1
    <3>4. Reworded(t, s, w.row, w.words)
      BY <1>1, <1>3, <3>1, <3>3, AnswerReworded
    <3>5. Mirror(list, t, R, V, L)
      BY <1>3, <1>8, <2>3, <3>4, PutAnswered
    <3>6. QED
      BY <2>1, <3>5
  <2>4. QED
    BY <1>6, <2>2, <2>3
<1>9. CASE w.verb \in {"delete", "accept"}
  <2>1. PICK t : t = view'[l]
    OBVIOUS
  <2>2. CASE list.shows = "at once"
    <3>1. Shown(w) = view
      BY <1>9, <2>2 DEF Shown
    <3>2. t = s
      BY <1>2, <2>1, <3>1
    <3>3. Mirror(list, t, R, V, L)
      BY <1>3, <1>9, <2>2, <3>2, RemovalAnswered
    <3>4. QED
      BY <2>1, <3>3
  <2>3. CASE list.shows = "on answer"
    <3>1. Shown(w) = [view EXCEPT ![l] = Without(view[l], w.row)]
      BY <1>9, <2>3 DEF Shown
    <3>2. t = Without(s, w.row)
      BY <1>1, <1>2, <2>1, <3>1
    <3>3. Less(t, s, w.row)
      BY <1>3, <1>4, <3>2, WithoutLess
    <3>4. Mirror(list, t, R, V, L)
      BY <1>3, <1>9, <2>3, <3>3, RemovalAnswered
    <3>5. QED
      BY <2>1, <3>4
  <2>4. QED
    BY <1>6, <2>2, <2>3
<1>10. CASE w.verb \in {"choose", "reorder"}
  <2>1. w.verb \in list.api
    BY <1>1, <1>10 DEF Verbs
  <2>2. list.shows = "at once"
    BY <1>1, <1>10, <2>1 DEF GoodList, Orderly
  <2>3. Shown(w) = view
    BY <1>10, <2>2 DEF Shown
  <2>4. Mirror(list, s, R, V, L)
    BY <1>3, <1>10, ChoiceAnswered, OrderAnswered
  <2>5. QED
    BY <1>2, <2>3, <2>4
<1>11. QED
  BY <1>5, <1>7, <1>8, <1>9, <1>10

LEMMA ChangeAnsweredFaithful ==
  ASSUME Sound, WholeHistory(history), NEW l \in Lists, Faithful(l), NEW w \in requests, ChangeAnswered(w),
         l \notin history'.crossed
  PROVE  Faithful(l)'
<1>1. /\ page' = page /\ got' = got /\ store' = store /\ Shape /\ w \in Changes /\ w.stage = "done"
      /\ view' = IF w.mine THEN Shown(w) ELSE view
  BY DEF ChangeAnswered, counters, Sound, Changes
<1>2. PICK again :
        /\ again = IF w.mine THEN Reloaded(w) ELSE {}
        /\ requests' = (requests \ {w}) \union {LoadRequest(w.n, g) : g \in again}
        /\ history' = [history EXCEPT !.crossed = @ \union
             {m \in Lists : page.lists[m].via \in again
                /\ (Writes(m) \ {w} # {} \/ Loads(page.lists[m].via) # {})}]
  BY DEF ChangeAnswered
<1>3. PICK list : list = page.lists[l]
  OBVIOUS
<1>4. l # 0 /\ GoodList(page, l) /\ Orderly(page.lists[l]) /\ w.list \in Lists /\ Orderly(page.lists[w.list])
  BY <1>1, ListFacts, ChangeIsOK
<1>5. \A g : LoadRequest(w.n, g).verb = "get" /\ LoadRequest(w.n, g).via = g /\ LoadRequest(w.n, g).stage = "sent"
  BY DEF LoadRequest
<1>6. /\ Changes' = Changes \ {w} /\ Served' = Served /\ Writes(l)' = Writes(l) \ {w}
      /\ \A g : Loads(g)' = Loads(g) \union IF g \in again THEN {LoadRequest(w.n, g)} ELSE {}
  <2>1. w.verb # "get"
    BY <1>1 DEF Changes
  <2>2. Changes' = Changes \ {w} /\ Writes(l)' = Writes(l) \ {w}
    BY <1>2, <1>5, <2>1 DEF Changes, Writes
  <2>3. Served' = Served
    BY <1>2, <1>5, <2>1 DEF Served, Pending
  <2>4. \A g : Loads(g)' = Loads(g) \union IF g \in again THEN {LoadRequest(w.n, g)} ELSE {}
    BY <1>2, <1>5, <2>1 DEF Loads
  <2>5. QED
    BY <2>2, <2>3, <2>4
<1>7. \A v \in Changes' : l \in Touched(v) => v.mine
  BY <1>6 DEF Faithful
<1>8. CASE list.via \in again
  <2>1. Writes(l) \ {w} = {} /\ Loads(list.via) = {}
    <3>1. PICK X : X = {m \in Lists : page.lists[m].via \in again
                         /\ (Writes(m) \ {w} # {} \/ Loads(page.lists[m].via) # {})}
      OBVIOUS
    <3>2. history'.crossed = history.crossed \union X
      BY <1>2, <3>1, CrossedRecalled
    <3>3. QED
      BY <1>3, <1>8, <3>1, <3>2
  <2>2. PICK W, L, R : W = Writes(l)' /\ L = Late(l)' /\ R = store'[l]
    OBVIOUS
  <2>3. W = {} /\ Waiting(l)'
    BY <1>1, <1>3, <1>6, <1>8, <2>1, <2>2 DEF Waiting
  <2>4. \A q \in Served' : q.via # list.via
    BY <1>6, <2>1 DEF Served, Pending, Loads
  <2>5. Tame(W)
    BY <2>3 DEF Tame
  <2>6. QED
    BY <1>1, <1>3, <1>7, <2>2, <2>3, <2>4, <2>5, StillFaithful
<1>9. CASE list.via \notin again
  <2>1. Waiting(l)' <=> Waiting(l)
    BY <1>1, <1>3, <1>6, <1>9 DEF Waiting
  <2>2. ~(w.verb = "accept" /\ page.lists[w.list].joins = l)
    <3>1. ASSUME w.verb = "accept", page.lists[w.list].joins = l PROVE FALSE
      <4>1. l \in Touched(w)
        BY <1>4, <3>1 DEF Touched
      <4>2. w.mine
        BY <1>1, <4>1 DEF Faithful
      <4>3. page.lists[w.list].shows # "reload"
        BY <1>4, <3>1 DEF Orderly
      <4>4. Reloaded(w) = {list.via}
        BY <1>3, <3>1, <4>3 DEF Reloaded
      <4>5. QED
        BY <1>2, <1>9, <4>2, <4>4
    <3>2. QED
      BY <3>1
  <2>3. Late(l)' = Late(l)
    BY <1>1, <1>6, <2>2 DEF Late
  <2>4. CASE w.list = l
    <3>1. l \in Touched(w)
      BY <1>4, <2>4 DEF Touched
    <3>2. w.mine
      BY <1>1, <3>1 DEF Faithful
    <3>3. list.shows # "reload"
      <4>1. list.via \in page.gets
        BY <1>3, <1>4 DEF GoodList
      <4>2. QED
        BY <1>2, <1>3, <1>9, <2>4, <3>2, <4>1 DEF Reloaded
    <3>4. PICK W, V, L, R : W = Writes(l) /\ V = W \ {w} /\ L = Late(l) /\ R = store[l]
      OBVIOUS
    <3>5. w \in W
      BY <1>1, <2>4, <3>4 DEF Writes, Changes
    <3>6. Tame(W) /\ ~Waiting(l)
      BY <3>4, <3>5 DEF Faithful
    <3>7. Answered(W, w, V) /\ w.inHand
      BY <1>1, <3>4, <3>5, <3>6 DEF Answered, Tame
    <3>8. Tame(V)
      BY <3>4, <3>6 DEF Tame
    <3>9. ASSUME list.via \in got' PROVE Mirror(list, view'[l], R, V, L)
      <4>1. Settled(l)
        BY <1>1, <1>3, <3>3, <3>6, <3>9 DEF Settled
      <4>2. Mirror(list, view[l], R, W, L)
        BY <1>3, <3>4, <4>1 DEF Faithful, Reflects
      <4>3. view' = Shown(w)
        BY <1>1, <3>2
      <4>4. QED
        BY <1>1, <1>3, <2>4, <3>3, <3>4, <3>7, <4>2, <4>3, AnswerReflected
    <3>10. V = Writes(l)' /\ L = Late(l)' /\ R = store'[l] /\ ~Waiting(l)'
      BY <1>1, <1>6, <2>1, <2>3, <3>4, <3>6
    <3>11. \A q \in Served' : q.via # list.via
      BY <1>3, <1>6, <3>6 DEF Served, Pending, Waiting, Loads
    <3>12. QED
      BY <1>1, <1>3, <1>7, <3>8, <3>9, <3>10, <3>11, StillFaithful
  <2>5. CASE w.list # l
    <3>1. Writes(l)' = Writes(l)
      BY <1>6, <2>5 DEF Writes
    <3>2. view'[l] = view[l]
      <4>1. CASE Shown(w) = view
        BY <1>1, <4>1
      <4>2. CASE \E t \in Seq(ShownRow) : Leaves(w, t)
        BY <1>1, <2>5, <4>2 DEF Leaves, Shape
      <4>3. QED
        BY <1>1, <4>1, <4>2, AnsweredRows
    <3>3. store'[l] = store[l]
      BY <1>1
    <3>4. QED
      BY <1>1, <1>6, <1>7, <2>1, <2>3, <3>1, <3>2, <3>3, Untouched
  <2>6. QED
    BY <2>4, <2>5
<1>10. QED
  BY <1>8, <1>9

-----------------------------------------------------------------------------
(* Every step of a page that nothing fails and nobody else writes to.               *)
Counted == failures \in Nat /\ others \in Nat

LEMMA CountedAgain ==
  ASSUME Counted, PagesNext
  PROVE  Counted'
<1>1. ASSUME NEW l \in Lists, Add(l) \/ Edit(l) \/ RemoveRow(l) \/ Choose(l) \/ Reorder(l) PROVE Counted'
  BY <1>1, UserSends DEF SendChange, Counted
<1>2. ASSUME NEW l \in Lists, LeaveEmpty(l) \/ Other(l) PROVE Counted'
  BY <1>2 DEF LeaveEmpty, Other, counters, Counted
<1>3. ASSUME NEW q \in requests, LoadServed(q) \/ Loaded(q) \/ Write(q) \/ ChooseFind(q) \/ ChooseLock(q)
                                 \/ ChooseCommit(q) \/ ChangeAnswered(q)
      PROVE  Counted'
  BY <1>3 DEF LoadServed, Loaded, Write, ChooseFind, ChooseLock, ChooseCommit, ChangeAnswered, counters, Counted
<1>4. ASSUME NEW q \in requests, LoadFailed(q) \/ Fail(q) PROVE Counted'
  BY <1>4 DEF LoadFailed, Fail, Counted
<1>5. ASSUME Open \/ Close PROVE Counted'
  BY <1>5 DEF Open, Close, counters, Counted
<1>6. QED
  BY <1>1, <1>2, <1>3, <1>4, <1>5 DEF PagesNext

(* What is asked for stays asked for until it is there.                             *)
LEMMA AskedStill ==
  ASSUME AllAskedFor, page' = page, got \subseteq got',
         \A q \in Pending : q.via \in got' \/ \E p \in requests' : p.verb = "get" /\ p.via = q.via
  PROVE  AllAskedFor'
<1> SUFFICES ASSUME NEW g \in page.gets, g \notin got' PROVE Loads(g)' # {}
  BY DEF AllAskedFor
<1>1. PICK q \in Loads(g) : TRUE
  BY DEF AllAskedFor
<1>2. q \in Pending /\ q.via = g
  BY <1>1 DEF Loads, Pending
<1>3. QED
  BY <1>2 DEF Loads

LEMMA AskedAgain ==
  ASSUME Shape, AllAskedFor, PagesNext, Counted, Alone', ~Open, ~Close
  PROVE  AllAskedFor'
<1>1. ASSUME NEW l \in Lists, Add(l) \/ Edit(l) \/ RemoveRow(l) \/ Choose(l) \/ Reorder(l) PROVE AllAskedFor'
  <2>1. page' = page /\ got' = got /\ requests \subseteq requests'
    BY <1>1, UserSends DEF SendChange
  <2>2. QED
    BY <2>1, AskedStill DEF Pending
<1>e. ASSUME NEW l \in Lists, LeaveEmpty(l) PROVE AllAskedFor'
  <2>1. page' = page /\ got' = got /\ requests' = requests
    BY <1>e, Emptied
  <2>2. QED
    BY <2>1, AskedStill DEF Pending
<1>2. ASSUME NEW l \in Lists, Other(l) PROVE FALSE
  <2>1. others' = others + 1
    BY <1>2 DEF Other
  <2>2. QED
    BY <2>1 DEF Counted, Alone
<1>3. ASSUME NEW q \in requests, LoadServed(q) PROVE AllAskedFor'
  <2>1. PICK R : R = store
    OBVIOUS
  <2>2. PICK d : d = [q EXCEPT !.stage = "done", !.rows = R]
    OBVIOUS
  <2>3. q.verb = "get" /\ page' = page /\ got' = got /\ requests' = (requests \ {q}) \union {d}
    BY <1>3, <2>1, <2>2 DEF LoadServed, pageVars
  <2>4. LoadOK(q)
    BY <2>3 DEF Shape, RequestOK
  <2>5. d.verb = "get" /\ d.via = q.via
    BY <2>2, <2>4 DEF LoadOK
  <2>6. QED
    BY <2>3, <2>5, AskedStill DEF Pending
<1>4. ASSUME NEW q \in requests, Loaded(q) PROVE AllAskedFor'
  <2>1. page' = page /\ got' = got \union {q.via} /\ Pending' = Pending \ {q}
    BY <1>4, DetachedChanges DEF Loaded
  <2>2. QED
    BY <2>1, AskedStill DEF Pending
<1>5. ASSUME NEW q \in requests, Write(q) \/ ChooseFind(q) \/ ChooseLock(q) \/ ChooseCommit(q) \/ ChangeAnswered(q)
      PROVE  AllAskedFor'
  <2>1. page' = page /\ got' = got /\ q.verb # "get" /\ requests \ {q} \subseteq requests'
    BY <1>5 DEF Write, ChooseFind, ChooseLock, ChooseCommit, ChangeAnswered, Serve, pageVars
  <2>2. QED
    BY <2>1, AskedStill DEF Pending
<1>6. ASSUME NEW q \in requests, LoadFailed(q) \/ Fail(q) PROVE FALSE
  <2>1. failures' = failures + 1
    BY <1>6 DEF LoadFailed, Fail
  <2>2. QED
    BY <2>1 DEF Counted, Alone
<1>7. QED
  BY <1>1, <1>e, <1>2, <1>3, <1>4, <1>5, <1>6 DEF PagesNext

LEMMA OpenAsks ==
  ASSUME Open
  PROVE  AllAskedFor'
<1>1. page' = page /\ \A g \in page.gets : LoadRequest(0, g) \in requests'
  BY DEF Open
<1>2. \A g : LoadRequest(0, g).verb = "get" /\ LoadRequest(0, g).via = g
  BY DEF LoadRequest
<1>3. QED
  BY <1>1, <1>2 DEF AllAskedFor, Loads

LEMMA FaithfulAgain ==
  ASSUME Sound, WholeHistory(history), NEW l \in Lists, Faithful(l), l \notin history'.crossed,
         PagesNext, Counted, Alone', ~Open, ~Close
  PROVE  Faithful(l)'
<1>1. ASSUME NEW m \in Lists, Add(m) \/ Edit(m) \/ LeaveEmpty(m) \/ RemoveRow(m) \/ Choose(m) \/ Reorder(m)
      PROVE  Faithful(l)'
  BY <1>1, AddFaithful, EditFaithful, LeaveEmptyFaithful, RemoveFaithful, ChooseFaithful, ReorderFaithful
<1>2. ASSUME NEW m \in Lists, Other(m) PROVE FALSE
  <2>1. others' = others + 1
    BY <1>2 DEF Other
  <2>2. QED
    BY <2>1 DEF Counted, Alone
<1>3. ASSUME NEW q \in requests, LoadServed(q) \/ Loaded(q) PROVE Faithful(l)'
  BY <1>3, LoadServedFaithful, LoadedFaithful
<1>4. ASSUME NEW q \in requests, Write(q) \/ ChooseFind(q) \/ ChooseLock(q) \/ ChooseCommit(q) \/ ChangeAnswered(q)
      PROVE  Faithful(l)'
  BY <1>4, WriteFaithful, ChooseFindFaithful, ChooseLockFaithful, ChooseCommitFaithful, ChangeAnsweredFaithful
<1>5. ASSUME NEW q \in requests, LoadFailed(q) \/ Fail(q) PROVE FALSE
  <2>1. failures' = failures + 1
    BY <1>5 DEF LoadFailed, Fail
  <2>2. QED
    BY <2>1 DEF Counted, Alone
<1>6. QED
  BY <1>1, <1>2, <1>3, <1>4, <1>5 DEF PagesNext

LEMMA AloneBefore ==
  ASSUME Shape, WholeHistory(history), PagesNext, Counted, Alone', open', ~Open, ~Close
  PROVE  Alone /\ open /\ page' = page /\ history.crossed \subseteq history'.crossed
<1>1. ASSUME NEW l \in Lists, Add(l) \/ Edit(l) \/ RemoveRow(l) \/ Choose(l) \/ Reorder(l)
      PROVE  Alone /\ open /\ page' = page /\ history.crossed \subseteq history'.crossed
  <2>1. PICK w : SendChange(w)
    BY <1>1, UserSends
  <2>2. page' = page /\ open' = open /\ others' = others /\ failures' = failures
    BY <2>1 DEF SendChange
  <2>3. history'.crossed = history.crossed \union CrossedBy(w)
    BY <2>1, CrossedRecalled DEF SendChange
  <2>4. QED
    BY <2>2, <2>3 DEF Alone
<1>e. ASSUME NEW l \in Lists, LeaveEmpty(l)
      PROVE  Alone /\ open /\ page' = page /\ history.crossed \subseteq history'.crossed
  BY <1>e, Emptied DEF Alone
<1>2. ASSUME NEW l \in Lists, Other(l) PROVE FALSE
  <2>1. others' = others + 1
    BY <1>2 DEF Other
  <2>2. QED
    BY <2>1 DEF Counted, Alone
<1>3. ASSUME NEW q \in requests, LoadServed(q) \/ Loaded(q) \/ ChooseFind(q) \/ ChooseLock(q) \/ ChooseCommit(q)
      PROVE  Alone /\ open /\ page' = page /\ history.crossed \subseteq history'.crossed
  BY <1>3 DEF LoadServed, Loaded, ChooseFind, ChooseLock, ChooseCommit, pageVars, counters, Alone
<1>4. ASSUME NEW q \in requests, Write(q)
      PROVE  Alone /\ open /\ page' = page /\ history.crossed \subseteq history'.crossed
  <2>1. page' = page /\ open' = open /\ others' = others /\ failures' = failures
    BY <1>4 DEF Write, pageVars, counters
  <2>2. history' = history \/ \E x : history' = [history EXCEPT !.grown = x]
    BY <1>4 DEF Write
  <2>3. history'.crossed = history.crossed
    BY <2>2, CrossedRecalled
  <2>4. QED
    BY <2>1, <2>3 DEF Alone
<1>5. ASSUME NEW q \in requests, ChangeAnswered(q)
      PROVE  Alone /\ open /\ page' = page /\ history.crossed \subseteq history'.crossed
  <2>1. page' = page /\ open' = open /\ others' = others /\ failures' = failures
    BY <1>5 DEF ChangeAnswered, counters
  <2>2. \E x : history' = [history EXCEPT !.crossed = @ \union x]
    BY <1>5 DEF ChangeAnswered
  <2>3. history.crossed \subseteq history'.crossed
    BY <2>2, CrossedRecalled
  <2>4. QED
    BY <2>1, <2>3 DEF Alone
<1>6. ASSUME NEW q \in requests, LoadFailed(q) \/ Fail(q) PROVE FALSE
  <2>1. failures' = failures + 1
    BY <1>6 DEF LoadFailed, Fail
  <2>2. QED
    BY <2>1 DEF Counted, Alone
<1>7. QED
  BY <1>1, <1>e, <1>2, <1>3, <1>4, <1>5, <1>6 DEF PagesNext

LEMMA MirroredAgain ==
  ASSUME Sound, WholeHistory(history), Waited, Counted, Mirrored, PagesNext
  PROVE  Mirrored'
<1> SUFFICES ASSUME Alone', open' PROVE AllAskedFor' /\ \A l \in Lists' \ history'.crossed : Faithful(l)'
  BY DEF Mirrored
<1>1. Shape /\ page' = page /\ Lists' = Lists
  BY EveryStep DEF Sound, Steps, Lists
<1>2. CASE Open
  BY <1>1, <1>2, OpenAsks, OpenFaithful
<1>3. CASE Close
  BY <1>3 DEF Close
<1>4. CASE ~Open /\ ~Close
  <2>1. Alone /\ open /\ history.crossed \subseteq history'.crossed
    BY <1>1, <1>4, AloneBefore
  <2>2. AllAskedFor /\ \A l \in Lists \ history.crossed : Faithful(l)
    BY <2>1 DEF Mirrored
  <2>3. AllAskedFor'
    BY <1>1, <1>4, <2>2, AskedAgain
  <2>4. QED
    BY <1>1, <1>4, <2>1, <2>2, <2>3, FaithfulAgain
<1>5. QED
  BY <1>2, <1>3, <1>4

LEMMA MirroredAlways == PagesSpec => [](Counted /\ Mirrored)
<1>1. PagesInit => Counted /\ Mirrored
  BY DEF PagesInit, Counted, Mirrored
<1>2. Texts /\ Showing /\ Counted /\ Mirrored /\ PagesNext => (Counted /\ Mirrored)'
  BY CountedAgain, MirroredAgain DEF Texts, Showing
<1>3. Counted /\ Mirrored /\ UNCHANGED productionVars => (Counted /\ Mirrored)'
  <2> SUFFICES ASSUME Counted, Mirrored, UNCHANGED productionVars PROVE (Counted /\ Mirrored)'
    OBVIOUS
  <2>1. /\ page' = page /\ open' = open /\ view' = view /\ got' = got /\ store' = store
        /\ requests' = requests /\ history' = history /\ failures' = failures /\ others' = others
    BY DEF productionVars, pageVars, counters
  <2>2. /\ Changes' = Changes /\ Served' = Served /\ (Alone' <=> Alone) /\ Lists' = Lists
        /\ (\A g : Loads(g)' = Loads(g)) /\ \A l : Writes(l)' = Writes(l)
    BY <2>1 DEF Changes, Served, Pending, Alone, Loads, Writes, Lists
  <2>3. AllAskedFor' <=> AllAskedFor
    BY <2>1, <2>2 DEF AllAskedFor
  <2>4. ASSUME NEW l \in Lists, Faithful(l) PROVE Faithful(l)'
    <3>1. Late(l)' = Late(l) /\ (Waiting(l)' <=> Waiting(l)) /\ store'[l] = store[l] /\ view'[l] = view[l]
      BY <2>1, <2>2 DEF Late, Waiting
    <3>2. \A v \in Changes' : l \in Touched(v) => v.mine
      BY <2>2, <2>4 DEF Faithful
    <3>3. QED
      BY <2>1, <2>2, <2>4, <3>1, <3>2, Untouched
  <2>5. QED
    BY <2>1, <2>2, <2>3, <2>4 DEF Counted, Mirrored
<1>4. QED
  BY <1>1, <1>2, <1>3, TextsAlways, ShowingAlways, PTL DEF PagesSpec

(* When everything has been answered, nothing failed, nobody else wrote, and no two     *)
(* requests on a list crossed, the page shows the list's stored rows in their order,     *)
(* with their words, but for an idea note that was left empty.                           *)
THEOREM QuietPagesAgree == PagesSpec => []QuietPageShowsTheStore
<1>1. Texts /\ Counted /\ Mirrored => QuietPageShowsTheStore
  <2> SUFFICES ASSUME Sound, Mirrored, Usable, requests = {}, failures = 0, others = 0,
                      NEW l \in Lists, l \notin history.crossed
               PROVE  /\ DOMAIN view[l] = DOMAIN Listing(page.lists[l], store[l])
                      /\ \A i \in DOMAIN Listing(page.lists[l], store[l]) :
                           /\ view[l][i].id = Listing(page.lists[l], store[l])[i].id
                           /\ view[l][i].chosen = Listing(page.lists[l], store[l])[i].chosen
                           /\ Agrees(page.lists[l], view[l][i].words, Listing(page.lists[l], store[l])[i].words)
    BY DEF Texts, QuietPageShowsTheStore
  <2>1. PICK list, s, R : list = page.lists[l] /\ s = view[l] /\ R = store[l]
    OBVIOUS
  <2>2. GoodRows(R) /\ s \in Seq(ShownRow) /\ GoodList(page, l)
    BY <2>1, ListFacts DEF Sound
  <2>3. Changes = {} /\ Writes(l) = {} /\ Late(l) = {} /\ \A g : Loads(g) = {}
    BY DEF Changes, Writes, Late, Loads
  <2>4. AllAskedFor /\ Faithful(l)
    BY DEF Mirrored, Alone, Usable
  <2>5. Settled(l)
    BY <2>2, <2>3, <2>4 DEF AllAskedFor, Settled, Waiting, GoodList
  <2>6. Mirror(list, s, R, {}, {})
    BY <2>1, <2>3, <2>4, <2>5 DEF Faithful, Reflects
  <2>7. /\ DOMAIN s = DOMAIN Listing(list, R)
        /\ \A i \in DOMAIN s :
             /\ s[i].id = Listing(list, R)[i].id /\ s[i].chosen = Listing(list, R)[i].chosen
             /\ Agrees(list, s[i].words, Listing(list, R)[i].words)
    BY <2>2, <2>6, QuietMirror
  <2>8. QED
    BY <2>1, <2>7
<1>2. QED
  BY <1>1, TextsAlways, MirroredAlways, PTL

=============================================================================
