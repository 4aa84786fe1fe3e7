------------------------ MODULE VersionControlProofs ------------------------
(* What VersionControl guarantees for any number of clients, scripts,        *)
(* branches and requests, and that it implements BranchSlots.                *)
EXTENDS VersionControl, TLAPS

-----------------------------------------------------------------------------
(* Facts about ancestry, for any sequence of rows in which every parent is an *)
(* earlier row or none.                                                       *)
Grounded(s) == \A i \in 1..Len(s) : s[i].parent \in 0..(i - 1)
ClosedIn(s, S) == \A i \in S : s[i].parent # 0 => s[i].parent \in S
HistoryIn(s, t) ==
  {i \in 1..Len(s) :
     \A S \in SUBSET (1..Len(s)) :
       {t} \cap (1..Len(s)) \subseteq S /\ ClosedIn(s, S) => i \in S}

LEMMA HistoryOfSnaps == \A t : History(t) = HistoryIn(snaps, t)
  BY DEF History, HistoryIn, Closed, ClosedIn, Ids

(* A snapshot is in its own history; the empty id has none. *)
LEMMA HistoryHolds ==
  ASSUME NEW s, NEW t \in 1..Len(s)
  PROVE  t \in HistoryIn(s, t)
  BY DEF HistoryIn

LEMMA NoHistory ==
  ASSUME NEW s, Len(s) \in Nat
  PROVE  HistoryIn(s, 0) = {}
<1>1. {0} \cap (1..Len(s)) \subseteq {} /\ ClosedIn(s, {})
  BY DEF ClosedIn
<1>2. {} \in SUBSET (1..Len(s))
  OBVIOUS
<1>3. QED
  BY <1>1, <1>2 DEF HistoryIn

(* A new row leaves every history as it was. *)
LEMMA OldHistory ==
  ASSUME NEW s \in Seq(Snapshot), Grounded(s), NEW row \in Snapshot,
         NEW t \in 0..Len(s)
  PROVE  HistoryIn(Append(s, row), t) = HistoryIn(s, t)
<1> DEFINE n == Len(s)
           s2 == Append(s, row)
<1>1. /\ n \in Nat
      /\ Len(s2) = n + 1
      /\ \A i \in 1..n : s2[i] = s[i]
  OBVIOUS
<1>2. \A i \in 1..n : s[i].parent \in 0..(i - 1)
  BY DEF Grounded
<1> HIDE DEF n, s2
<1>3. ASSUME NEW i \in HistoryIn(s2, t) PROVE i \in HistoryIn(s, t)
  <2>1. ASSUME NEW S \in SUBSET (1..n), {t} \cap (1..n) \subseteq S, ClosedIn(s, S)
        PROVE  i \in S
    <3>1. S \in SUBSET (1..(n + 1)) /\ ClosedIn(s2, S)
      BY <1>1, <2>1 DEF ClosedIn
    <3>2. {t} \cap (1..(n + 1)) \subseteq S
      BY <1>1, <2>1 DEF n
    <3>3. QED
      BY <1>1, <1>3, <3>1, <3>2 DEF HistoryIn
  <2>2. ClosedIn(s, 1..n)
    BY <1>1, <1>2 DEF ClosedIn
  <2>3. i \in 1..n
    BY <2>1, <2>2
  <2>4. QED
    BY <2>1, <2>3 DEF HistoryIn, n
<1>4. ASSUME NEW i \in HistoryIn(s, t) PROVE i \in HistoryIn(s2, t)
  <2>1. i \in 1..n
    BY <1>4 DEF HistoryIn, n
  <2>2. ASSUME NEW S \in SUBSET (1..(n + 1)), {t} \cap (1..(n + 1)) \subseteq S,
               ClosedIn(s2, S)
        PROVE  i \in S
    <3> DEFINE T == S \cap (1..n)
    <3>1. {t} \cap (1..n) \subseteq T
      BY <1>1, <2>2
    <3>2. ASSUME NEW j \in T, s[j].parent # 0 PROVE s[j].parent \in T
      <4>1. j \in S /\ j \in 1..n /\ s2[j].parent # 0
        BY <1>1, <3>2
      <4>2. s[j].parent \in S
        BY <1>1, <2>2, <4>1 DEF ClosedIn
      <4>3. s[j].parent \in 1..n
        BY <1>1, <1>2, <3>2, <4>1
      <4>4. QED
        BY <4>2, <4>3
    <3>3. ClosedIn(s, T)
      BY <3>2 DEF ClosedIn
    <3>4. i \in T
      BY <1>4, <3>1, <3>3 DEF HistoryIn, n
    <3>5. QED
      BY <3>4
  <2>3. QED
    BY <1>1, <2>1, <2>2 DEF HistoryIn
<1>5. QED
  BY <1>3, <1>4 DEF s2

(* The history of a new row is the row and the history of its parent. *)
LEMMA NewHistory ==
  ASSUME NEW s \in Seq(Snapshot), Grounded(s), NEW row \in Snapshot,
         row.parent \in 0..Len(s)
  PROVE  HistoryIn(Append(s, row), Len(s) + 1)
           = {Len(s) + 1} \union HistoryIn(s, row.parent)
<1> DEFINE n == Len(s)
           s2 == Append(s, row)
           p == row.parent
<1>1. /\ n \in Nat
      /\ Len(s2) = n + 1
      /\ s2[n + 1] = row
      /\ \A i \in 1..n : s2[i] = s[i]
  OBVIOUS
<1>2. HistoryIn(s2, p) = HistoryIn(s, p)
  BY OldHistory
<1>3. p \in 0..n
  OBVIOUS
<1> HIDE DEF n, s2, p
<1>4. n + 1 \in HistoryIn(s2, n + 1)
  BY <1>1, HistoryHolds
<1>5. ASSUME NEW i \in HistoryIn(s2, p) PROVE i \in HistoryIn(s2, n + 1)
  <2>1. ASSUME NEW S \in SUBSET (1..(n + 1)), {n + 1} \cap (1..(n + 1)) \subseteq S,
               ClosedIn(s2, S)
        PROVE  i \in S
    <3>1. n + 1 \in S
      BY <1>1, <2>1
    <3>2. p # 0 => p \in S
      BY <1>1, <2>1, <3>1 DEF ClosedIn, p
    <3>3. {p} \cap (1..(n + 1)) \subseteq S
      BY <1>3, <3>2
    <3>4. QED
      BY <1>1, <1>5, <2>1, <3>3 DEF HistoryIn
  <2>2. i \in 1..(n + 1)
    BY <1>1, <1>5 DEF HistoryIn
  <2>3. QED
    BY <1>1, <2>1, <2>2 DEF HistoryIn
<1>6. ASSUME NEW i \in HistoryIn(s2, n + 1), i # n + 1 PROVE i \in HistoryIn(s, p)
  <2>1. i \in 1..n
    BY <1>1, <1>6 DEF HistoryIn
  <2>2. ASSUME NEW S \in SUBSET (1..n), {p} \cap (1..n) \subseteq S, ClosedIn(s, S)
        PROVE  i \in S
    <3> DEFINE T == S \union {n + 1}
    <3>1. T \in SUBSET (1..(n + 1)) /\ {n + 1} \cap (1..(n + 1)) \subseteq T
      BY <1>1
    <3>2. ClosedIn(s2, T)
      <4>1. ASSUME NEW j \in S, s2[j].parent # 0 PROVE s2[j].parent \in T
        BY <1>1, <2>2, <4>1 DEF ClosedIn
      <4>2. s2[n + 1].parent # 0 => s2[n + 1].parent \in T
        BY <1>1, <1>3, <2>2 DEF p
      <4>3. QED
        BY <4>1, <4>2 DEF ClosedIn
    <3>3. i \in T
      BY <1>1, <1>6, <3>1, <3>2 DEF HistoryIn
    <3>4. QED
      BY <1>6, <3>3
  <2>3. QED
    BY <2>1, <2>2 DEF HistoryIn, n
<1>7. QED
  BY <1>2, <1>4, <1>5, <1>6 DEF n, s2, p

-----------------------------------------------------------------------------
(* What the rows owe each other, and what a request in flight owes the rows. *)
SnapsInv ==
  /\ snaps \in Seq(Snapshot)
  /\ Grounded(snaps)
  /\ \A i \in Ids : snaps[i].created <= clock
  /\ \A i \in Ids :
       snaps[i].parent # 0 => snaps[snaps[i].parent].created < snaps[i].created

BranchesInv ==
  /\ branches \in [Branches -> Branch \union {NoBranch}]
  /\ \A b \in Branches : branches[b] # NoBranch =>
       branches[b].tip \in 0..Len(snaps) /\ branches[b].fork \in 0..Len(snaps)
  /\ \A i \in Ids : branches[snaps[i].branch] # NoBranch

(* What a commit has read: a parent that is stored, or none, and older. *)
Known(i) == i \in 0..Len(snaps)
TipRead(parent, created, seen) ==
  /\ Known(parent) /\ Known(seen)
  /\ created <= clock
  /\ parent # 0 => snaps[parent].created < created
OnBranch(b) == b \in Branches /\ branches[b] # NoBranch

Sound(r) ==
  /\ r \in Request
  /\ Known(r.from)
  /\ r.kind # "script" \/ r.stage # "sent" => r.script \in Scripts
  /\ r.kind \in {"commit", "draft"} \/ r.stage \in {"branch row", "tip read"} =>
       OnBranch(r.branch)
  /\ r.stage = "tip read" => TipRead(r.parent, r.created, r.seen)

IInv ==
  /\ scripts \in SUBSET Scripts
  /\ sent \in 0..MaxRequests
  /\ clock \in Nat
  /\ SnapsInv
  /\ BranchesInv
  /\ \A r \in requests : Sound(r)

LEMMA SnapFacts ==
  ASSUME IInv
  PROVE  /\ Len(snaps) \in Nat /\ clock \in Nat
         /\ \A i \in 1..Len(snaps) :
              /\ snaps[i] \in Snapshot
              /\ snaps[i].branch \in Branches
              /\ snaps[i].parent \in Nat /\ snaps[i].created \in Nat /\ snaps[i].seen \in Nat
<1>1. Len(snaps) \in Nat /\ clock \in Nat
  BY DEF IInv, SnapsInv
<1>2. \A i \in 1..Len(snaps) : snaps[i] \in Snapshot
  BY DEF IInv, SnapsInv
<1>3. \A x \in Snapshot :
        x.branch \in Branches /\ x.parent \in Nat /\ x.created \in Nat /\ x.seen \in Nat
  BY DEF Snapshot
<1>4. QED
  BY <1>1, <1>2, <1>3

LEMMA RequestFields ==
  ASSUME NEW r \in Request
  PROVE  /\ r.kind \in {"script", "branch", "commit", "draft"}
         /\ r.script \in Scripts \union {NoScript}
         /\ r.branch \in Branches \union {NoBranch}
         /\ r.content \in Contents
         /\ r.from \in Nat /\ r.parent \in Nat /\ r.created \in Nat /\ r.seen \in Nat
  BY DEF Request

-----------------------------------------------------------------------------
(* No step changes or removes a snapshot, removes a branch or moves its fork. *)
Grows ==
  /\ Len(snaps') \in Nat /\ Len(snaps) <= Len(snaps')
  /\ \A i \in 1..Len(snaps) : snaps'[i] = snaps[i]
  /\ clock' \in Nat /\ clock <= clock'
  /\ \A b \in Branches : branches[b] # NoBranch =>
       branches'[b] # NoBranch /\ branches'[b].fork = branches[b].fork

LEMMA KnownStays ==
  ASSUME IInv, Grows, NEW i \in Nat, Known(i)
  PROVE  Known(i)'
  BY SnapFacts DEF Grows, Known

LEMMA TipReadStays ==
  ASSUME IInv, Grows, NEW p \in Nat, NEW t \in Nat, NEW n \in Nat, TipRead(p, t, n)
  PROVE  TipRead(p, t, n)'
<1>1. Known(p)' /\ Known(n)'
  BY KnownStays DEF TipRead
<1>2. p # 0 => p \in 1..Len(snaps)
  BY SnapFacts DEF TipRead, Known
<1>3. p # 0 => snaps'[p].created < t
  BY <1>2 DEF TipRead, Grows
<1>4. t <= clock'
  BY SnapFacts DEF TipRead, Grows
<1>5. QED
  BY <1>1, <1>3, <1>4 DEF TipRead

LEMMA SoundStays ==
  ASSUME IInv, Grows, NEW r, Sound(r)
  PROVE  Sound(r)'
<1>1. r \in Request /\ Known(r.from)
  BY DEF Sound
<1>2. Known(r.from)'
  BY <1>1, RequestFields, KnownStays
<1>3. TipRead(r.parent, r.created, r.seen) => TipRead(r.parent, r.created, r.seen)'
  BY <1>1, RequestFields, TipReadStays
<1>4. OnBranch(r.branch) => OnBranch(r.branch)'
  BY DEF OnBranch, Grows
<1>5. QED
  BY <1>1, <1>2, <1>3, <1>4 DEF Sound

-----------------------------------------------------------------------------
(* The steps that write no row but that of a script. *)
LEMMA RequestStep ==
  ASSUME IInv, UNCHANGED <<branches, snaps>>,
         scripts' \in SUBSET Scripts, sent' \in 0..MaxRequests,
         clock' \in Nat, clock <= clock',
         \A r \in requests' : r \in requests \/ Sound(r)'
  PROVE  IInv'
<1>1. Grows
  BY SnapFacts DEF Grows
<1>2. ASSUME NEW r \in requests' PROVE Sound(r)'
  BY <1>1, <1>2, SoundStays DEF IInv
<1>3. SnapsInv'
  <2>1. \A i \in Ids : snaps[i].created <= clock'
    BY SnapFacts DEF IInv, SnapsInv, Ids
  <2>2. QED
    BY <2>1 DEF IInv, SnapsInv, Ids
<1>4. BranchesInv'
  BY DEF IInv, BranchesInv, Ids
<1>5. QED
  BY <1>2, <1>3, <1>4 DEF IInv

LEMMA SendStep ==
  ASSUME IInv, NEW c \in Clients, NEW kind \in {"script", "branch", "commit", "draft"},
         NEW s \in Scripts \union {NoScript}, NEW b \in Branches \union {NoBranch},
         NEW text \in Contents, NEW from \in Nat, Known(from),
         kind # "script" => s \in Scripts,
         kind \in {"commit", "draft"} => OnBranch(b),
         Send(c, kind, s, b, text, from)
  PROVE  IInv'
<1> DEFINE new == [client |-> c, kind |-> kind, script |-> s, branch |-> b,
                   content |-> text, from |-> from, stage |-> "sent",
                   parent |-> 0, created |-> 0, seen |-> 0]
<1>1. new \in Request
  BY DEF Request
<1>2. UNCHANGED <<scripts, branches, snaps, clock>>
  BY DEF Send
<1>3. Known(from)' /\ (kind \in {"commit", "draft"} => OnBranch(b)')
  BY <1>2 DEF Known, OnBranch
<1>4. Sound(new)'
  BY <1>1, <1>3 DEF Sound
<1>5. sent' \in 0..MaxRequests
  BY BoundAssumption DEF IInv, Send
<1>6. \A r \in requests' : r \in requests \/ Sound(r)'
  BY <1>4 DEF Send
<1>7. QED
  BY <1>2, <1>5, <1>6, RequestStep DEF IInv

(* A step of a request that leaves something sound in its place. *)
LEMMA Replaced ==
  ASSUME NEW r, NEW new, Sound(new)', Replace(r, new)
  PROVE  \A q \in requests' : q \in requests \/ Sound(q)'
  BY DEF Replace

LEMMA ServeStep ==
  ASSUME IInv, NEW r \in requests,
         InsertScript(r) \/ ReadTip(r) \/ RefuseCommit(r) \/ RequestFails(r) \/ Deliver(r)
  PROVE  IInv'
<1>1. Sound(r) /\ r \in Request
  BY DEF IInv, Sound
<1>2. CASE InsertScript(r)
  <2>1. PICK s \in Scripts : /\ scripts' = scripts \union {s}
                             /\ Replace(r, [r EXCEPT !.script = s, !.stage = "script row"])
    BY <1>2 DEF InsertScript
  <2>2. PICK new : new = [r EXCEPT !.script = s, !.stage = "script row"]
    OBVIOUS
  <2>3. /\ new \in Request /\ new.from = r.from /\ new.kind = "script"
        /\ new.script = s /\ new.stage = "script row"
    BY <1>1, <1>2, <2>2 DEF InsertScript, Request
  <2>4. Known(r.from)'
    BY <1>1, <1>2 DEF Sound, Known, InsertScript
  <2>5. Sound(new)'
    BY <2>3, <2>4 DEF Sound
  <2>6. Replace(r, new) /\ scripts' = scripts \union {s}
    BY <2>1, <2>2
  <2>7. \A q \in requests' : q \in requests \/ Sound(q)'
    BY <2>5, <2>6, Replaced
  <2>8. UNCHANGED <<branches, snaps, sent, clock>>
    BY <1>2 DEF InsertScript
  <2>9. QED
    BY <2>6, <2>7, <2>8, RequestStep, SnapFacts DEF IInv
<1>3. CASE ReadTip(r)
  <2>1. OnBranch(r.branch) /\ r.script \in Scripts /\ Known(r.from)
    BY <1>1, <1>3 DEF ReadTip, AtCommit, Sound
  <2>2. PICK p \in Nat : p = branches[r.branch].tip /\ p \in 0..Len(snaps)
    BY <2>1 DEF IInv, BranchesInv, OnBranch
  <2>3. PICK n \in Nat : n = Len(snaps)
    BY SnapFacts
  <2>4. PICK t \in Nat : t = clock + 1
    BY SnapFacts
  <2>5. PICK new : new = [r EXCEPT !.stage = "tip read", !.parent = p,
                                   !.created = t, !.seen = n]
    OBVIOUS
  <2>6. new \in Request
    BY <1>1, <2>5 DEF Request
  <2>7. /\ new.from = r.from /\ new.kind = r.kind /\ new.script = r.script
        /\ new.branch = r.branch /\ new.stage = "tip read" /\ new.parent = p
        /\ new.created = t /\ new.seen = n
    BY <1>1, <2>5 DEF Request
  <2>8. UNCHANGED <<scripts, branches, snaps, sent>> /\ clock' = t
    BY <1>3, <2>4 DEF ReadTip
  <2>9. TipRead(p, t, n)'
    <3>1. p # 0 => snaps[p].created <= clock /\ snaps[p].created \in Nat
      BY <2>2, SnapFacts DEF IInv, SnapsInv, Ids
    <3>2. QED
      BY <2>2, <2>3, <2>4, <2>8, <3>1, SnapFacts DEF TipRead, Known
  <2>10. OnBranch(r.branch)' /\ Known(r.from)'
    BY <2>1, <2>8 DEF OnBranch, Known
  <2>11. Sound(new)'
    BY <2>1, <2>6, <2>7, <2>9, <2>10 DEF Sound
  <2>12. Replace(r, new)
    BY <1>3, <2>2, <2>3, <2>4, <2>5 DEF ReadTip
  <2>13. clock' \in Nat /\ clock <= clock'
    BY <2>4, <2>8, SnapFacts
  <2>14. \A q \in requests' : q \in requests \/ Sound(q)'
    BY <2>11, <2>12, Replaced
  <2>15. QED
    BY <2>8, <2>13, <2>14, RequestStep DEF IInv
<1>4. CASE RefuseCommit(r)
  BY <1>4, RequestStep, SnapFacts DEF RefuseCommit, IInv
<1>5. CASE RequestFails(r)
  BY <1>5, RequestStep, SnapFacts DEF RequestFails, IInv
<1>6. CASE Deliver(r)
  BY <1>6, RequestStep, SnapFacts DEF Deliver, IInv
<1>7. QED
  BY <1>2, <1>3, <1>4, <1>5, <1>6

-----------------------------------------------------------------------------
(* The steps that write a branch or a snapshot. *)
LEMMA GrowStep ==
  ASSUME IInv, Grows, SnapsInv', BranchesInv', UNCHANGED <<scripts, sent>>,
         \A q \in requests' : q \in requests \/ Sound(q)'
  PROVE  IInv'
<1>1. ASSUME NEW q \in requests' PROVE Sound(q)'
  BY <1>1, SoundStays DEF IInv
<1>2. QED
  BY <1>1 DEF IInv, Grows

LEMMA RowFacts ==
  ASSUME NEW row \in Branch
  PROVE  /\ row # NoBranch
         /\ row.script \in Scripts /\ row.tip \in Nat /\ row.fork \in Nat
         /\ \A i \in Nat : /\ Moved(row, i) \in Branch
                           /\ Moved(row, i).tip = i /\ Moved(row, i).fork = row.fork
         /\ \A text \in Contents :
              LET new == [row EXCEPT !.draft = Draft(text)] IN
              /\ new \in Branch
              /\ new.tip = row.tip /\ new.fork = row.fork
<1>1. row # NoBranch
  BY NoRowAssumption
<1>2. NoDraft \in [set : BOOLEAN, content : Contents]
  BY BlankAssumption DEF NoDraft
<1>3. \A i \in Nat : Moved(row, i) \in Branch
  BY <1>2 DEF Moved, Branch
<1>4. \A i \in Nat : Moved(row, i).tip = i /\ Moved(row, i).fork = row.fork
  BY DEF Moved, Branch
<1>5. \A text \in Contents : Draft(text) \in [set : BOOLEAN, content : Contents]
  BY DEF Draft
<1>6. \A text \in Contents : [row EXCEPT !.draft = Draft(text)] \in Branch
  BY <1>5 DEF Branch
<1>7. \A text \in Contents : LET new == [row EXCEPT !.draft = Draft(text)] IN
                              new.tip = row.tip /\ new.fork = row.fork
  BY DEF Branch
<1>8. row.script \in Scripts /\ row.tip \in Nat /\ row.fork \in Nat
  BY DEF Branch
<1>9. QED
  BY <1>1, <1>3, <1>4, <1>6, <1>7, <1>8

LEMMA BranchRow ==
  ASSUME IInv, NEW b, OnBranch(b)
  PROVE  /\ b \in Branches /\ branches[b] \in Branch
         /\ Known(branches[b].tip) /\ Known(branches[b].fork)
  BY DEF IInv, BranchesInv, OnBranch, Known

(* InsertBranch adds a row for a branch that no snapshot belongs to. *)
LEMMA InsertBranchIs ==
  ASSUME IInv, NEW r \in requests, InsertBranch(r)
  PROVE  \E b \in Branches, row \in Branch :
           /\ branches[b] = NoBranch
           /\ branches' = [branches EXCEPT ![b] = row]
           /\ row.tip = r.from /\ row.fork = r.from
           /\ \A q \in requests' : q \in requests \/ (Sound(q)' /\ q.stage # "tip read")
<1>1. Sound(r) /\ r \in Request
  BY DEF IInv, Sound
<1>2. <<r.kind, r.stage>> \in {<<"branch", "sent">>, <<"script", "script row">>}
  BY DEF InsertBranch
<1>3. r.script \in Scripts /\ Known(r.from) /\ r.from \in Nat
  BY <1>1, <1>2, RequestFields DEF Sound
<1>4. PICK b \in Branches :
        /\ branches[b] = NoBranch
        /\ branches' = [branches EXCEPT ![b] =
             [script |-> r.script, tip |-> r.from, draft |-> NoDraft, fork |-> r.from]]
        /\ Replace(r, [r EXCEPT !.branch = b,
                                !.stage = IF r.kind = "branch" THEN "done" ELSE "branch row"])
  BY DEF InsertBranch
<1>5. PICK row : row = [script |-> r.script, tip |-> r.from, draft |-> NoDraft,
                        fork |-> r.from]
  OBVIOUS
<1>6. row \in Branch /\ row.tip = r.from /\ row.fork = r.from
  BY <1>3, <1>5, BlankAssumption DEF Branch, NoDraft
<1>7. PICK stage \in {"done", "branch row"} :
        stage = IF r.kind = "branch" THEN "done" ELSE "branch row"
  OBVIOUS
<1>8. PICK new : new = [r EXCEPT !.branch = b, !.stage = stage]
  OBVIOUS
<1>9. /\ new \in Request /\ new.from = r.from /\ new.kind = r.kind
      /\ new.script = r.script /\ new.branch = b /\ new.stage = stage
  BY <1>1, <1>8 DEF Request
<1>10. branches' = [branches EXCEPT ![b] = row]
  BY <1>4, <1>5
<1>11. OnBranch(b)'
  <2>1. branches'[b] = row
    BY <1>10 DEF IInv, BranchesInv
  <2>2. QED
    BY <1>6, <2>1, RowFacts DEF OnBranch
<1>12. Known(r.from)'
  BY <1>3 DEF Known, InsertBranch
<1>13. Sound(new)' /\ new.stage # "tip read"
  BY <1>3, <1>9, <1>11, <1>12, <1>2 DEF Sound
<1>14. \A q \in requests' : q \in requests \/ q = new
  BY <1>4, <1>7, <1>8 DEF Replace
<1>15. \A q \in requests' : q \in requests \/ (Sound(q)' /\ q.stage # "tip read")
  BY <1>13, <1>14
<1>16. QED
  BY <1>4, <1>6, <1>10, <1>15

LEMMA InsertBranchStep ==
  ASSUME IInv, NEW r \in requests, InsertBranch(r)
  PROVE  IInv' /\ Grows
<1>1. PICK b \in Branches, row \in Branch :
        /\ branches[b] = NoBranch
        /\ branches' = [branches EXCEPT ![b] = row]
        /\ row.tip = r.from /\ row.fork = r.from
        /\ \A q \in requests' : q \in requests \/ Sound(q)'
  BY InsertBranchIs
<1>2. UNCHANGED <<scripts, snaps, sent, clock>>
  BY DEF InsertBranch
<1>3. Known(r.from)
  BY DEF IInv, Sound
<1>4. \A a \in Branches : branches'[a] = IF a = b THEN row ELSE branches[a]
  BY <1>1 DEF IInv, BranchesInv
<1>5. row # NoBranch
  BY RowFacts
<1>6. Grows
  BY <1>1, <1>2, <1>4, SnapFacts DEF Grows
<1>7. SnapsInv'
  BY <1>2 DEF IInv, SnapsInv, Ids
<1>8. BranchesInv'
  <2>1. branches' \in [Branches -> Branch \union {NoBranch}]
    BY <1>1 DEF IInv, BranchesInv
  <2>2. ASSUME NEW a \in Branches, branches'[a] # NoBranch
        PROVE  Known(branches'[a].tip) /\ Known(branches'[a].fork)
    <3>1. CASE a = b
      BY <1>1, <1>3, <1>4, <3>1
    <3>2. CASE a # b
      BY <1>4, <2>2, <3>2, BranchRow DEF OnBranch
    <3>3. QED
      BY <3>1, <3>2
  <2>3. \A i \in Ids : branches'[snaps[i].branch] # NoBranch
    BY <1>4, <1>5, SnapFacts DEF IInv, BranchesInv, Ids
  <2>4. QED
    BY <1>2, <2>1, <2>2, <2>3 DEF BranchesInv, Ids, Known
<1>9. QED
  BY <1>1, <1>2, <1>6, <1>7, <1>8, GrowStep

(* CommitTx appends the request's row and moves its branch's tip to it. *)
LEMMA CommitIs ==
  ASSUME IInv, NEW r \in requests, CommitTx(r)
  PROVE  \E row \in Snapshot, moved \in Branch :
           /\ snaps' = Append(snaps, row)
           /\ row.branch = r.branch /\ row.parent = r.parent
           /\ row.created = r.created /\ row.seen = r.seen
           /\ branches' = [branches EXCEPT ![r.branch] = moved]
           /\ moved.tip = Len(snaps) + 1 /\ moved.fork = branches[r.branch].fork
           /\ \A q \in requests' : q \in requests \/ (Sound(q)' /\ q.stage # "tip read")
<1>1. Sound(r) /\ r \in Request /\ r.stage = "tip read"
  BY DEF IInv, Sound, CommitTx
<1>2. /\ OnBranch(r.branch) /\ Known(r.from)
      /\ r.kind # "script" \/ r.stage # "sent" => r.script \in Scripts
  BY <1>1 DEF Sound
<1>3. PICK row : row = Row(r)
  OBVIOUS
<1>4. /\ row \in Snapshot /\ row.branch = r.branch /\ row.parent = r.parent
      /\ row.created = r.created /\ row.seen = r.seen
  BY <1>1, <1>2, <1>3, RequestFields DEF Row, Snapshot, OnBranch
<1>5. PICK k \in Nat : k = Len(snaps) + 1
  BY SnapFacts
<1>6. branches[r.branch] \in Branch
  BY <1>2, BranchRow
<1>7. PICK moved : moved = Moved(branches[r.branch], k)
  OBVIOUS
<1>8. moved \in Branch /\ moved.tip = k /\ moved.fork = branches[r.branch].fork
  BY <1>6, <1>7, RowFacts
<1>9. snaps' = Append(snaps, row) /\ branches' = [branches EXCEPT ![r.branch] = moved]
  BY <1>3, <1>5, <1>7 DEF CommitTx
<1>10. PICK new : new = [r EXCEPT !.stage = "done"]
  OBVIOUS
<1>11. /\ new \in Request /\ new.from = r.from /\ new.kind = r.kind
       /\ new.script = r.script /\ new.branch = r.branch /\ new.stage = "done"
  BY <1>1, <1>10 DEF Request
<1>12. OnBranch(r.branch)'
  <2>1. branches'[r.branch] = moved
    BY <1>2, <1>9 DEF IInv, BranchesInv, OnBranch
  <2>2. QED
    BY <1>2, <1>8, <2>1, RowFacts DEF OnBranch
<1>13. Known(r.from)'
  <2>1. Len(snaps') = Len(snaps) + 1
    BY <1>4, <1>9 DEF IInv, SnapsInv
  <2>2. r.from \in Nat
    BY <1>1, RequestFields
  <2>3. QED
    BY <1>2, <2>1, <2>2, SnapFacts DEF Known
<1>14. Sound(new)' /\ new.stage # "tip read"
  BY <1>1, <1>2, <1>11, <1>12, <1>13 DEF Sound
<1>15. \A q \in requests' : q \in requests \/ q = new
  BY <1>10 DEF CommitTx, Replace
<1>16. \A q \in requests' : q \in requests \/ (Sound(q)' /\ q.stage # "tip read")
  BY <1>14, <1>15
<1>17. QED
  BY <1>4, <1>5, <1>8, <1>9, <1>16

LEMMA Appended ==
  ASSUME NEW s \in Seq(Snapshot), NEW row \in Snapshot, NEW n \in Nat, n = Len(s)
  PROVE  LET s2 == Append(s, row) IN
         /\ s2 \in Seq(Snapshot)
         /\ Len(s2) = n + 1
         /\ \A i \in 1..n : s2[i] = s[i]
         /\ s2[n + 1] = row
  OBVIOUS

LEMMA CommitStep ==
  ASSUME IInv, NEW r \in requests, CommitTx(r)
  PROVE  IInv' /\ Grows
<1>1. PICK row \in Snapshot, moved \in Branch :
        /\ snaps' = Append(snaps, row)
        /\ row.branch = r.branch /\ row.parent = r.parent
        /\ row.created = r.created /\ row.seen = r.seen
        /\ branches' = [branches EXCEPT ![r.branch] = moved]
        /\ moved.tip = Len(snaps) + 1 /\ moved.fork = branches[r.branch].fork
        /\ \A q \in requests' : q \in requests \/ (Sound(q)' /\ q.stage # "tip read")
  BY CommitIs
<1>2. UNCHANGED <<scripts, sent, clock>>
  BY DEF CommitTx
<1>3. Sound(r) /\ r.stage = "tip read" /\ r \in Request
  BY DEF IInv, Sound, CommitTx
<1>4. OnBranch(r.branch) /\ TipRead(r.parent, r.created, r.seen)
  BY <1>3 DEF Sound
<1>5. PICK n \in Nat : n = Len(snaps)
  BY SnapFacts
<1>6. /\ snaps' \in Seq(Snapshot)
      /\ Len(snaps') = n + 1
      /\ \A i \in 1..n : snaps'[i] = snaps[i]
      /\ snaps'[n + 1] = row
  <2>1. snaps' = Append(snaps, row) /\ snaps \in Seq(Snapshot)
    BY <1>1 DEF IInv, SnapsInv
  <2>2. QED
    BY <1>5, <2>1, Appended
<1>7. \A a \in Branches : branches'[a] = IF a = r.branch THEN moved ELSE branches[a]
  <2>1. branches' = [branches EXCEPT ![r.branch] = moved]
    BY <1>1
  <2>2. QED
    BY <2>1 DEF IInv, BranchesInv
<1>8. moved # NoBranch
  BY RowFacts
<1>9. Grows
  <2>1. ASSUME NEW b \in Branches, branches[b] # NoBranch
        PROVE  branches'[b] # NoBranch /\ branches'[b].fork = branches[b].fork
    BY <1>1, <1>7, <1>8, <2>1
  <2>2. QED
    BY <1>2, <1>5, <1>6, <2>1, SnapFacts DEF Grows
<1>10. /\ row.parent \in 0..n /\ row.created \in Nat /\ row.created <= clock
       /\ row.parent # 0 => snaps[row.parent].created < row.created
  BY <1>1, <1>3, <1>4, <1>5, RequestFields DEF TipRead, Known
<1>11. /\ \A i \in 1..n : snaps[i].parent \in 0..(i - 1) /\ snaps[i].created <= clock
       /\ \A i \in 1..n : snaps[i].parent # 0 =>
             snaps[snaps[i].parent].created < snaps[i].created
  BY <1>5 DEF IInv, SnapsInv, Ids, Grounded
<1>12. SnapsInv'
  <2>1. Grounded(snaps')
    <3>1. ASSUME NEW i \in 1..(n + 1) PROVE snaps'[i].parent \in 0..(i - 1)
      <4>1. CASE i = n + 1
        BY <1>6, <1>10, <4>1
      <4>2. CASE i \in 1..n
        BY <1>6, <1>11, <4>2
      <4>3. QED
        BY <4>1, <4>2
    <3>2. QED
      BY <1>6, <3>1 DEF Grounded
  <2>2. \A i \in 1..(n + 1) : snaps'[i].created <= clock
    BY <1>6, <1>10, <1>11
  <2>3. ASSUME NEW i \in 1..(n + 1), snaps'[i].parent # 0
        PROVE  snaps'[snaps'[i].parent].created < snaps'[i].created
    <3>1. CASE i = n + 1
      BY <1>6, <1>10, <2>3, <3>1
    <3>2. CASE i \in 1..n
      <4>1. PICK p \in 0..(i - 1) : p = snaps[i].parent
        BY <1>11, <3>2
      <4>2. p \in 1..n
        BY <1>6, <2>3, <3>2, <4>1
      <4>3. QED
        BY <1>6, <1>11, <2>3, <3>2, <4>1, <4>2
    <3>3. QED
      BY <3>1, <3>2
  <2>4. QED
    BY <1>2, <1>6, <2>1, <2>2, <2>3 DEF SnapsInv, Ids
<1>13. BranchesInv'
  <2>1. branches' \in [Branches -> Branch \union {NoBranch}]
    BY <1>1 DEF IInv, BranchesInv
  <2>2. ASSUME NEW a \in Branches, branches'[a] # NoBranch
        PROVE  branches'[a].tip \in 0..(n + 1) /\ branches'[a].fork \in 0..(n + 1)
    <3>1. CASE a = r.branch
      <4>1. moved.tip = n + 1 /\ moved.fork = branches[a].fork
        BY <1>1, <1>5, <3>1
      <4>2. branches[a].fork \in 0..n
        BY <1>4, <1>5, <3>1, BranchRow DEF Known
      <4>3. QED
        BY <1>5, <1>7, <3>1, <4>1, <4>2
    <3>2. CASE a # r.branch
      BY <1>5, <1>7, <2>2, <3>2, BranchRow DEF OnBranch, Known
    <3>3. QED
      BY <3>1, <3>2
  <2>3. ASSUME NEW i \in 1..(n + 1) PROVE branches'[snaps'[i].branch] # NoBranch
    <3>1. CASE i = n + 1
      BY <1>1, <1>4, <1>6, <1>7, <1>8, <3>1 DEF OnBranch
    <3>2. CASE i \in 1..n
      BY <1>5, <1>6, <1>7, <1>8, <3>2, SnapFacts DEF IInv, BranchesInv, Ids
    <3>3. QED
      BY <3>1, <3>2
  <2>4. QED
    BY <1>6, <2>1, <2>2, <2>3 DEF BranchesInv, Ids
<1>14. \A q \in requests' : q \in requests \/ Sound(q)'
  BY <1>1
<1>15. QED
  BY <1>2, <1>9, <1>12, <1>13, <1>14, GrowStep

LEMMA SaveDraftIs ==
  ASSUME IInv, NEW r \in requests, SaveDraft(r)
  PROVE  \E row \in Branch :
           /\ OnBranch(r.branch)
           /\ branches' = [branches EXCEPT ![r.branch] = row]
           /\ row.tip = branches[r.branch].tip /\ row.fork = branches[r.branch].fork
           /\ \A q \in requests' : q \in requests \/ (Sound(q)' /\ q.stage # "tip read")
<1>1. Sound(r) /\ r \in Request /\ r.kind = "draft"
  BY DEF IInv, Sound, SaveDraft
<1>2. OnBranch(r.branch) /\ Known(r.from) /\ r.script \in Scripts /\ r.content \in Contents
  BY <1>1, RequestFields DEF Sound
<1>3. branches[r.branch] \in Branch
  BY <1>2, BranchRow
<1>4. PICK text \in Contents : text = r.content
  BY <1>2
<1>5. PICK row : row = [branches[r.branch] EXCEPT !.draft = Draft(text)]
  OBVIOUS
<1>6. /\ row \in Branch
      /\ row.tip = branches[r.branch].tip /\ row.fork = branches[r.branch].fork
  BY <1>3, <1>5, RowFacts
<1>7. branches' = [branches EXCEPT ![r.branch] = row]
  BY <1>4, <1>5 DEF SaveDraft
<1>8. PICK new : new = [r EXCEPT !.stage = "done"]
  OBVIOUS
<1>9. /\ new \in Request /\ new.from = r.from /\ new.kind = r.kind
      /\ new.script = r.script /\ new.branch = r.branch /\ new.stage = "done"
  BY <1>1, <1>8 DEF Request
<1>10. OnBranch(r.branch)'
  <2>1. branches'[r.branch] = row
    BY <1>2, <1>7 DEF IInv, BranchesInv, OnBranch
  <2>2. QED
    BY <1>2, <1>6, <2>1, RowFacts DEF OnBranch
<1>11. Known(r.from)'
  BY <1>2 DEF Known, SaveDraft
<1>12. Sound(new)' /\ new.stage # "tip read"
  BY <1>2, <1>9, <1>10, <1>11 DEF Sound
<1>13. \A q \in requests' : q \in requests \/ q = new
  BY <1>8 DEF SaveDraft, Replace
<1>14. \A q \in requests' : q \in requests \/ (Sound(q)' /\ q.stage # "tip read")
  BY <1>12, <1>13
<1>15. QED
  BY <1>2, <1>6, <1>7, <1>14

LEMMA SaveDraftStep ==
  ASSUME IInv, NEW r \in requests, SaveDraft(r)
  PROVE  IInv' /\ Grows
<1>1. PICK row \in Branch :
        /\ OnBranch(r.branch)
        /\ branches' = [branches EXCEPT ![r.branch] = row]
        /\ row.tip = branches[r.branch].tip /\ row.fork = branches[r.branch].fork
        /\ \A q \in requests' : q \in requests \/ (Sound(q)' /\ q.stage # "tip read")
  BY SaveDraftIs
<1>2. UNCHANGED <<scripts, snaps, sent, clock>>
  BY DEF SaveDraft
<1>3. \A a \in Branches : branches'[a] = IF a = r.branch THEN row ELSE branches[a]
  <2>1. branches' = [branches EXCEPT ![r.branch] = row]
    BY <1>1
  <2>2. QED
    BY <2>1 DEF IInv, BranchesInv
<1>4. row # NoBranch
  BY RowFacts
<1>5. ASSUME NEW a \in Branches
      PROVE  /\ branches'[a] # NoBranch <=> branches[a] # NoBranch
             /\ branches[a] # NoBranch =>
                  branches'[a].tip = branches[a].tip /\ branches'[a].fork = branches[a].fork
  BY <1>1, <1>3, <1>4 DEF OnBranch
<1>6. Grows
  BY <1>2, <1>5, SnapFacts DEF Grows
<1>7. SnapsInv'
  BY <1>2 DEF IInv, SnapsInv, Ids
<1>8. BranchesInv'
  <2>1. branches' \in [Branches -> Branch \union {NoBranch}]
    BY <1>1 DEF IInv, BranchesInv
  <2>2. \A a \in Branches : branches'[a] # NoBranch =>
          branches'[a].tip \in 0..Len(snaps) /\ branches'[a].fork \in 0..Len(snaps)
    BY <1>5 DEF IInv, BranchesInv
  <2>3. \A i \in Ids : branches'[snaps[i].branch] # NoBranch
    BY <1>5, SnapFacts DEF IInv, BranchesInv, Ids
  <2>4. QED
    BY <1>2, <2>1, <2>2, <2>3 DEF BranchesInv, Ids
<1>9. \A q \in requests' : q \in requests \/ Sound(q)'
  BY <1>1
<1>10. QED
  BY <1>2, <1>6, <1>7, <1>8, <1>9, GrowStep

-----------------------------------------------------------------------------
LEMMA InitIInv == Init => IInv
<1> SUFFICES ASSUME Init PROVE IInv
  OBVIOUS
<1>1. snaps = <<>> /\ Len(snaps) = 0 /\ clock = 0 /\ sent = 0 /\ scripts = {} /\ requests = {}
  BY DEF Init
<1>2. SnapsInv
  BY <1>1 DEF SnapsInv, Grounded, Ids
<1>3. BranchesInv
  BY <1>1 DEF BranchesInv, Ids, Init
<1>4. QED
  BY <1>1, <1>2, <1>3, BoundAssumption DEF IInv

LEMMA SendAnyStep ==
  ASSUME IInv, NEW c \in Clients,
         \/ SendCreateScript(c)
         \/ \E s \in Scripts : \E from \in 0..Len(snaps) : SendCreateBranch(c, s, from)
         \/ \E b \in Branches, text \in Contents :
              (\E s \in Scripts : SendCommit(c, s, b, text)) \/ SendSaveDraft(c, b, text)
  PROVE  IInv' /\ UNCHANGED <<branches, snaps, clock>>
         /\ \A q \in requests' : q \in requests \/ q.stage = "sent"
<1>1. Known(0)
  BY SnapFacts DEF Known
<1>2. CASE SendCreateScript(c)
  <2>1. Send(c, "script", NoScript, NoBranch, Blank, 0)
    BY <1>2 DEF SendCreateScript
  <2>2. IInv'
    BY <1>1, <2>1, SendStep, BlankAssumption
  <2>3. QED
    BY <2>1, <2>2 DEF Send
<1>3. ASSUME NEW s \in Scripts, NEW from \in 0..Len(snaps), SendCreateBranch(c, s, from)
      PROVE  IInv' /\ UNCHANGED <<branches, snaps, clock>>
             /\ \A q \in requests' : q \in requests \/ q.stage = "sent"
  <2>1. Send(c, "branch", s, NoBranch, Blank, from)
    BY <1>3 DEF SendCreateBranch
  <2>2. from \in Nat /\ Known(from)
    BY <1>3, SnapFacts DEF Known
  <2>3. IInv'
    BY <2>1, <2>2, SendStep, BlankAssumption
  <2>4. QED
    BY <2>1, <2>3 DEF Send
<1>4. ASSUME NEW s \in Scripts, NEW b \in Branches, NEW text \in Contents,
             SendCommit(c, s, b, text)
      PROVE  IInv' /\ UNCHANGED <<branches, snaps, clock>>
             /\ \A q \in requests' : q \in requests \/ q.stage = "sent"
  <2>1. Send(c, "commit", s, b, text, 0) /\ OnBranch(b)
    BY <1>4 DEF SendCommit, OnBranch
  <2>2. IInv'
    BY <1>1, <2>1, SendStep
  <2>3. QED
    BY <2>1, <2>2 DEF Send
<1>5. ASSUME NEW b \in Branches, NEW text \in Contents, SendSaveDraft(c, b, text)
      PROVE  IInv' /\ UNCHANGED <<branches, snaps, clock>>
             /\ \A q \in requests' : q \in requests \/ q.stage = "sent"
  <2>1. OnBranch(b) /\ Send(c, "draft", branches[b].script, b, text, 0)
    BY <1>5 DEF SendSaveDraft, OnBranch
  <2>2. PICK s \in Scripts : s = branches[b].script
    BY <2>1, BranchRow, RowFacts
  <2>3. Send(c, "draft", s, b, text, 0)
    BY <2>1, <2>2
  <2>4. IInv'
    BY <1>1, <2>1, <2>3, SendStep
  <2>5. QED
    BY <2>1, <2>4 DEF Send
<1>6. QED
  BY <1>2, <1>3, <1>4, <1>5

LEMMA StepIInv == IInv /\ [Next]_vars => IInv'
<1> SUFFICES ASSUME IInv, [Next]_vars PROVE IInv'
  OBVIOUS
<1>1. ASSUME NEW c \in Clients,
         \/ SendCreateScript(c)
         \/ \E s \in Scripts : \E from \in 0..Len(snaps) : SendCreateBranch(c, s, from)
         \/ \E b \in Branches, text \in Contents :
              (\E s \in Scripts : SendCommit(c, s, b, text)) \/ SendSaveDraft(c, b, text)
      PROVE  IInv'
  BY <1>1, SendAnyStep
<1>2. ASSUME NEW r \in requests, Serve(r) \/ Deliver(r) PROVE IInv'
  BY <1>2, ServeStep, InsertBranchStep, CommitStep, SaveDraftStep DEF Serve
<1>3. CASE UNCHANGED vars
  <2>1. \A q \in requests' : q \in requests
    BY <1>3 DEF vars
  <2>2. UNCHANGED <<scripts, branches, snaps, sent, clock>>
    BY <1>3 DEF vars
  <2>3. QED
    BY <2>1, <2>2, RequestStep, SnapFacts DEF IInv
<1>4. QED
  BY <1>1, <1>2, <1>3 DEF Next

THEOREM Inductive == Spec => []IInv
  BY InitIInv, StepIInv, PTL DEF Spec

(* Every variable keeps its type, in every state of any instance: no handler  *)
(* ever stores a row for a script or a branch that is not there.              *)
THEOREM TypeCorrect == Spec => []TypeOK
<1>1. IInv => TypeOK
  BY DEF IInv, SnapsInv, BranchesInv, Sound, TypeOK
<1>2. QED
  BY <1>1, Inductive, PTL

(* History's chain always ends, is made of stored snapshots, and is newest    *)
(* first, however commits and branch creations interleave.                    *)
THEOREM HistoryIsAChain == Spec => []AncestryWellFormed
<1>1. ASSUME IInv PROVE AncestryWellFormed
  <2>1. ASSUME NEW i \in Ids, snaps[i].parent # 0
        PROVE  /\ snaps[i].parent \in 1..(i - 1)
               /\ snaps[snaps[i].parent].created < snaps[i].created
    BY <1>1, <2>1 DEF IInv, SnapsInv, Grounded, Ids
  <2>2. QED
    BY <1>1, <2>1 DEF AncestryWellFormed, IInv, BranchesInv
<1>2. QED
  BY <1>1, Inductive, PTL

-----------------------------------------------------------------------------
(* The strengthening of UncontestedCommitsKept and BranchIsolation: what they *)
(* say of a branch's tip they say, as of the moment it was read, of the       *)
(* parent a commit holds between its two steps.                               *)
KeptIn(s, b, t, n) ==
  \A i \in 1..n :
    /\ s[i].branch = b
    /\ \A k \in 1..n : k > i /\ s[k].branch = b => s[k].seen >= i
    => i \in HistoryIn(s, t)
IsolatedIn(s, b, t, f) ==
  \A i \in HistoryIn(s, t) : s[i].branch = b \/ i \in HistoryIn(s, f)
Anchored(s, b, t, n, f) == KeptIn(s, b, t, n) /\ IsolatedIn(s, b, t, f)

RowAnchored(b) ==
  branches[b] # NoBranch =>
    Anchored(snaps, b, branches[b].tip, Len(snaps), branches[b].fork)
RequestAnchored(r) ==
  r.stage = "tip read" =>
    Anchored(snaps, r.branch, r.parent, r.seen, branches[r.branch].fork)
AInv ==
  /\ \A b \in Branches : RowAnchored(b)
  /\ \A r \in requests : RequestAnchored(r)

LEMMA AnchoredStays ==
  ASSUME NEW s \in Seq(Snapshot), Grounded(s), NEW row \in Snapshot,
         NEW b, NEW t \in 0..Len(s), NEW n \in 0..Len(s), NEW f \in 0..Len(s),
         Anchored(s, b, t, n, f)
  PROVE  Anchored(Append(s, row), b, t, n, f)
<1> DEFINE s2 == Append(s, row)
<1>1. HistoryIn(s2, t) = HistoryIn(s, t) /\ HistoryIn(s2, f) = HistoryIn(s, f)
  BY OldHistory
<1>2. \A i \in 1..Len(s) : s2[i] = s[i]
  OBVIOUS
<1>3. Len(s) \in Nat /\ \A i \in 1..n : i \in 1..Len(s)
  OBVIOUS
<1>4. \A i \in HistoryIn(s, t) : i \in 1..Len(s)
  BY DEF HistoryIn
<1> HIDE DEF s2
<1>5. KeptIn(s2, b, t, n)
  BY <1>1, <1>2, <1>3 DEF Anchored, KeptIn
<1>6. IsolatedIn(s2, b, t, f)
  BY <1>1, <1>2, <1>4 DEF Anchored, IsolatedIn
<1>7. QED
  BY <1>5, <1>6 DEF Anchored, s2

(* A commit to another branch. *)
LEMMA AnchoredElsewhere ==
  ASSUME NEW s \in Seq(Snapshot), Grounded(s), NEW row \in Snapshot,
         NEW b, row.branch # b, NEW t \in 0..Len(s), NEW f \in 0..Len(s),
         NEW n \in Nat, n = Len(s), Anchored(s, b, t, n, f)
  PROVE  Anchored(Append(s, row), b, t, n + 1, f)
<1> DEFINE s2 == Append(s, row)
<1>1. Anchored(s2, b, t, n, f)
  BY AnchoredStays
<1>2. s2[n + 1].branch # b
  OBVIOUS
<1> HIDE DEF s2
<1>3. KeptIn(s2, b, t, n) /\ IsolatedIn(s2, b, t, f)
  BY <1>1 DEF Anchored
<1>4. KeptIn(s2, b, t, n + 1)
  <2>1. ASSUME NEW i \in 1..(n + 1), s2[i].branch = b,
               \A k \in 1..(n + 1) : k > i /\ s2[k].branch = b => s2[k].seen >= i
        PROVE  i \in HistoryIn(s2, t)
    <3>1. i \in 1..n
      BY <1>2, <2>1
    <3>2. \A k \in 1..n : k > i /\ s2[k].branch = b => s2[k].seen >= i
      BY <2>1
    <3>3. QED
      BY <1>3, <2>1, <3>1, <3>2 DEF KeptIn
  <2>2. QED
    BY <2>1 DEF KeptIn
<1>5. QED
  BY <1>3, <1>4 DEF Anchored, s2

(* A commit to the branch: what held of the parent it read holds of the row. *)
LEMMA AnchoredCommit ==
  ASSUME NEW s \in Seq(Snapshot), Grounded(s), NEW row \in Snapshot,
         NEW f \in 0..Len(s), NEW n \in Nat, n = Len(s),
         row.parent \in 0..n, row.seen \in 0..n,
         Anchored(s, row.branch, row.parent, row.seen, f)
  PROVE  Anchored(Append(s, row), row.branch, n + 1, n + 1, f)
<1> DEFINE s2 == Append(s, row)
           b == row.branch
           m == row.seen
<1>1. HistoryIn(s2, n + 1) = {n + 1} \union HistoryIn(s, row.parent)
  BY NewHistory
<1>2. HistoryIn(s2, f) = HistoryIn(s, f)
  BY OldHistory
<1>3. s2[n + 1] = row /\ \A i \in 1..n : s2[i] = s[i]
  OBVIOUS
<1>4. KeptIn(s, b, row.parent, m) /\ IsolatedIn(s, b, row.parent, f) /\ m \in 0..n
  BY DEF Anchored
<1>5. \A i \in HistoryIn(s, row.parent) : i \in 1..n
  BY DEF HistoryIn
<1>6. s2[n + 1].branch = b /\ s2[n + 1].seen = m
  BY <1>3
<1> HIDE DEF s2, b, m
<1>7. KeptIn(s2, b, n + 1, n + 1)
  <2>1. ASSUME NEW i \in 1..(n + 1), s2[i].branch = b,
               \A k \in 1..(n + 1) : k > i /\ s2[k].branch = b => s2[k].seen >= i
        PROVE  i \in HistoryIn(s2, n + 1)
    <3>1. CASE i = n + 1
      BY <1>1, <3>1
    <3>2. CASE i # n + 1
      <4>1. m >= i
        BY <1>6, <2>1, <3>2
      <4>2. i \in 1..m
        BY <1>4, <4>1
      <4>3. \A k \in 1..m : k \in 1..n
        BY <1>4
      <4>4. s[i].branch = b
        BY <1>3, <2>1, <4>2, <4>3
      <4>5. \A k \in 1..m : k > i /\ s[k].branch = b => s[k].seen >= i
        BY <1>3, <2>1, <4>3
      <4>6. QED
        BY <1>1, <1>4, <4>2, <4>4, <4>5 DEF KeptIn
    <3>3. QED
      BY <3>1, <3>2
  <2>2. QED
    BY <2>1 DEF KeptIn
<1>8. IsolatedIn(s2, b, n + 1, f)
  BY <1>1, <1>2, <1>3, <1>4, <1>5, <1>6 DEF IsolatedIn
<1>9. QED
  BY <1>7, <1>8 DEF Anchored, s2, b

-----------------------------------------------------------------------------
LEMMA AnchoredSame ==
  ASSUME AInv, UNCHANGED <<branches, snaps>>,
         \A q \in requests' : q \in requests \/ q.stage # "tip read"
  PROVE  AInv'
<1>1. \A b \in Branches : RowAnchored(b)'
  BY DEF AInv, RowAnchored
<1>2. ASSUME NEW q \in requests' PROVE RequestAnchored(q)'
  <2>1. CASE q \in requests
    <3>1. RequestAnchored(q)
      BY <2>1 DEF AInv
    <3>2. QED
      BY <3>1 DEF RequestAnchored
  <2>2. CASE q.stage # "tip read"
    BY <2>2 DEF RequestAnchored
  <2>3. QED
    BY <1>2, <2>1, <2>2
<1>3. QED
  BY <1>1, <1>2 DEF AInv

LEMMA AnchoredReadTip ==
  ASSUME IInv, AInv, NEW r \in requests, ReadTip(r)
  PROVE  AInv'
<1>1. Sound(r) /\ r \in Request
  BY DEF IInv, Sound
<1>2. OnBranch(r.branch)
  BY <1>1 DEF ReadTip, AtCommit, Sound
<1>3. PICK p \in Nat : p = branches[r.branch].tip
  BY <1>2, BranchRow, RowFacts
<1>4. PICK n \in Nat : n = Len(snaps)
  BY SnapFacts
<1>5. PICK t \in Nat : t = clock + 1
  BY SnapFacts
<1>6. PICK new : new = [r EXCEPT !.stage = "tip read", !.parent = p,
                                 !.created = t, !.seen = n]
  OBVIOUS
<1>7. new.branch = r.branch /\ new.parent = p /\ new.seen = n
  BY <1>1, <1>6 DEF Request
<1>8. UNCHANGED <<branches, snaps>> /\ Replace(r, new)
  BY <1>3, <1>4, <1>5, <1>6 DEF ReadTip
<1>9. Anchored(snaps, r.branch, p, n, branches[r.branch].fork)
  BY <1>2, <1>3, <1>4 DEF AInv, RowAnchored, OnBranch
<1>10. RequestAnchored(new)'
  BY <1>7, <1>8, <1>9 DEF RequestAnchored
<1>11. \A b \in Branches : RowAnchored(b)'
  BY <1>8 DEF AInv, RowAnchored
<1>12. ASSUME NEW q \in requests PROVE RequestAnchored(q)'
  <2>1. RequestAnchored(q)
    BY DEF AInv
  <2>2. QED
    BY <1>8, <2>1 DEF RequestAnchored
<1>13. QED
  BY <1>8, <1>10, <1>11, <1>12 DEF AInv, Replace

(* A new branch has no commit of its own, and its tip is its fork. *)
LEMMA AnchoredInsertBranch ==
  ASSUME IInv, AInv, NEW r \in requests, InsertBranch(r)
  PROVE  AInv'
<1>1. PICK b \in Branches, row \in Branch :
        /\ branches[b] = NoBranch
        /\ branches' = [branches EXCEPT ![b] = row]
        /\ row.tip = r.from /\ row.fork = r.from
        /\ \A q \in requests' : q \in requests \/ (Sound(q)' /\ q.stage # "tip read")
  BY InsertBranchIs
<1>2. UNCHANGED snaps
  BY DEF InsertBranch
<1>3. \A a \in Branches : branches'[a] = IF a = b THEN row ELSE branches[a]
  BY <1>1 DEF IInv, BranchesInv
<1>4. \A i \in 1..Len(snaps) : snaps[i].branch # b
  BY <1>1 DEF IInv, BranchesInv, Ids
<1>5. RowAnchored(b)'
  BY <1>1, <1>2, <1>3, <1>4 DEF RowAnchored, Anchored, KeptIn, IsolatedIn
<1>6. ASSUME NEW a \in Branches, a # b PROVE RowAnchored(a)'
  <2>1. RowAnchored(a) /\ branches'[a] = branches[a]
    BY <1>3, <1>6 DEF AInv
  <2>2. QED
    BY <1>2, <2>1 DEF RowAnchored
<1>7. ASSUME NEW q \in requests PROVE RequestAnchored(q)'
  <2>1. RequestAnchored(q) /\ Sound(q)
    BY DEF AInv, IInv
  <2>2. q.stage = "tip read" => OnBranch(q.branch)
    BY <2>1 DEF Sound
  <2>3. q.stage = "tip read" => branches'[q.branch] = branches[q.branch]
    BY <1>1, <1>3, <2>2 DEF OnBranch
  <2>4. QED
    BY <1>2, <2>1, <2>3 DEF RequestAnchored
<1>8. ASSUME NEW q, q.stage # "tip read" PROVE RequestAnchored(q)'
  BY <1>8 DEF RequestAnchored
<1>9. QED
  BY <1>1, <1>5, <1>6, <1>7, <1>8 DEF AInv

LEMMA AnchoredSaveDraft ==
  ASSUME IInv, AInv, NEW r \in requests, SaveDraft(r)
  PROVE  AInv'
<1>1. PICK row \in Branch :
        /\ OnBranch(r.branch)
        /\ branches' = [branches EXCEPT ![r.branch] = row]
        /\ row.tip = branches[r.branch].tip /\ row.fork = branches[r.branch].fork
        /\ \A q \in requests' : q \in requests \/ (Sound(q)' /\ q.stage # "tip read")
  BY SaveDraftIs
<1>2. UNCHANGED snaps
  BY DEF SaveDraft
<1>3. \A a \in Branches : branches'[a] = IF a = r.branch THEN row ELSE branches[a]
  <2>1. branches' = [branches EXCEPT ![r.branch] = row]
    BY <1>1
  <2>2. QED
    BY <2>1 DEF IInv, BranchesInv
<1>4. ASSUME NEW a \in Branches, branches[a] # NoBranch
      PROVE  branches'[a].tip = branches[a].tip /\ branches'[a].fork = branches[a].fork
  BY <1>1, <1>3
<1>5. ASSUME NEW a \in Branches PROVE RowAnchored(a)'
  <2>1. RowAnchored(a)
    BY DEF AInv
  <2>2. branches'[a] # NoBranch => branches[a] # NoBranch
    BY <1>1, <1>3 DEF OnBranch
  <2>3. QED
    BY <1>2, <1>4, <2>1, <2>2 DEF RowAnchored
<1>6. ASSUME NEW q \in requests PROVE RequestAnchored(q)'
  <2>1. RequestAnchored(q) /\ Sound(q)
    BY DEF AInv, IInv
  <2>2. q.stage = "tip read" => OnBranch(q.branch)
    BY <2>1 DEF Sound
  <2>3. q.stage = "tip read" => branches'[q.branch].fork = branches[q.branch].fork
    BY <1>4, <2>2 DEF OnBranch
  <2>4. QED
    BY <1>2, <2>1, <2>3 DEF RequestAnchored
<1>7. ASSUME NEW q, q.stage # "tip read" PROVE RequestAnchored(q)'
  BY <1>7 DEF RequestAnchored
<1>8. QED
  BY <1>1, <1>5, <1>6, <1>7 DEF AInv

LEMMA AnchoredCommitTx ==
  ASSUME IInv, AInv, NEW r \in requests, CommitTx(r)
  PROVE  AInv'
<1>1. PICK row \in Snapshot, moved \in Branch :
        /\ snaps' = Append(snaps, row)
        /\ row.branch = r.branch /\ row.parent = r.parent
        /\ row.created = r.created /\ row.seen = r.seen
        /\ branches' = [branches EXCEPT ![r.branch] = moved]
        /\ moved.tip = Len(snaps) + 1 /\ moved.fork = branches[r.branch].fork
        /\ \A q \in requests' : q \in requests \/ (Sound(q)' /\ q.stage # "tip read")
  BY CommitIs
<1>2. Sound(r) /\ r.stage = "tip read" /\ RequestAnchored(r)
  BY DEF IInv, AInv, CommitTx
<1>3. OnBranch(r.branch) /\ TipRead(r.parent, r.created, r.seen)
  BY <1>2 DEF Sound
<1>4. PICK n \in Nat : n = Len(snaps)
  BY SnapFacts
<1>5. snaps \in Seq(Snapshot) /\ Grounded(snaps)
  BY DEF IInv, SnapsInv
<1>6. PICK f : f = branches[r.branch].fork
  OBVIOUS
<1>7. f \in 0..n /\ row.parent \in 0..n /\ row.seen \in 0..n
  BY <1>1, <1>3, <1>4, <1>6, BranchRow DEF TipRead, Known
<1>8. \A a \in Branches : branches'[a] = IF a = r.branch THEN moved ELSE branches[a]
  <2>1. branches' = [branches EXCEPT ![r.branch] = moved]
    BY <1>1
  <2>2. QED
    BY <2>1 DEF IInv, BranchesInv
<1>9. Len(snaps') = n + 1
  <2>1. snaps' = Append(snaps, row)
    BY <1>1
  <2>2. QED
    BY <1>4, <1>5, <2>1, Appended
<1>10. Anchored(snaps, row.branch, row.parent, row.seen, f)
  BY <1>1, <1>2, <1>6 DEF RequestAnchored
<1>11. Anchored(snaps', row.branch, n + 1, n + 1, f)
  BY <1>1, <1>4, <1>5, <1>7, <1>10, AnchoredCommit
<1>12. RowAnchored(r.branch)'
  <2>1. /\ branches'[r.branch].tip = n + 1 /\ branches'[r.branch].fork = f
        /\ row.branch = r.branch
    BY <1>1, <1>3, <1>4, <1>6, <1>8 DEF OnBranch
  <2>2. QED
    BY <1>9, <1>11, <2>1 DEF RowAnchored
<1>13. ASSUME NEW a \in Branches, a # r.branch PROVE RowAnchored(a)'
  <2>1. RowAnchored(a) /\ branches'[a] = branches[a]
    BY <1>8, <1>13 DEF AInv
  <2>2. SUFFICES ASSUME branches[a] # NoBranch
                 PROVE  Anchored(snaps', a, branches[a].tip, n + 1, branches[a].fork)
    BY <1>9, <2>1 DEF RowAnchored
  <2>3. Anchored(snaps, a, branches[a].tip, n, branches[a].fork)
    BY <1>4, <2>1, <2>2 DEF RowAnchored
  <2>4. PICK t \in 0..n, g \in 0..n : t = branches[a].tip /\ g = branches[a].fork
    BY <1>4, <2>2, BranchRow DEF OnBranch, Known
  <2>5. row.branch # a
    BY <1>1, <1>13
  <2>6. Anchored(snaps', a, t, n + 1, g)
    BY <1>1, <1>4, <1>5, <2>3, <2>4, <2>5, AnchoredElsewhere
  <2>7. QED
    BY <2>4, <2>6
<1>14. ASSUME NEW q \in requests PROVE RequestAnchored(q)'
  <2>1. RequestAnchored(q) /\ Sound(q)
    BY DEF AInv, IInv
  <2>2. SUFFICES ASSUME q.stage = "tip read" PROVE RequestAnchored(q)'
    BY DEF RequestAnchored
  <2>3. OnBranch(q.branch) /\ TipRead(q.parent, q.created, q.seen)
    BY <2>1, <2>2 DEF Sound
  <2>4. branches'[q.branch].fork = branches[q.branch].fork
    BY <1>1, <1>8, <2>3 DEF OnBranch
  <2>5. PICK g \in 0..n : g = branches[q.branch].fork
    BY <1>4, <2>3, BranchRow DEF Known
  <2>6. q.parent \in 0..n /\ q.seen \in 0..n
    BY <1>4, <2>3 DEF TipRead, Known
  <2>7. Anchored(snaps, q.branch, q.parent, q.seen, g)
    BY <2>1, <2>2, <2>5 DEF RequestAnchored
  <2>8. Anchored(snaps', q.branch, q.parent, q.seen, g)
    BY <1>1, <1>4, <1>5, <2>6, <2>7, AnchoredStays
  <2>9. QED
    BY <2>4, <2>5, <2>8 DEF RequestAnchored
<1>15. ASSUME NEW q, q.stage # "tip read" PROVE RequestAnchored(q)'
  BY <1>15 DEF RequestAnchored
<1>16. QED
  BY <1>1, <1>12, <1>13, <1>14, <1>15 DEF AInv

-----------------------------------------------------------------------------
LEMMA StepAInv == IInv /\ AInv /\ [Next]_vars => AInv'
<1> SUFFICES ASSUME IInv, AInv, [Next]_vars PROVE AInv'
  OBVIOUS
<1>1. ASSUME NEW c \in Clients,
         \/ SendCreateScript(c)
         \/ \E s \in Scripts : \E from \in 0..Len(snaps) : SendCreateBranch(c, s, from)
         \/ \E b \in Branches, text \in Contents :
              (\E s \in Scripts : SendCommit(c, s, b, text)) \/ SendSaveDraft(c, b, text)
      PROVE  AInv'
  <2>1. /\ UNCHANGED <<branches, snaps>>
        /\ \A q \in requests' : q \in requests \/ q.stage = "sent"
    BY <1>1, SendAnyStep
  <2>2. QED
    BY <2>1, AnchoredSame
<1>2. ASSUME NEW r \in requests, InsertScript(r) PROVE AInv'
  <2>1. PICK s \in Scripts : Replace(r, [r EXCEPT !.script = s, !.stage = "script row"])
    BY <1>2 DEF InsertScript
  <2>2. PICK new : new = [r EXCEPT !.script = s, !.stage = "script row"]
    OBVIOUS
  <2>3. r \in Request
    BY DEF IInv, Sound
  <2>4. new.stage = "script row"
    BY <2>2, <2>3 DEF Request
  <2>5. Replace(r, new)
    BY <2>1, <2>2
  <2>6. \A q \in requests' : q \in requests \/ q.stage # "tip read"
    BY <2>4, <2>5 DEF Replace
  <2>7. QED
    BY <1>2, <2>6, AnchoredSame DEF InsertScript
<1>3. ASSUME NEW r \in requests, RefuseCommit(r) \/ RequestFails(r) \/ Deliver(r)
      PROVE  AInv'
  BY <1>3, AnchoredSame DEF RefuseCommit, RequestFails, Deliver
<1>4. ASSUME NEW r \in requests, Serve(r) \/ Deliver(r) PROVE AInv'
  <2>1. CASE InsertScript(r) \/ RefuseCommit(r) \/ RequestFails(r) \/ Deliver(r)
    BY <1>2, <1>3, <2>1
  <2>2. CASE ReadTip(r) \/ InsertBranch(r)
    BY <2>2, AnchoredReadTip, AnchoredInsertBranch
  <2>3. CASE SaveDraft(r) \/ CommitTx(r)
    BY <2>3, AnchoredSaveDraft, AnchoredCommitTx
  <2>4. QED
    BY <1>4, <2>1, <2>2, <2>3 DEF Serve
<1>5. CASE UNCHANGED vars
  BY <1>5, AnchoredSame DEF vars
<1>6. QED
  BY <1>1, <1>4, <1>5 DEF Next

LEMMA InitAInv == Init => AInv
  BY DEF Init, AInv, RowAnchored

THEOREM AnchoredInductive == Spec => [](IInv /\ AInv)
  BY InitIInv, InitAInv, StepIInv, StepAInv, PTL DEF Spec

(* Commits to a branch that do not overlap lose nothing: a snapshot is in its *)
(* branch's history unless a commit that had read the tip before it was       *)
(* stored came after it.                                                      *)
THEOREM OnlyRacesLoseCommits == Spec => []UncontestedCommitsKept
<1>1. ASSUME IInv, AInv PROVE UncontestedCommitsKept
  <2>1. SUFFICES ASSUME NEW i \in 1..Len(snaps), Uncontested(i)
                 PROVE  i \in History(branches[snaps[i].branch].tip)
    BY DEF UncontestedCommitsKept, Ids
  <2>2. PICK b \in Branches : b = snaps[i].branch
    BY <1>1, SnapFacts
  <2>3. branches[b] # NoBranch
    BY <1>1, <2>2 DEF IInv, BranchesInv, Ids
  <2>4. KeptIn(snaps, b, branches[b].tip, Len(snaps))
    BY <1>1, <2>3 DEF AInv, RowAnchored, Anchored
  <2>5. \A k \in 1..Len(snaps) : k > i /\ snaps[k].branch = b => snaps[k].seen >= i
    <3>1. \A k \in 1..Len(snaps) : k > i => k \in (i + 1)..Len(snaps)
      BY <1>1, SnapFacts
    <3>2. QED
      BY <2>1, <2>2, <3>1 DEF Uncontested
  <2>6. i \in HistoryIn(snaps, branches[b].tip)
    BY <2>2, <2>4, <2>5 DEF KeptIn
  <2>7. QED
    BY <2>2, <2>6, HistoryOfSnaps
<1>2. QED
  BY <1>1, AnchoredInductive, PTL

(* A branch's history is its own commits and the history it was created with. *)
THEOREM BranchesAreIsolated == Spec => []BranchIsolation
<1>1. ASSUME IInv, AInv PROVE BranchIsolation
  <2>1. ASSUME NEW b \in Branches, branches[b] # NoBranch,
               NEW i \in History(branches[b].tip)
        PROVE  snaps[i].branch = b \/ i \in History(branches[b].fork)
    <3>1. IsolatedIn(snaps, b, branches[b].tip, branches[b].fork)
      BY <1>1, <2>1 DEF AInv, RowAnchored, Anchored
    <3>2. QED
      BY <2>1, <3>1, HistoryOfSnaps DEF IsolatedIn
  <2>2. QED
    BY <2>1 DEF BranchIsolation
<1>2. QED
  BY <1>1, AnchoredInductive, PTL

-----------------------------------------------------------------------------
(* The strengthening of DoneScriptsHaveAPilot: how far a script's creation is *)
(* tells what it has stored, and what is stored stays.                        *)
PilotMade(r) ==
  r.kind = "script" /\ r.stage # "sent" =>
    /\ r.script \in scripts
    /\ r.stage # "script row" =>
         OnBranch(r.branch) /\ branches[r.branch].script = r.script
    /\ r.stage = "done" => branches[r.branch].tip # 0
PInv == \A r \in requests : PilotMade(r)

(* No step removes a script's row, gives a branch to another script, or takes *)
(* a branch's snapshots away.                                                 *)
Keeps ==
  /\ scripts \subseteq scripts'
  /\ \A b \in Branches : branches[b] # NoBranch =>
       /\ branches'[b] # NoBranch /\ branches'[b].script = branches[b].script
       /\ branches[b].tip # 0 => branches'[b].tip # 0

LEMMA PilotStays ==
  ASSUME Keeps, NEW r, PilotMade(r)
  PROVE  PilotMade(r)'
  BY DEF Keeps, PilotMade, OnBranch

LEMMA PilotStep ==
  ASSUME PInv, Keeps, \A q \in requests' : q \in requests \/ PilotMade(q)'
  PROVE  PInv'
<1>1. ASSUME NEW q \in requests' PROVE PilotMade(q)'
  BY <1>1, PilotStays DEF PInv
<1>2. QED
  BY <1>1 DEF PInv

(* Replacing the row of one branch by one of the same script. *)
LEMMA RowKeeps ==
  ASSUME IInv, NEW b \in Branches, NEW row \in Branch,
         scripts' = scripts, branches' = [branches EXCEPT ![b] = row],
         branches[b] # NoBranch =>
           /\ row.script = branches[b].script
           /\ branches[b].tip # 0 => row.tip # 0
  PROVE  Keeps /\ branches'[b] = row /\ row # NoBranch
<1>1. \A a \in Branches : branches'[a] = IF a = b THEN row ELSE branches[a]
  BY DEF IInv, BranchesInv
<1>2. row # NoBranch
  BY RowFacts
<1>3. QED
  BY <1>1, <1>2 DEF Keeps

LEMMA ScriptsOfRows ==
  ASSUME NEW row \in Branch
  PROVE  /\ \A i \in Nat : Moved(row, i).script = row.script
         /\ \A text \in Contents : [row EXCEPT !.draft = Draft(text)].script = row.script
  BY DEF Moved, Branch

LEMMA PilotInsertScript ==
  ASSUME IInv, PInv, NEW r \in requests, InsertScript(r)
  PROVE  PInv'
<1>1. PICK s \in Scripts : /\ scripts' = scripts \union {s}
                           /\ Replace(r, [r EXCEPT !.script = s, !.stage = "script row"])
  BY DEF InsertScript
<1>2. PICK new : new = [r EXCEPT !.script = s, !.stage = "script row"]
  OBVIOUS
<1>3. new.script = s /\ new.stage = "script row"
  BY <1>2 DEF IInv, Sound, Request
<1>4. Keeps
  BY <1>1 DEF Keeps, InsertScript
<1>5. PilotMade(new)'
  BY <1>1, <1>3 DEF PilotMade
<1>6. \A q \in requests' : q \in requests \/ q = new
  BY <1>1, <1>2 DEF Replace
<1>7. QED
  BY <1>4, <1>5, <1>6, PilotStep

LEMMA PilotInsertBranch ==
  ASSUME IInv, PInv, NEW r \in requests, InsertBranch(r)
  PROVE  PInv'
<1>1. Sound(r) /\ r \in Request /\ PilotMade(r)
  BY DEF IInv, PInv, Sound
<1>2. <<r.kind, r.stage>> \in {<<"branch", "sent">>, <<"script", "script row">>}
  BY DEF InsertBranch
<1>3. r.script \in Scripts /\ r.from \in Nat
  BY <1>1, <1>2, RequestFields DEF Sound
<1>4. PICK b \in Branches :
        /\ branches[b] = NoBranch
        /\ branches' = [branches EXCEPT ![b] =
             [script |-> r.script, tip |-> r.from, draft |-> NoDraft, fork |-> r.from]]
        /\ Replace(r, [r EXCEPT !.branch = b,
                                !.stage = IF r.kind = "branch" THEN "done" ELSE "branch row"])
  BY DEF InsertBranch
<1>5. PICK row : row = [script |-> r.script, tip |-> r.from, draft |-> NoDraft,
                        fork |-> r.from]
  OBVIOUS
<1>6. row \in Branch /\ row.script = r.script
  BY <1>3, <1>5, BlankAssumption DEF Branch, NoDraft
<1>7. PICK stage \in {"done", "branch row"} :
        stage = IF r.kind = "branch" THEN "done" ELSE "branch row"
  OBVIOUS
<1>8. PICK new : new = [r EXCEPT !.branch = b, !.stage = stage]
  OBVIOUS
<1>9. /\ new.kind = r.kind /\ new.script = r.script
      /\ new.branch = b /\ new.stage = stage
  BY <1>1, <1>8 DEF Request
<1>10. scripts' = scripts /\ branches' = [branches EXCEPT ![b] = row]
  BY <1>4, <1>5 DEF InsertBranch
<1>11. Keeps /\ branches'[b] = row /\ row # NoBranch
  BY <1>4, <1>6, <1>10, RowKeeps
<1>12. r.kind = "script" => r.script \in scripts'
  BY <1>1, <1>2, <1>10 DEF PilotMade
<1>13. new.kind = "script" => new.stage = "branch row"
  BY <1>7, <1>9
<1>14. PilotMade(new)'
  BY <1>6, <1>9, <1>11, <1>12, <1>13 DEF PilotMade, OnBranch
<1>15. \A q \in requests' : q \in requests \/ q = new
  BY <1>4, <1>7, <1>8 DEF Replace
<1>16. QED
  BY <1>11, <1>14, <1>15, PilotStep

(* Of the tip a request reads, only that the branch is its script's matters. *)
LEMMA PilotReadTip ==
  ASSUME IInv, PInv, NEW r \in requests, ReadTip(r)
  PROVE  PInv'
<1>1. Sound(r) /\ r \in Request /\ PilotMade(r)
  BY DEF IInv, PInv, Sound
<1>2. PICK new : new = [r EXCEPT !.stage = "tip read", !.parent = branches[r.branch].tip,
                                 !.created = clock + 1, !.seen = Len(snaps)]
  OBVIOUS
<1>3. /\ new.kind = r.kind /\ new.script = r.script /\ new.branch = r.branch
      /\ new.stage = "tip read"
  BY <1>1, <1>2 DEF Request
<1>4. Replace(r, new) /\ UNCHANGED <<scripts, branches>>
  BY <1>2 DEF ReadTip
<1>5. Keeps
  BY <1>4 DEF Keeps
<1>6. r.kind = "script" => r.stage = "branch row"
  BY DEF ReadTip, AtCommit
<1>7. PilotMade(new)'
  BY <1>1, <1>3, <1>4, <1>6 DEF PilotMade, OnBranch
<1>8. \A q \in requests' : q \in requests \/ q = new
  BY <1>4 DEF Replace
<1>9. QED
  BY <1>5, <1>7, <1>8, PilotStep

LEMMA PilotCommitTx ==
  ASSUME IInv, PInv, NEW r \in requests, CommitTx(r)
  PROVE  PInv'
<1>1. Sound(r) /\ r \in Request /\ PilotMade(r) /\ r.stage = "tip read"
  BY DEF IInv, PInv, Sound, CommitTx
<1>2. OnBranch(r.branch) /\ branches[r.branch] \in Branch
  BY <1>1, BranchRow DEF Sound
<1>3. PICK k \in Nat : k = Len(snaps) + 1
  BY SnapFacts
<1>4. PICK moved : moved = Moved(branches[r.branch], k)
  OBVIOUS
<1>5. /\ moved \in Branch /\ moved.tip = k /\ moved.script = branches[r.branch].script
      /\ k # 0
  BY <1>2, <1>3, <1>4, RowFacts, ScriptsOfRows, SnapFacts
<1>6. scripts' = scripts /\ branches' = [branches EXCEPT ![r.branch] = moved]
  BY <1>3, <1>4 DEF CommitTx
<1>7. Keeps /\ branches'[r.branch] = moved /\ moved # NoBranch
  BY <1>2, <1>5, <1>6, RowKeeps DEF OnBranch
<1>8. PICK new : new = [r EXCEPT !.stage = "done"]
  OBVIOUS
<1>9. /\ new.kind = r.kind /\ new.script = r.script /\ new.branch = r.branch
      /\ new.stage = "done"
  BY <1>1, <1>8 DEF Request
<1>10. PilotMade(new)'
  BY <1>1, <1>2, <1>5, <1>6, <1>7, <1>9 DEF PilotMade, OnBranch
<1>11. \A q \in requests' : q \in requests \/ q = new
  BY <1>8 DEF CommitTx, Replace
<1>12. QED
  BY <1>7, <1>10, <1>11, PilotStep

LEMMA PilotSaveDraft ==
  ASSUME IInv, PInv, NEW r \in requests, SaveDraft(r)
  PROVE  PInv'
<1>1. Sound(r) /\ r \in Request /\ r.kind = "draft"
  BY DEF IInv, Sound, SaveDraft
<1>2. OnBranch(r.branch) /\ branches[r.branch] \in Branch
  BY <1>1, BranchRow DEF Sound
<1>3. PICK text \in Contents : text = r.content
  BY <1>1, RequestFields
<1>4. PICK row : row = [branches[r.branch] EXCEPT !.draft = Draft(text)]
  OBVIOUS
<1>5. /\ row \in Branch /\ row.tip = branches[r.branch].tip
      /\ row.script = branches[r.branch].script
  BY <1>2, <1>4, RowFacts, ScriptsOfRows
<1>6. scripts' = scripts /\ branches' = [branches EXCEPT ![r.branch] = row]
  BY <1>3, <1>4 DEF SaveDraft
<1>7. Keeps
  BY <1>2, <1>5, <1>6, RowKeeps DEF OnBranch
<1>8. PICK new : new = [r EXCEPT !.stage = "done"]
  OBVIOUS
<1>9. new.kind = "draft"
  BY <1>1, <1>8 DEF Request
<1>10. PilotMade(new)'
  BY <1>9 DEF PilotMade
<1>11. \A q \in requests' : q \in requests \/ q = new
  BY <1>8 DEF SaveDraft, Replace
<1>12. QED
  BY <1>7, <1>10, <1>11, PilotStep

(* The steps that store nothing, and send requests or take them away. *)
LEMMA PilotSame ==
  ASSUME PInv, UNCHANGED <<scripts, branches>>,
         \A q \in requests' : q \in requests \/ q.stage = "sent"
  PROVE  PInv'
<1>1. Keeps
  BY DEF Keeps
<1>2. \A q \in requests' : q \in requests \/ PilotMade(q)'
  BY DEF PilotMade
<1>3. QED
  BY <1>1, <1>2, PilotStep

LEMMA StepPInv == IInv /\ PInv /\ [Next]_vars => PInv'
<1> SUFFICES ASSUME IInv, PInv, [Next]_vars PROVE PInv'
  OBVIOUS
<1>1. ASSUME NEW c \in Clients,
         \/ SendCreateScript(c)
         \/ \E s \in Scripts : \E from \in 0..Len(snaps) : SendCreateBranch(c, s, from)
         \/ \E b \in Branches, text \in Contents :
              (\E s \in Scripts : SendCommit(c, s, b, text)) \/ SendSaveDraft(c, b, text)
      PROVE  PInv'
  <2>1. /\ UNCHANGED branches
        /\ \A q \in requests' : q \in requests \/ q.stage = "sent"
    BY <1>1, SendAnyStep
  <2>2. UNCHANGED scripts
    BY <1>1 DEF SendCreateScript, SendCreateBranch, SendCommit, SendSaveDraft, Send
  <2>3. QED
    BY <2>1, <2>2, PilotSame
<1>2. ASSUME NEW r \in requests, RefuseCommit(r) \/ RequestFails(r) \/ Deliver(r)
      PROVE  PInv'
  BY <1>2, PilotSame DEF RefuseCommit, RequestFails, Deliver
<1>3. ASSUME NEW r \in requests, Serve(r) \/ Deliver(r) PROVE PInv'
  <2>1. CASE InsertScript(r) \/ InsertBranch(r)
    BY <2>1, PilotInsertScript, PilotInsertBranch
  <2>2. CASE ReadTip(r) \/ CommitTx(r) \/ SaveDraft(r)
    BY <2>2, PilotReadTip, PilotCommitTx, PilotSaveDraft
  <2>3. CASE RefuseCommit(r) \/ RequestFails(r) \/ Deliver(r)
    BY <1>2, <2>3
  <2>4. QED
    BY <1>3, <2>1, <2>2, <2>3 DEF Serve
<1>4. CASE UNCHANGED vars
  BY <1>4, PilotSame DEF vars
<1>5. QED
  BY <1>1, <1>3, <1>4 DEF Next

LEMMA InitPInv == Init => PInv
  BY DEF Init, PInv

(* A creation that is answered as done has stored its script, a branch of it  *)
(* and that branch's first snapshot, and nothing takes them away again.       *)
THEOREM ScriptsComeWithAPilot == Spec => []DoneScriptsHaveAPilot
<1>1. PInv => DoneScriptsHaveAPilot
  BY DEF PInv, PilotMade, OnBranch, DoneScriptsHaveAPilot
<1>2. Spec => [](IInv /\ PInv)
  BY InitIInv, InitPInv, StepIInv, StepPInv, PTL DEF Spec
<1>3. QED
  BY <1>1, <1>2, PTL

-----------------------------------------------------------------------------
(* VersionControl implements BranchSlots, for any number of clients, scripts, *)
(* branches, texts and requests: what a caller sees, as two state functions.  *)
Shown == [b \in Branches |-> SlotOf(branches[b])]
Stored == {snaps[i].content : i \in Ids}

LEMMA SlotOfRow ==
  ASSUME NEW row \in Branch \union {NoBranch}, \A i \in Ids : snaps[i] \in Snapshot,
         row # NoBranch => Known(row.tip)
  PROVE  /\ row = NoBranch => SlotOf(row) = NoBranch
         /\ row # NoBranch => /\ SlotOf(row) = [tip |-> TextOf(row.tip), draft |-> row.draft]
                              /\ SlotOf(row) # NoBranch
<1>1. CASE row = NoBranch
  BY <1>1 DEF SlotOf
<1>2. CASE row # NoBranch
  <2>1. row \in Branch /\ row.tip \in Nat /\ (row.tip # 0 => row.tip \in Ids)
    BY <1>2 DEF Branch, Known, Ids
  <2>2. row.draft \in Slots!Maybe
    BY <2>1 DEF Branch, Slots!Maybe
  <2>3. TextOf(row.tip) \in Slots!Maybe
    <3>1. CASE row.tip = 0
      BY <3>1, BlankAssumption DEF TextOf, NoDraft, Slots!Maybe
    <3>2. CASE row.tip # 0
      <4>1. snaps[row.tip].content \in Contents
        BY <2>1, <3>2 DEF Snapshot
      <4>2. QED
        BY <3>2, <4>1 DEF TextOf, Draft, Slots!Maybe
    <3>3. QED
      BY <3>1, <3>2
  <2>4. SlotOf(row) = [tip |-> TextOf(row.tip), draft |-> row.draft]
    BY <1>2 DEF SlotOf
  <2>5. SlotOf(row) \in Slots!Slot
    BY <2>2, <2>3, <2>4 DEF Slots!Slot
  <2>6. QED
    BY <1>2, <2>4, <2>5, NoSlotRowAssumption
<1>3. QED
  BY <1>1, <1>2

(* The same, for every branch of a reachable state. *)
LEMMA ShownSlot ==
  ASSUME IInv, NEW b \in Branches
  PROVE  /\ branches[b] = NoBranch => Shown[b] = NoBranch
         /\ branches[b] # NoBranch =>
              /\ Shown[b] = [tip |-> TextOf(branches[b].tip), draft |-> branches[b].draft]
              /\ Shown[b] # NoBranch
<1>1. branches[b] \in Branch \union {NoBranch}
  BY DEF IInv, BranchesInv
<1>2. branches[b] # NoBranch => Known(branches[b].tip)
  BY BranchRow DEF OnBranch
<1>3. \A i \in Ids : snaps[i] \in Snapshot
  BY SnapFacts DEF Ids
<1>4. QED
  BY <1>1, <1>2, <1>3, SlotOfRow DEF Shown

(* Old snapshots keep their texts, so old tips keep what they show. *)
LEMMA TextStays ==
  ASSUME IInv, Grows, NEW i \in Nat, Known(i)
  PROVE  TextOf(i)' = TextOf(i)
<1>1. i # 0 => i \in 1..Len(snaps)
  BY SnapFacts DEF Known
<1>2. i # 0 => snaps'[i] = snaps[i]
  BY <1>1 DEF Grows
<1>3. QED
  BY <1>2 DEF TextOf, Draft, NoDraft

(* A row that no step touched shows what it showed. *)
LEMMA UntouchedSlot ==
  ASSUME IInv, Grows, NEW b \in Branches, branches'[b] = branches[b]
  PROVE  SlotOf(branches[b])' = SlotOf(branches[b])
<1>1. CASE branches[b] = NoBranch
  BY <1>1 DEF SlotOf
<1>2. CASE branches[b] # NoBranch
  <2>1. Known(branches[b].tip) /\ branches[b].tip \in Nat
    BY <1>2, BranchRow DEF OnBranch, Branch
  <2>2. TextOf(branches[b].tip)' = TextOf(branches[b].tip)
    <3>1. PICK i \in Nat : i = branches[b].tip
      BY <2>1
    <3>2. TextOf(i)' = TextOf(i)
      BY <2>1, <3>1, TextStays
    <3>3. branches'[b].tip = i
      BY <3>1
    <3>4. QED
      BY <3>1, <3>2, <3>3 DEF TextOf, Draft, NoDraft
  <2>3. QED
    BY <1>2, <2>2 DEF SlotOf
<1>3. QED
  BY <1>1, <1>2

-----------------------------------------------------------------------------
(* The steps that touch neither a branch nor a snapshot stutter. *)
LEMMA SilentStep ==
  ASSUME UNCHANGED <<branches, snaps>>
  PROVE  UNCHANGED <<Shown, Stored>>
  BY DEF Shown, Stored, SlotOf, TextOf, Draft, NoDraft, Ids


(* A step that changes one branch's row changes one slot. *)
LEMMA OneSlot ==
  ASSUME IInv, Grows, NEW b \in Branches,
         \A a \in Branches : a # b => branches'[a] = branches[a]
  PROVE  Shown' = [Shown EXCEPT ![b] = SlotOf(branches[b])']
<1>1. \A a \in Branches : a # b => SlotOf(branches[a])' = SlotOf(branches[a])
  BY UntouchedSlot
<1>2. Shown' = [a \in Branches |-> SlotOf(branches[a])']
  BY DEF Shown
<1>3. QED
  BY <1>1, <1>2 DEF Shown

(* A new branch shows the snapshot it starts from and no draft. *)
LEMMA InsertBranchCreates ==
  ASSUME IInv, NEW r \in requests, InsertBranch(r)
  PROVE  \E b \in Branches : \E tip \in Slots!Maybe : Slots!CreateSlot(b, tip)
<1>1. Grows /\ UNCHANGED snaps
  BY InsertBranchStep DEF InsertBranch
<1>2. PICK b \in Branches :
        /\ branches[b] = NoBranch
        /\ branches' = [branches EXCEPT ![b] =
             [script |-> r.script, tip |-> r.from, draft |-> NoDraft, fork |-> r.from]]
  BY DEF InsertBranch
<1>3. Sound(r) /\ r \in Request
  BY DEF IInv, Sound
<1>4. Known(r.from) /\ r.from \in Nat
  BY <1>3, RequestFields DEF Sound
<1>5. PICK row : row = [script |-> r.script, tip |-> r.from, draft |-> NoDraft,
                        fork |-> r.from]
  OBVIOUS
<1>6. row \in Branch
  <2>1. <<r.kind, r.stage>> \in {<<"branch", "sent">>, <<"script", "script row">>}
    BY DEF InsertBranch
  <2>2. r.script \in Scripts
    BY <1>3, <2>1 DEF Sound
  <2>3. QED
    BY <1>4, <1>5, <2>2, BlankAssumption DEF Branch, NoDraft
<1>7. \A a \in Branches : branches'[a] = IF a = b THEN row ELSE branches[a]
  BY <1>2, <1>5 DEF IInv, BranchesInv
<1>8. row # NoBranch
  BY <1>6, RowFacts
<1>9. SlotOf(branches[b])' = [tip |-> TextOf(r.from), draft |-> NoDraft]
  <2>1. PICK from : from = r.from
    OBVIOUS
  <2>2. branches'[b] = row /\ row.tip = from /\ row.draft = NoDraft
    BY <1>5, <1>7, <2>1
  <2>3. TextOf(from)' = TextOf(from)
    BY <1>1 DEF TextOf, Draft, NoDraft
  <2>4. SlotOf(branches[b])' = [tip |-> TextOf(from)', draft |-> NoDraft]
    BY <1>8, <2>2 DEF SlotOf, TextOf, Draft, NoDraft
  <2>5. QED
    BY <2>1, <2>3, <2>4
<1>10. Shown' = [Shown EXCEPT ![b] = [tip |-> TextOf(r.from), draft |-> NoDraft]]
  BY <1>1, <1>7, <1>9, OneSlot
<1>11. r.from # 0 => r.from \in Ids /\ snaps[r.from].content \in Contents
  BY <1>4, SnapFacts DEF Known, Ids, Snapshot
<1>12. /\ TextOf(r.from) \in Slots!Maybe
       /\ \/ TextOf(r.from) = Slots!Nothing
          \/ \E text \in Stored : TextOf(r.from) = Slots!Text(text)
  BY <1>11, BlankAssumption DEF TextOf, Draft, NoDraft, Stored, Slots!Maybe, Slots!Nothing, Slots!Text
<1>13. Shown[b] = NoBranch
  BY <1>2, ShownSlot
<1>14. Stored' = Stored
  BY <1>1 DEF Stored, Ids
<1>15. Slots!CreateSlot(b, TextOf(r.from))
  BY <1>10, <1>12, <1>13, <1>14 DEF Slots!CreateSlot, Shown, Stored, Slots!Nothing, NoDraft
<1>16. QED
  BY <1>12, <1>15

(* A commit's transaction sets the tip's text and empties the draft slot. *)
LEMMA CommitTxCommits ==
  ASSUME IInv, NEW r \in requests, CommitTx(r)
  PROVE  \E b \in Branches : \E text \in Contents : Slots!CommitSlot(b, text)
<1>1. Grows
  BY CommitStep
<1>2. Sound(r) /\ r \in Request /\ r.stage = "tip read"
  BY DEF IInv, Sound, CommitTx
<1>3. OnBranch(r.branch) /\ r.content \in Contents
  BY <1>2, RequestFields DEF Sound
<1>4. PICK b \in Branches : b = r.branch /\ branches[b] \in Branch /\ branches[b] # NoBranch
  BY <1>3, BranchRow DEF OnBranch
<1>5. PICK text \in Contents : text = r.content
  BY <1>3
<1>6. PICK k \in Nat : k = Len(snaps) + 1
  BY SnapFacts
<1>7. PICK row \in Snapshot : row = Row(r) /\ row.content = text
  <2>1. Row(r) \in Snapshot /\ Row(r).content = text
    BY <1>2, <1>3, <1>5, RequestFields DEF Row, Snapshot, OnBranch
  <2>2. QED
    BY <2>1
<1>8. PICK moved : moved = Moved(branches[b], k)
  OBVIOUS
<1>9. moved # NoBranch /\ moved.tip = k /\ moved.draft = NoDraft
  <2>1. moved \in Branch /\ moved.tip = k
    BY <1>4, <1>8, RowFacts
  <2>2. moved.draft = NoDraft
    BY <1>4, <1>8 DEF Moved, Branch
  <2>3. QED
    BY <2>1, <2>2, RowFacts
<1>10. snaps' = Append(snaps, row) /\ branches' = [branches EXCEPT ![b] = moved]
  BY <1>4, <1>6, <1>7, <1>8 DEF CommitTx
<1>11. \A a \in Branches : branches'[a] = IF a = b THEN moved ELSE branches[a]
  BY <1>10 DEF IInv, BranchesInv
<1>12. /\ Len(snaps') = k /\ snaps'[k] = row /\ k # 0
       /\ \A i \in 1..Len(snaps) : snaps'[i] = snaps[i]
  <2>1. snaps \in Seq(Snapshot)
    BY DEF IInv, SnapsInv
  <2>2. QED
    BY <1>6, <1>10, <2>1, Appended, SnapFacts
<1>13. SlotOf(branches[b])' = [tip |-> Slots!Text(text), draft |-> Slots!Nothing]
  <2>1. branches'[b] = moved /\ moved.tip # 0 /\ snaps'[moved.tip].content = text
    BY <1>7, <1>9, <1>11, <1>12
  <2>2. QED
    BY <1>9, <2>1 DEF SlotOf, TextOf, Draft, NoDraft, Slots!Text, Slots!Nothing
<1>14. Shown' = [Shown EXCEPT ![b] = [tip |-> Slots!Text(text), draft |-> Slots!Nothing]]
  BY <1>1, <1>11, <1>13, OneSlot
<1>15. Stored' = Stored \union {text}
  <2>1. 1..k = (1..Len(snaps)) \union {k}
    BY <1>6, SnapFacts
  <2>2. Ids' = Ids \union {k}
    BY <1>12, <2>1 DEF Ids
  <2>3. Stored' = {snaps'[i].content : i \in Ids \union {k}}
    BY <2>2 DEF Stored
  <2>4. \A i \in Ids : snaps'[i].content = snaps[i].content
    BY <1>12 DEF Ids
  <2>5. snaps'[k].content = text
    BY <1>7, <1>12
  <2>6. QED
    BY <2>3, <2>4, <2>5 DEF Stored
<1>16. Shown[b] # NoBranch
  BY <1>4, ShownSlot
<1>17. Slots!CommitSlot(b, text)
  BY <1>14, <1>15, <1>16 DEF Slots!CommitSlot, Shown, Stored
<1>18. QED
  BY <1>17

(* A draft's UPDATE fills the slot and leaves the tip. *)
LEMMA SaveDraftSaves ==
  ASSUME IInv, NEW r \in requests, SaveDraft(r)
  PROVE  \E b \in Branches : \E text \in Contents : Slots!SaveSlot(b, text)
<1>1. Grows /\ UNCHANGED snaps
  BY SaveDraftStep DEF SaveDraft
<1>2. Sound(r) /\ r \in Request /\ r.kind = "draft"
  BY DEF IInv, Sound, SaveDraft
<1>3. OnBranch(r.branch) /\ r.content \in Contents
  BY <1>2, RequestFields DEF Sound
<1>4. PICK b \in Branches : b = r.branch /\ branches[b] \in Branch /\ branches[b] # NoBranch
  BY <1>3, BranchRow DEF OnBranch
<1>5. PICK text \in Contents : text = r.content
  BY <1>3
<1>6. PICK row : row = [branches[b] EXCEPT !.draft = Draft(text)]
  OBVIOUS
<1>7. row # NoBranch /\ row.tip = branches[b].tip /\ row.draft = Draft(text)
  <2>1. row \in Branch /\ row.tip = branches[b].tip
    BY <1>4, <1>6, RowFacts
  <2>2. row.draft = Draft(text)
    BY <1>4, <1>6 DEF Branch
  <2>3. QED
    BY <2>1, <2>2, RowFacts
<1>8. branches' = [branches EXCEPT ![b] = row]
  BY <1>4, <1>5, <1>6 DEF SaveDraft
<1>9. \A a \in Branches : branches'[a] = IF a = b THEN row ELSE branches[a]
  BY <1>8 DEF IInv, BranchesInv
<1>10. PICK tip : tip = TextOf(branches[b].tip)
  OBVIOUS
<1>11. SlotOf(branches[b])' = [tip |-> tip, draft |-> Slots!Text(text)]
  <2>1. branches'[b] = row
    BY <1>9
  <2>2. QED
    BY <1>1, <1>7, <1>10, <2>1 DEF SlotOf, TextOf, Draft, NoDraft, Slots!Text
<1>12. Shown[b] = [tip |-> tip, draft |-> branches[b].draft] /\ Shown[b] # NoBranch
  BY <1>4, <1>10, ShownSlot
<1>13. [Shown[b] EXCEPT !.draft = Slots!Text(text)] = [tip |-> tip, draft |-> Slots!Text(text)]
  BY <1>12
<1>14. Shown' = [Shown EXCEPT ![b] = [Shown[b] EXCEPT !.draft = Slots!Text(text)]]
  BY <1>1, <1>9, <1>11, <1>13, OneSlot
<1>15. Stored' = Stored
  BY <1>1 DEF Stored, Ids
<1>16. Slots!SaveSlot(b, text)
  BY <1>12, <1>14, <1>15 DEF Slots!SaveSlot, Shown, Stored
<1>17. QED
  BY <1>16

-----------------------------------------------------------------------------
LEMMA SlotsInit == Init => Slots!SlotInit
<1> SUFFICES ASSUME Init PROVE Slots!SlotInit
  OBVIOUS
<1>1. \A b \in Branches : SlotOf(branches[b]) = NoBranch
  BY DEF Init, SlotOf
<1>2. Ids = {}
  BY DEF Init, Ids
<1>3. QED
  BY <1>1, <1>2 DEF Slots!SlotInit

LEMMA SlotsStep == IInv /\ [Next]_vars => [Slots!SlotNext]_(Slots!slotVars)
<1> SUFFICES ASSUME IInv, [Next]_vars PROVE Slots!SlotNext \/ UNCHANGED Slots!slotVars
  OBVIOUS
<1>1. ASSUME UNCHANGED <<branches, snaps>> PROVE UNCHANGED Slots!slotVars
  BY <1>1, SilentStep DEF Slots!slotVars, Shown, Stored
<1>2. ASSUME NEW c \in Clients,
         \/ SendCreateScript(c)
         \/ \E s \in Scripts : \E from \in 0..Len(snaps) : SendCreateBranch(c, s, from)
         \/ \E b \in Branches, text \in Contents :
              (\E s \in Scripts : SendCommit(c, s, b, text)) \/ SendSaveDraft(c, b, text)
      PROVE  UNCHANGED Slots!slotVars
  BY <1>1, <1>2, SendAnyStep
<1>3. ASSUME NEW r \in requests, Serve(r) \/ Deliver(r)
      PROVE  Slots!SlotNext \/ UNCHANGED Slots!slotVars
  <2>1. CASE InsertBranch(r)
    BY <2>1, InsertBranchCreates DEF Slots!SlotNext
  <2>2. CASE CommitTx(r)
    BY <2>2, CommitTxCommits DEF Slots!SlotNext
  <2>3. CASE SaveDraft(r)
    BY <2>3, SaveDraftSaves DEF Slots!SlotNext
  <2>4. CASE InsertScript(r) \/ ReadTip(r) \/ RefuseCommit(r) \/ RequestFails(r) \/ Deliver(r)
    <3>1. UNCHANGED <<branches, snaps>>
      BY <2>4 DEF InsertScript, ReadTip, RefuseCommit, RequestFails, Deliver
    <3>2. QED
      BY <1>1, <3>1
  <2>5. QED
    BY <1>3, <2>1, <2>2, <2>3, <2>4 DEF Serve
<1>4. CASE UNCHANGED vars
  BY <1>1, <1>4 DEF vars
<1>5. QED
  BY <1>2, <1>3, <1>4 DEF Next

(* However requests interleave, fail halfway or race, a caller sees every      *)
(* branch as one tip and one draft slot, each set at one moment by one request. *)
THEOREM ServiceImplementsSlots == Spec => ImplementsSlots
  BY Inductive, SlotsInit, SlotsStep, PTL DEF Spec, ImplementsSlots, Slots!SlotSpec

=============================================================================
