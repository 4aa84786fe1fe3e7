---------------------------- MODULE TrashProofs ----------------------------
(* What Trash guarantees for any number of projects, scripts and requests,   *)
(* and for any retention period.                                             *)
EXTENDS Trash, TLAPS

-----------------------------------------------------------------------------
(* What is known of one goroutine: *)

(* its task is about ids that exist, of the right kind; *)
Sensible(w) == Busy(w) =>
  /\ run[w].op = "expire" <=> w = Job
  /\ run[w].item # NoItem => run[w].item \in issued
  /\ run[w].op \in {"delete", "restore", "purge now"} => run[w].item \in Items
  /\ run[w].op = "create script" /\ run[w].stage \in {"role", "write"}
       => run[w].item \in Projects
  /\ run[w].stage = "owner" => run[w].item \in Projects
  /\ run[w].stage = "pilot" => run[w].item \in Scripts /\ run[w].op = "create script"
  /\ run[w].scripts \subseteq issued /\ run[w].projects \subseteq issued
  /\ run[w].project # NoItem => run[w].project \in issued

(* it had a reason for all it is going to delete, and has it still; *)
Reason(w, x) ==
  \/ ~Present(x)
  \/ Trashed(x) /\ (w = Job => Expired(x, run[w].cutoff))
  \/ <<w, x>> \in recalled
Justified(w) == Busy(w) =>
  /\ \A s \in run[w].scripts : Reason(w, s) \/ home[s] = run[w].project
  /\ \A p \in run[w].projects : Reason(w, p)
  /\ run[w].project # NoItem => Reason(w, run[w].project)

(* the project it is purging has no scripts but those it knows of; *)
Thorough(w) == Busy(w) /\ run[w].project # NoItem =>
  \A s \in Scripts : Present(s) /\ home[s] = run[w].project =>
    s \in run[w].scripts \/ home[s] \in raced

(* and what it is creating something in is there. *)
Grounded(w) ==
  Doing(w, "create script", "write") \/ At(w, "pilot") =>
    Present(run[w].item) \/ run[w].item \in raced

Good(w) == Sensible(w) /\ Justified(w) /\ Thorough(w) /\ Grounded(w)

(* A project without its owner's row is out of everybody else's reach. *)
Untouched(p) == deletedAt[p] = 0 /\ p \notin owned
Away(v, p) == p \notin Doomed(v) /\ (Busy(v) /\ run[v].item = p => run[v].stage = "role")
Fledgling(w) == At(w, "owner") =>
  /\ Untouched(run[w].item) /\ run[w].item \notin Doomed(w)
  /\ \A v \in Goroutines : v # w => Away(v, run[w].item)

(* Ids are used once, and the rows fit together. *)
RowsFit ==
  /\ \A x \in Items : x \notin issued => deletedAt[x] = Absent
  /\ \A s \in Scripts : s \in issued => home[s] \in Projects
  /\ \A p \in owned : Present(p) /\ p \in issued

IInv ==
  /\ TypeOK /\ RowsFit /\ OrphansComeFromRaces
  /\ \A x \in Items : Racing(x) => x \in raced
  /\ \A w \in Goroutines : Good(w) /\ Fledgling(w)

-----------------------------------------------------------------------------
LEMMA TaskOf ==
  ASSUME TypeOK, NEW w \in Goroutines, Busy(w)
  PROVE  run[w] \in Task
  BY DEF TypeOK, Busy

LEMMA TaskFields ==
  ASSUME NEW t \in Task
  PROVE  /\ t # Idle
         /\ t.op \in Ops \union {"expire"}
         /\ t.stage \in {"role", "write", "owner", "pilot", "expired scripts", "purge"}
         /\ t.item \in Items \union {NoItem} /\ t.project \in Projects \union {NoItem}
         /\ t.scripts \in SUBSET Scripts /\ t.projects \in SUBSET Projects
         /\ t.cutoff \in Nat
<1>1. t.op \in Ops \union {"expire"}
  BY DEF Task
<1>2. ASSUME t = Idle PROVE FALSE
  <2>1. t.op = "none"
    BY <1>2 DEF Idle
  <2>2. "none" \notin Ops \union {"expire"}
    BY DEF Ops
  <2>3. QED
    BY <1>1, <2>1, <2>2
<1>3. QED
  BY <1>1, <1>2 DEF Task

(* What a step of w does and leaves alone: rows only go that it was to delete, *)
(* a project last; only what it was to create is new; and so on.               *)
Considerate(w) ==
  /\ issued \subseteq issued'
  /\ raced \subseteq raced'
  /\ \A x \in issued :
       \/ deletedAt'[x] \in {deletedAt[x], Absent}
       \/ deletedAt[x] = 0
       \/ \A v \in Goroutines : x \in Doomed(v) => <<v, x>> \in recalled'
  /\ \A x \in issued : deletedAt[x] = Absent => deletedAt'[x] = Absent
  /\ \A x \in Items : Present(x) /\ ~Present(x)' =>
       x \in Doomed(w) /\ x \notin texts' /\ (x \in Projects => run[w].scripts = {})
  /\ \A p \in Projects : Present(p) /\ ~Present(p)' => run[w].project = p
  /\ \A s \in Scripts : s \in issued => home'[s] = home[s]
  /\ \A s \in Scripts : Present(s)' /\ s \notin issued =>
       Doing(w, "create script", "write") /\ run[w].item = home'[s]
  /\ \A s \in texts' : s \in texts \/ (At(w, "pilot") /\ s = run[w].item)
  /\ \A e \in recalled : e[1] # w => e \in recalled'

(* A step of w keeps out of reach what is out of its reach. *)
Distant(w) == \A p \in Projects :
  p \in issued /\ Untouched(p) /\ Away(w, p) => Untouched(p)' /\ Away(w, p)'

(* A goroutine v that goes on with what it was deleting keeps its word. *)
LEMMA WordKept ==
  ASSUME IInv, NEW w \in Goroutines, NEW v \in Goroutines, Considerate(w), Busy(v),
         run'[v].scripts \subseteq run[v].scripts,
         \A s \in run[v].scripts : s \in run'[v].scripts \/ ~Present(s)',
         run'[v].projects \subseteq run[v].projects,
         \/ run'[v].project = run[v].project
         \/ run'[v].project = NoItem /\ run'[v].scripts = {},
         run'[v].cutoff = run[v].cutoff,
         \A x : <<v, x>> \in recalled => <<v, x>> \in recalled'
  PROVE  Justified(v)' /\ Thorough(v)'
<1>0. /\ Sensible(v) /\ Justified(v) /\ Thorough(v)
      /\ run[v].scripts \subseteq Scripts /\ run[v].project \in Projects \union {NoItem}
  <2>1. run[v] \in Task
    BY TaskOf DEF IInv
  <2>2. QED
    BY <2>1, TaskFields DEF IInv, Good
<1>2. ASSUME NEW x \in issued, x \in Doomed(v), Reason(v, x)
      PROVE  Reason(v, x)'
  <2>1. <<v, x>> \in recalled => <<v, x>> \in recalled'
    OBVIOUS
  <2>2. CASE deletedAt'[x] = Absent
    BY <2>2 DEF Reason, Present
  <2>3. CASE deletedAt'[x] = deletedAt[x]
    BY <1>2, <2>1, <2>3 DEF Reason, Present, Trashed, Expired
  <2>4. CASE deletedAt[x] = 0
    <3>1. <<v, x>> \in recalled
      BY <1>2, <2>4, AbsentAssumption DEF Reason, Present, Trashed
    <3>2. QED
      BY <3>1, <2>1 DEF Reason
  <2>5. CASE <<v, x>> \in recalled'
    BY <2>5 DEF Reason
  <2>6. QED
    BY <1>2, <2>2, <2>3, <2>4, <2>5 DEF Considerate
<1>3. Justified(v)'
  <2>3. ASSUME NEW s \in run'[v].scripts
        PROVE  Reason(v, s)' \/ home'[s] = run'[v].project
    <3>1. s \in issued /\ s \in Doomed(v) /\ (Reason(v, s) \/ home[s] = run[v].project)
      BY <1>0 DEF Sensible, Justified, Doomed
    <3>2. home'[s] = home[s]
      BY <1>0, <3>1 DEF Considerate
    <3>3. QED
      BY <1>2, <3>1, <3>2
  <2>4. ASSUME NEW p \in run'[v].projects PROVE Reason(v, p)'
    <3>1. p \in issued /\ p \in Doomed(v) /\ Reason(v, p)
      BY <1>0 DEF Sensible, Justified, Doomed
    <3>2. QED
      BY <1>2, <3>1
  <2>5. ASSUME run'[v].project # NoItem PROVE Reason(v, run[v].project)'
    <3>1. PICK p : p = run[v].project /\ p = run'[v].project
      BY <2>5
    <3>2. p \in issued /\ p \in Doomed(v) /\ Reason(v, p)
      BY <1>0, <2>5, <3>1 DEF Sensible, Justified, Doomed
    <3>3. Reason(v, p)'
      BY <1>2, <3>2
    <3>4. QED
      BY <3>1, <3>3 DEF Reason
  <2>6. QED
    BY <2>3, <2>4, <2>5 DEF Justified
<1>4. Thorough(v)'
  <2> SUFFICES ASSUME run'[v].project # NoItem, NEW s \in Scripts,
                      Present(s)', home'[s] = run'[v].project
               PROVE  s \in run'[v].scripts \/ home'[s] \in raced'
    BY DEF Thorough
  <2>1. CASE s \in issued
    <3>1. home[s] = home'[s] /\ Present(s)
      BY <2>1 DEF Considerate, Present
    <3>2. s \in run[v].scripts \/ home[s] \in raced
      BY <1>0, <3>1 DEF Thorough
    <3>3. QED
      BY <3>1, <3>2 DEF Considerate
  <2>2. CASE s \notin issued
    <3>1. Busy(w) /\ run[w].op = "create script" /\ run[w].item = home'[s]
      BY <2>2 DEF Considerate, Doing, At
    <3>2. home'[s] \in Doomed(v) /\ home'[s] \in Items
      BY <1>0 DEF Doomed, Items
    <3>3. Racing(home'[s])
      BY <3>1, <3>2 DEF Racing
    <3>4. QED
      BY <3>2, <3>3 DEF IInv, Considerate
  <2>3. QED
    BY <2>1, <2>2
<1>5. QED
  BY <1>3, <1>4

(* What v is creating something in stays, or is raced for. *)
LEMMA GroundKept ==
  ASSUME IInv, NEW w \in Goroutines, NEW v \in Goroutines, Considerate(w), Busy(v),
         run'[v].op = run[v].op, run'[v].stage = run[v].stage, run'[v].item = run[v].item
  PROVE  Grounded(v)'
<1> SUFFICES ASSUME Doing(v, "create script", "write") \/ At(v, "pilot")
             PROVE  Present(run[v].item)' \/ run[v].item \in raced'
  BY DEF Grounded, Doing, At, Busy
<1>0. Sensible(v) /\ Grounded(v)
  BY DEF IInv, Good
<1>1. PICK x : x = run[v].item
  OBVIOUS
<1>2. x \in Items /\ run[v].op = "create script"
  BY <1>0, <1>1 DEF Sensible, Doing, At, Items
<1>3. Present(x) \/ x \in raced
  BY <1>0, <1>1 DEF Grounded
<1>4. CASE Present(x) /\ ~Present(x)'
  <2>1. Racing(x)
    BY <1>1, <1>2, <1>4 DEF Racing, Considerate
  <2>2. QED
    BY <1>1, <1>2, <2>1 DEF IInv, Considerate
<1>5. QED
  BY <1>1, <1>3, <1>4 DEF Considerate, Present

LEMMA OthersStayGood ==
  ASSUME IInv, NEW w \in Goroutines, NEW v \in Goroutines, v # w,
         run'[v] = run[v], Considerate(w)
  PROVE  Good(v)'
<1>1. CASE Busy(v)
  <2>1. Sensible(v)'
    BY <1>1 DEF Sensible, Busy, Considerate, IInv, Good
  <2>2. \A x : <<v, x>> \in recalled => <<v, x>> \in recalled'
    BY DEF Considerate
  <2>3. Justified(v)' /\ Thorough(v)'
    BY <1>1, <2>2, WordKept
  <2>4. Grounded(v)'
    BY <1>1, GroundKept
  <2>5. QED
    BY <2>1, <2>3, <2>4 DEF Good
<1>2. CASE ~Busy(v)
  BY <1>2 DEF Good, Sensible, Justified, Thorough, Grounded, Doing, At, Busy
<1>3. QED
  BY <1>1, <1>2

LEMMA OthersStayFledglings ==
  ASSUME IInv, NEW w \in Goroutines, NEW v \in Goroutines, v # w,
         \A u \in Goroutines : u # w => run'[u] = run[u], Distant(w)
  PROVE  Fledgling(v)'
<1> SUFFICES ASSUME At(v, "owner") PROVE Fledgling(v)'
  BY DEF Fledgling, At, Busy
<1>1. PICK p : p = run[v].item
  OBVIOUS
<1>2. p \in Projects /\ p \in issued
  <2>1. Sensible(v) /\ Busy(v) /\ run[v] \in Task
    BY TaskOf DEF IInv, Good, At
  <2>2. QED
    BY <1>1, <2>1, IdsAssumption DEF Sensible, At
<1>3. /\ Untouched(p) /\ p \notin Doomed(v)
      /\ \A u \in Goroutines : u # v => Away(u, p)
  BY <1>1 DEF IInv, Fledgling
<1>4. Untouched(p)' /\ Away(w, p)'
  BY <1>2, <1>3 DEF Distant
<1>5. \A u \in Goroutines : u # v => Away(u, p)'
  BY <1>3, <1>4 DEF Away, Doomed, Busy
<1>6. (p \notin Doomed(v))'
  BY <1>3 DEF Doomed, Busy
<1>7. run'[v].item = p
  BY <1>1
<1>8. QED
  BY <1>4, <1>5, <1>6, <1>7 DEF Fledgling

LEMMA OrphansStay ==
  ASSUME IInv, NEW w \in Goroutines, Considerate(w)
  PROVE  OrphansComeFromRaces'
<1>1. ASSUME NEW s \in Scripts, Present(s)', ~Present(home[s])'
      PROVE  home'[s] \in raced'
  <2>1. CASE s \in issued
    <3>1. PICK p \in Projects : p = home[s] /\ p = home'[s]
      BY <2>1 DEF IInv, RowsFit, Considerate
    <3>2. Present(s)
      BY <1>1, <2>1 DEF Considerate, Present
    <3>3. CASE Present(p)
      <4>1. ~Present(p)'
        BY <1>1, <3>1 DEF Present
      <4>2. p \in Doomed(w) /\ run[w].project = p /\ run[w].scripts = {}
        BY <3>3, <4>1 DEF Considerate, Items
      <4>3. Busy(w) /\ Thorough(w) /\ p # NoItem
        BY <4>2, IdsAssumption DEF IInv, Good, Doomed
      <4>4. p \in raced
        BY <3>1, <3>2, <4>2, <4>3 DEF Thorough
      <4>5. QED
        BY <3>1, <4>4 DEF Considerate
    <3>4. CASE ~Present(p)
      BY <3>1, <3>2, <3>4 DEF IInv, OrphansComeFromRaces, Considerate
    <3>5. QED
      BY <3>3, <3>4
  <2>2. CASE s \notin issued
    <3>1. Doing(w, "create script", "write") /\ run[w].item = home'[s]
      BY <1>1, <2>2 DEF Considerate
    <3>2. PICK p : p = run[w].item
      OBVIOUS
    <3>3. p \in Items /\ p = home'[s]
      BY <3>1, <3>2 DEF IInv, Good, Sensible, Doing, At, Items
    <3>4. Present(p) \/ p \in raced
      BY <3>1, <3>2 DEF IInv, Good, Grounded
    <3>5. CASE Present(p)
      <4>1. p \in Doomed(w)
        BY <1>1, <3>3, <3>5 DEF Considerate, Present
      <4>2. Racing(p)
        BY <3>1, <3>2, <4>1 DEF Racing, Doing, At
      <4>3. QED
        BY <3>3, <4>2 DEF IInv, Considerate
    <3>6. QED
      BY <3>3, <3>4, <3>5 DEF Considerate
  <2>3. QED
    BY <2>1, <2>2
<1>2. ASSUME NEW s \in texts', ~Present(s)'
      PROVE  s \in raced'
  <2>1. CASE s \in texts
    <3>1. ~Present(s)
      BY <1>2, <2>1 DEF Considerate, IInv, TypeOK, Items
    <3>2. QED
      BY <2>1, <3>1 DEF IInv, OrphansComeFromRaces, Considerate
  <2>2. CASE At(w, "pilot") /\ s = run[w].item
    <3>1. s \in Items /\ run[w].op = "create script" /\ Busy(w)
      BY <2>2 DEF IInv, Good, Sensible, At, Items
    <3>2. Present(s) \/ s \in raced
      BY <2>2 DEF IInv, Good, Grounded
    <3>3. ~Present(s)
      BY <1>2, <3>1 DEF Considerate
    <3>4. QED
      BY <3>2, <3>3 DEF Considerate
  <2>3. QED
    BY <1>2, <2>1, <2>2 DEF Considerate
<1>3. QED
  BY <1>1, <1>2 DEF OrphansComeFromRaces

-----------------------------------------------------------------------------
(* What is left to show of an action of w. *)
Fine(w) ==
  /\ TypeOK' /\ RowsFit'
  /\ \A v \in Goroutines : v # w => run'[v] = run[v]
  /\ Considerate(w) /\ Distant(w)
  /\ Good(w)' /\ Fledgling(w)'

LEMMA FineIsEnough ==
  ASSUME IInv, NEW w \in Goroutines, Watch, Fine(w)
  PROVE  IInv'
<1>1. OrphansComeFromRaces'
  BY OrphansStay DEF Fine
<1>2. \A x \in Items : Racing(x)' => x \in raced'
  BY DEF Watch
<1>3. \A v \in Goroutines : Good(v)' /\ Fledgling(v)'
  BY OthersStayGood, OthersStayFledglings DEF Fine
<1>4. QED
  BY <1>1, <1>2, <1>3 DEF IInv, Fine

LEMMA Moved ==
  ASSUME TypeOK, NEW w \in Goroutines, NEW t, run' = [run EXCEPT ![w] = t]
  PROVE  run'[w] = t /\ \A v \in Goroutines : v # w => run'[v] = run[v]
  BY DEF TypeOK

LEMMA WatchGrows ==
  ASSUME TypeOK, Watch
  PROVE  raced \subseteq raced' /\ raced' \in SUBSET Items
  BY DEF TypeOK, Watch

LEMMA RunType ==
  ASSUME TypeOK, NEW w \in Goroutines, NEW t \in Task \union {Idle},
         run' = [run EXCEPT ![w] = t]
  PROVE  run' \in [Goroutines -> Task \union {Idle}]
  BY DEF TypeOK

LEMMA RecalledKept ==
  ASSUME TypeOK, NEW w \in Goroutines, End(w) \/ UNCHANGED recalled
  PROVE  /\ recalled' \in SUBSET (Goroutines \X Items)
         /\ \A e \in recalled : e[1] # w => e \in recalled'
  BY DEF TypeOK, End

(* A goroutine that has ended keeps every promise. *)
LEMMA EndedIsGood ==
  ASSUME NEW w \in Goroutines, run'[w] = Idle
  PROVE  Good(w)' /\ Fledgling(w)' /\ \A p : Away(w, p)'
  BY DEF Good, Sensible, Justified, Thorough, Grounded, Fledgling, Away, Doomed, Doing,
         At, Busy

(* A step that leaves the rows alone. *)
LEMMA QuietIsConsiderate ==
  ASSUME IInv, NEW w \in Goroutines, Watch, UNCHANGED rows,
         End(w) \/ UNCHANGED recalled
  PROVE  Considerate(w) /\ RowsFit' /\ \A p : Untouched(p) => Untouched(p)'
<1>1. TypeOK /\ RowsFit
  BY DEF IInv
<1>2. UNCHANGED <<deletedAt, home, owned, texts, issued>>
  BY DEF rows
<1>3. \A s \in Scripts : s \notin issued => ~Present(s)'
  BY <1>1, <1>2 DEF RowsFit, Present, Items
<1>4. Considerate(w)
  BY <1>1, <1>2, <1>3, WatchGrows, RecalledKept DEF Considerate, Present
<1>5. QED
  BY <1>1, <1>2, <1>4 DEF RowsFit, Present, Untouched

(* A step by which w ends and no row changes. *)
LEMMA QuietEnd ==
  ASSUME IInv, NEW w \in Goroutines, Watch, UNCHANGED rows, End(w),
         now' = now, requests' = requests, failures' \in 0..MaxFailures
  PROVE  Fine(w)
<1>1. TypeOK
  BY DEF IInv
<1>2. run'[w] = Idle /\ \A v \in Goroutines : v # w => run'[v] = run[v]
  BY <1>1, Moved DEF End
<1>3. TypeOK'
  <2>1. run' \in [Goroutines -> Task \union {Idle}]
    BY <1>1, RunType DEF End
  <2>2. QED
    BY <1>1, <2>1, WatchGrows, RecalledKept DEF TypeOK, rows
<1>4. Distant(w)
  BY <1>2, EndedIsGood, QuietIsConsiderate DEF Distant
<1>5. QED
  BY <1>2, <1>3, <1>4, EndedIsGood, QuietIsConsiderate DEF Fine

(* A step by which w goes on to the task t and no row changes. *)
LEMMA QuietMove ==
  ASSUME IInv, NEW w \in Goroutines, Watch, UNCHANGED rows, NEW t \in Task,
         Continue(w, t), now' = now, requests' \in 0..MaxRequests, failures' = failures
  PROVE  /\ run'[w] = t /\ Busy(w)'
         /\ TypeOK' /\ RowsFit'
         /\ \A v \in Goroutines : v # w => run'[v] = run[v]
         /\ Considerate(w) /\ \A p : Untouched(p) => Untouched(p)'
<1>1. TypeOK
  BY DEF IInv
<1>2. run'[w] = t /\ \A v \in Goroutines : v # w => run'[v] = run[v]
  BY <1>1, Moved DEF Continue
<1>3. TypeOK'
  <2>1. run' \in [Goroutines -> Task \union {Idle}]
    BY <1>1, RunType DEF Continue
  <2>2. recalled' \in SUBSET (Goroutines \X Items)
    BY <1>1 DEF TypeOK, Continue
  <2>3. QED
    BY <1>1, <2>1, <2>2, WatchGrows DEF TypeOK, rows
<1>4. QED
  BY <1>2, <1>3, TaskFields, QuietIsConsiderate DEF Busy, Continue

LEMMA BeginIsFine ==
  ASSUME IInv, NEW w \in Workers, Watch, Request(w)
  PROVE  Fine(w)
<1>1. PICK op \in Ops, x \in Items \union {NoItem} :
        /\ Begin(w, op, x)
        /\ x # NoItem => x \in issued
        /\ op # "create project" => x \in Items
        /\ op = "create project" => x = NoItem
        /\ op = "create script" => x \in Projects
  <2>1. CASE Begin(w, "create project", NoItem)
    BY <2>1 DEF Ops
  <2>2. CASE \E p \in Projects \cap issued : Begin(w, "create script", p)
    BY <2>2 DEF Ops, Items
  <2>3. CASE \E op \in {"delete", "restore", "purge now"}, x \in issued : Begin(w, op, x)
    <3>1. issued \subseteq Items
      BY DEF IInv, TypeOK
    <3>2. QED
      BY <2>3, <3>1 DEF Ops
  <2>4. QED
    BY <2>1, <2>2, <2>3 DEF Request
<1>2. PICK stage \in {"role", "write"} :
        /\ stage = IF op = "create project" THEN "write" ELSE "role"
        /\ Continue(w, Start(op, stage, x))
  BY <1>1 DEF Begin
<1>3. PICK t : t = Start(op, stage, x)
  OBVIOUS
<1>4. /\ t \in Task /\ t.op = op /\ t.stage = stage /\ t.item = x
      /\ t.scripts = {} /\ t.projects = {} /\ t.project = NoItem
  BY <1>3 DEF Start, Task
<1>5. w \in Goroutines /\ w # Job /\ t.op # "expire"
  BY <1>4, JobAssumption DEF Goroutines, Ops
<1>6. requests' \in 0..MaxRequests
  <2>1. requests' = requests + 1 /\ requests < MaxRequests
    BY <1>1 DEF Begin
  <2>2. requests \in 0..MaxRequests /\ MaxRequests \in Nat
    BY TimesAssumption DEF IInv, TypeOK
  <2>3. QED
    BY <2>1, <2>2
<1>7. /\ run'[w] = t /\ Busy(w)'
      /\ TypeOK' /\ RowsFit'
      /\ \A v \in Goroutines : v # w => run'[v] = run[v]
      /\ Considerate(w) /\ \A p : Untouched(p) => Untouched(p)'
  BY <1>1, <1>2, <1>3, <1>4, <1>5, <1>6, QuietMove DEF Begin
<1>8. UNCHANGED issued
  BY <1>1 DEF Begin, rows
<1>9. Sensible(w)'
  BY <1>1, <1>2, <1>4, <1>5, <1>7, <1>8 DEF Sensible
<1>10. Justified(w)' /\ Thorough(w)' /\ Grounded(w)' /\ Fledgling(w)'
  BY <1>2, <1>4, <1>7 DEF Justified, Thorough, Grounded, Fledgling, Doing, At
<1>11. Distant(w)
  <2> SUFFICES ASSUME NEW p \in Projects, Untouched(p), Away(w, p)
               PROVE  Untouched(p)' /\ Away(w, p)'
    BY DEF Distant
  <2>1. p # NoItem
    BY IdsAssumption
  <2>2. p \notin Doomed(w)'
    BY <1>4, <1>7, <2>1 DEF Doomed
  <2>3. run'[w].item = p => run'[w].stage = "role"
    BY <1>1, <1>2, <1>4, <1>7, <2>1
  <2>4. QED
    BY <1>7, <2>2, <2>3 DEF Away
<1>12. QED
  BY <1>5, <1>7, <1>9, <1>10, <1>11 DEF Fine, Good

LEMMA CheckRoleIsFine ==
  ASSUME IInv, NEW w \in Goroutines, Watch, CheckRole(w)
  PROVE  Fine(w)
<1>1. /\ Busy(w) /\ run[w].stage = "role" /\ run[w] \in Task
      /\ UNCHANGED rows /\ UNCHANGED counters
      /\ Good(w) /\ RowsFit /\ TypeOK
  BY TaskOf DEF CheckRole, At, IInv
<1>2. UNCHANGED <<now, requests, failures>>
  BY <1>1 DEF counters
<1>3. CASE End(w)
  BY <1>1, <1>2, <1>3, QuietEnd DEF TypeOK
<1>4. CASE Of(run[w].item) \in owned /\ Continue(w, [run[w] EXCEPT !.stage = "write"])
  <2>1. PICK t : t = [run[w] EXCEPT !.stage = "write"]
    OBVIOUS
  <2>2. /\ t \in Task /\ t.op = run[w].op /\ t.stage = "write" /\ t.item = run[w].item
        /\ t.scripts = run[w].scripts /\ t.projects = run[w].projects
        /\ t.project = run[w].project /\ t.cutoff = run[w].cutoff
    BY <1>1, <2>1 DEF Task
  <2>3. requests' \in 0..MaxRequests
    BY <1>1, <1>2 DEF TypeOK
  <2>4. /\ run'[w] = t /\ Busy(w)'
        /\ TypeOK' /\ RowsFit'
        /\ \A v \in Goroutines : v # w => run'[v] = run[v]
        /\ Considerate(w) /\ \A p : Untouched(p) => Untouched(p)'
    BY <1>1, <1>2, <1>4, <2>1, <2>2, <2>3, QuietMove
  <2>5. UNCHANGED <<deletedAt, issued, recalled>>
    BY <1>1, <1>4 DEF rows, Continue
  <2>6. Sensible(w)'
    BY <1>1, <2>2, <2>4, <2>5 DEF Good, Sensible
  <2>7. Justified(w)' /\ Thorough(w)'
    BY <1>1, <2>2, <2>4, <2>5, WordKept
  <2>8. ASSUME run[w].item \in Projects
        PROVE  run[w].item \in owned /\ Present(run[w].item)'
    <3>1. run[w].item \in owned
      BY <1>4, <2>8 DEF Of
    <3>2. PICK x \in owned : x = run[w].item
      BY <3>1
    <3>3. Present(x)
      BY <1>1 DEF RowsFit
    <3>4. run'[w].item = x /\ deletedAt' = deletedAt
      BY <2>2, <2>4, <2>5, <3>2
    <3>5. QED
      BY <3>2, <3>3, <3>4 DEF Present
  <2>9. Grounded(w)'
    BY <1>1, <2>2, <2>4, <2>8 DEF Grounded, Doing, At, Good, Sensible
  <2>10. Fledgling(w)'
    BY <2>2, <2>4 DEF Fledgling, At
  <2>11. Distant(w)
    <3> SUFFICES ASSUME NEW p \in Projects, Untouched(p), Away(w, p)
                 PROVE  Untouched(p)' /\ Away(w, p)'
      BY DEF Distant
    <3>1. run[w].item # p
      BY <2>8 DEF Untouched
    <3>2. Doomed(w)' = Doomed(w)
      BY <1>1, <2>2, <2>4 DEF Doomed
    <3>3. QED
      BY <2>2, <2>4, <3>1, <3>2 DEF Away
  <2>12. QED
    BY <2>4, <2>6, <2>7, <2>9, <2>10, <2>11 DEF Fine, Good
<1>5. QED
  BY <1>3, <1>4 DEF CheckRole

LEMMA InsertProjectIsFine ==
  ASSUME IInv, NEW w \in Goroutines, Watch, InsertProject(w)
  PROVE  Fine(w)
<1>1. /\ Busy(w) /\ run[w].stage = "write" /\ run[w].op = "create project"
      /\ run[w] \in Task /\ Good(w) /\ RowsFit /\ TypeOK
  BY TaskOf DEF InsertProject, Doing, At, IInv
<1>2. UNCHANGED <<home, owned, texts, now, requests, failures>>
  BY DEF InsertProject, counters
<1>3. PICK p \in Projects \ issued :
        /\ issued' = issued \union {p}
        /\ deletedAt' = [deletedAt EXCEPT ![p] = 0]
        /\ Continue(w, [run[w] EXCEPT !.stage = "owner", !.item = p])
  BY DEF InsertProject
<1>4. PICK t : t = [run[w] EXCEPT !.stage = "owner", !.item = p]
  OBVIOUS
<1>5. /\ t \in Task /\ t.op = "create project" /\ t.stage = "owner" /\ t.item = p
      /\ t.scripts = run[w].scripts /\ t.projects = run[w].projects
      /\ t.project = run[w].project /\ t.cutoff = run[w].cutoff
  BY <1>1, <1>4 DEF Task, Items
<1>6. run' = [run EXCEPT ![w] = t] /\ UNCHANGED recalled
  BY <1>3, <1>4 DEF Continue
<1>7. run'[w] = t /\ \A v \in Goroutines : v # w => run'[v] = run[v]
  BY <1>1, <1>6, Moved
<1>8. /\ p \in Items /\ p # NoItem /\ p \notin Scripts
      /\ deletedAt'[p] = 0 /\ \A x \in Items : x # p => deletedAt'[x] = deletedAt[x]
  BY <1>1, <1>3, IdsAssumption DEF TypeOK, Items
<1>9. TypeOK'
  <2>1. run' \in [Goroutines -> Task \union {Idle}]
    BY <1>1, <1>5, <1>6, RunType
  <2>2. deletedAt' \in [Items -> Nat \union {Absent}] /\ issued' \in SUBSET Items
    BY <1>1, <1>3, <1>8 DEF TypeOK
  <2>3. QED
    BY <1>1, <1>2, <1>6, <2>1, <2>2, WatchGrows DEF TypeOK
<1>10. RowsFit'
  BY <1>1, <1>2, <1>3, <1>8, AbsentAssumption DEF RowsFit, Present, TypeOK, Items
<1>11. Considerate(w)
  <2>1. issued \subseteq Items /\ p \notin issued /\ deletedAt[p] = Absent
    BY <1>1, <1>8 DEF TypeOK, RowsFit
  <2>2. \A x \in issued : deletedAt'[x] = deletedAt[x]
    BY <1>8, <2>1
  <2>3. \A x \in Items : Present(x) => Present(x)'
    BY <1>8, <2>1 DEF Present
  <2>4. \A s \in Scripts : Present(s)' => s \in issued
    BY <1>1, <1>8 DEF Present, RowsFit, Items
  <2>5. QED
    BY <1>2, <1>3, <1>6, <1>1, <2>2, <2>3, <2>4, WatchGrows DEF Considerate, Items
<1>12. Good(w)'
  <2>1. Sensible(w)'
    BY <1>1, <1>3, <1>5, <1>7 DEF Good, Sensible
  <2>2. Justified(w)' /\ Thorough(w)'
    BY <1>1, <1>5, <1>6, <1>7, <1>11, WordKept
  <2>3. Grounded(w)'
    BY <1>5, <1>7 DEF Grounded, Doing, At
  <2>4. QED
    BY <2>1, <2>2, <2>3 DEF Good
<1>13. \A v \in Goroutines : p \notin Doomed(v) /\ (Busy(v) => run[v].item # p)
  BY <1>3, <1>8 DEF IInv, Good, Sensible, Doomed
<1>14. Fledgling(w)'
  <2>1. Untouched(p)'
    BY <1>1, <1>2, <1>3, <1>8 DEF Untouched, RowsFit
  <2>2. (p \notin Doomed(w))'
    BY <1>1, <1>5, <1>7, <1>13 DEF Doomed, Busy
  <2>3. \A v \in Goroutines : v # w => Away(v, p)'
    BY <1>7, <1>13 DEF Away, Doomed, Busy
  <2>4. QED
    BY <1>5, <1>7, <2>1, <2>2, <2>3 DEF Fledgling
<1>15. Distant(w)
  <2> SUFFICES ASSUME NEW q \in Projects, q \in issued, Untouched(q), Away(w, q)
               PROVE  Untouched(q)' /\ Away(w, q)'
    BY DEF Distant
  <2>1. q # p /\ q \in Items
    BY <1>3 DEF Items
  <2>2. Untouched(q)'
    BY <1>2, <1>8, <2>1 DEF Untouched
  <2>3. (q \notin Doomed(w))'
    BY <1>1, <1>5, <1>7 DEF Doomed, Busy, Away
  <2>4. QED
    BY <1>5, <1>7, <2>1, <2>2, <2>3 DEF Away
<1>16. QED
  BY <1>7, <1>9, <1>10, <1>11, <1>12, <1>14, <1>15 DEF Fine

LEMMA InsertOwnerIsFine ==
  ASSUME IInv, NEW w \in Goroutines, Watch, InsertOwner(w)
  PROVE  Fine(w)
<1>1. /\ Busy(w) /\ run[w].stage = "owner"
      /\ Sensible(w) /\ Fledgling(w) /\ RowsFit /\ TypeOK
  BY DEF InsertOwner, At, IInv, Good
<1>2. PICK p : p = run[w].item
  OBVIOUS
<1>3. p \in Projects /\ p \in issued /\ Untouched(p)
  BY <1>1, <1>2, IdsAssumption DEF Sensible, Fledgling, At
<1>4. /\ owned' = owned \union {p} /\ End(w)
      /\ UNCHANGED <<deletedAt, home, texts, issued, now, requests, failures>>
  BY <1>2 DEF InsertOwner, counters
<1>5. run'[w] = Idle /\ \A v \in Goroutines : v # w => run'[v] = run[v]
  BY <1>1, <1>4, Moved DEF End
<1>6. TypeOK'
  <2>1. run' \in [Goroutines -> Task \union {Idle}]
    BY <1>1, <1>4, RunType DEF End
  <2>2. QED
    BY <1>1, <1>3, <1>4, <2>1, WatchGrows, RecalledKept DEF TypeOK
<1>7. RowsFit'
  <2>1. Present(p)
    BY <1>3, AbsentAssumption DEF Untouched, Present
  <2>2. QED
    BY <1>1, <1>3, <1>4, <2>1 DEF RowsFit, Present
<1>8. Considerate(w)
  <2>1. \A s \in Scripts : s \notin issued => ~Present(s)'
    BY <1>1, <1>4 DEF RowsFit, Present, Items
  <2>2. QED
    BY <1>1, <1>4, <2>1, WatchGrows, RecalledKept DEF Considerate, Present
<1>9. Distant(w)
  <2> SUFFICES ASSUME NEW q \in Projects, Untouched(q), Away(w, q)
               PROVE  Untouched(q)' /\ Away(w, q)'
    BY DEF Distant
  <2>1. q # p
    BY <1>1, <1>2 DEF Away
  <2>2. QED
    BY <1>4, <1>5, <2>1, EndedIsGood DEF Untouched
<1>10. QED
  BY <1>5, <1>6, <1>7, <1>8, <1>9, EndedIsGood DEF Fine

LEMMA InsertScriptIsFine ==
  ASSUME IInv, NEW w \in Goroutines, Watch, InsertScript(w)
  PROVE  Fine(w)
<1>1. /\ Busy(w) /\ run[w].stage = "write" /\ run[w].op = "create script"
      /\ run[w].item \in Projects /\ Doing(w, "create script", "write")
      /\ run[w] \in Task /\ Sensible(w) /\ RowsFit /\ TypeOK
  BY TaskOf DEF InsertScript, Doing, At, IInv, Good, Sensible
<1>2. UNCHANGED <<owned, texts, now, requests, failures>>
  BY DEF InsertScript, counters
<1>3. PICK s \in Scripts \ issued :
        /\ issued' = issued \union {s}
        /\ deletedAt' = [deletedAt EXCEPT ![s] = 0]
        /\ home' = [home EXCEPT ![s] = run[w].item]
        /\ Continue(w, [run[w] EXCEPT !.stage = "pilot", !.item = s])
  BY DEF InsertScript
<1>4. PICK t : t = [run[w] EXCEPT !.stage = "pilot", !.item = s]
  OBVIOUS
<1>5. /\ t \in Task /\ t.op = "create script" /\ t.stage = "pilot" /\ t.item = s
      /\ t.scripts = run[w].scripts /\ t.projects = run[w].projects
      /\ t.project = run[w].project /\ t.cutoff = run[w].cutoff
  BY <1>1, <1>4 DEF Task, Items
<1>6. run' = [run EXCEPT ![w] = t] /\ UNCHANGED recalled
  BY <1>3, <1>4 DEF Continue
<1>7. run'[w] = t /\ \A v \in Goroutines : v # w => run'[v] = run[v]
  BY <1>1, <1>6, Moved
<1>8. /\ s \in Items /\ s \notin Projects
      /\ deletedAt'[s] = 0 /\ \A x \in Items : x # s => deletedAt'[x] = deletedAt[x]
      /\ home'[s] = run[w].item /\ \A r \in Scripts : r # s => home'[r] = home[r]
  BY <1>1, <1>3, IdsAssumption DEF TypeOK, Items
<1>9. TypeOK'
  <2>1. run' \in [Goroutines -> Task \union {Idle}]
    BY <1>1, <1>5, <1>6, RunType
  <2>2. deletedAt' \in [Items -> Nat \union {Absent}] /\ issued' \in SUBSET Items
    BY <1>1, <1>3, <1>8 DEF TypeOK
  <2>3. home' \in [Scripts -> Projects \union {NoItem}]
    BY <1>1, <1>3 DEF TypeOK
  <2>4. QED
    BY <1>1, <1>2, <1>6, <2>1, <2>2, <2>3, WatchGrows DEF TypeOK
<1>10. RowsFit'
  BY <1>1, <1>2, <1>3, <1>8, AbsentAssumption, ZenonT(60) DEF RowsFit, Present, TypeOK, Items
<1>11. Considerate(w)
  <2>1. issued \subseteq Items /\ s \notin issued /\ deletedAt[s] = Absent
    BY <1>1, <1>8 DEF TypeOK, RowsFit
  <2>2. \A x \in issued : deletedAt'[x] = deletedAt[x]
    BY <1>8, <2>1
  <2>3. \A x \in Items : Present(x) => Present(x)'
    BY <1>8, <2>1 DEF Present
  <2>4. \A r \in Scripts : Present(r)' /\ r \notin issued => r = s
    BY <1>1, <1>8 DEF Present, RowsFit, Items
  <2>5. \A r \in Scripts : r \in issued => home'[r] = home[r]
    BY <1>8, <2>1
  <2>6. QED
    BY <1>1, <1>2, <1>3, <1>6, <1>8, <2>2, <2>3, <2>4, <2>5, WatchGrows
       DEF Considerate, Items
<1>12. Good(w)'
  <2>1. Sensible(w)'
    BY <1>1, <1>3, <1>5, <1>7 DEF Sensible
  <2>2. Justified(w)' /\ Thorough(w)'
    BY <1>1, <1>5, <1>6, <1>7, <1>11, WordKept
  <2>3. Present(s)'
    BY <1>8, AbsentAssumption DEF Present
  <2>4. Grounded(w)'
    BY <1>5, <1>7, <2>3 DEF Grounded, Present
  <2>5. QED
    BY <2>1, <2>2, <2>4 DEF Good
<1>13. Fledgling(w)'
  BY <1>5, <1>7 DEF Fledgling, At
<1>14. Distant(w)
  <2> SUFFICES ASSUME NEW q \in Projects, Untouched(q), Away(w, q)
               PROVE  Untouched(q)' /\ Away(w, q)'
    BY DEF Distant
  <2>1. q # s /\ q \in Items
    BY <1>8 DEF Items
  <2>2. Untouched(q)'
    BY <1>2, <1>8, <2>1 DEF Untouched
  <2>3. (q \notin Doomed(w))'
    BY <1>1, <1>5, <1>7 DEF Doomed, Busy, Away
  <2>4. QED
    BY <1>5, <1>7, <2>1, <2>2, <2>3 DEF Away
<1>15. QED
  BY <1>7, <1>9, <1>10, <1>11, <1>12, <1>13, <1>14 DEF Fine

LEMMA InsertPilotIsFine ==
  ASSUME IInv, NEW w \in Goroutines, Watch, InsertPilot(w)
  PROVE  Fine(w)
<1>1. At(w, "pilot") /\ run[w].item \in Scripts /\ RowsFit /\ TypeOK
  BY DEF InsertPilot, At, IInv, Good, Sensible
<1>2. /\ texts' = texts \union {run[w].item} /\ End(w)
      /\ UNCHANGED <<deletedAt, home, owned, issued, now, requests, failures>>
  BY DEF InsertPilot, counters
<1>3. run'[w] = Idle /\ \A v \in Goroutines : v # w => run'[v] = run[v]
  BY <1>1, <1>2, Moved DEF End
<1>4. TypeOK'
  <2>1. run' \in [Goroutines -> Task \union {Idle}]
    BY <1>1, <1>2, RunType DEF End
  <2>2. texts' \in SUBSET Scripts
    BY <1>1, <1>2 DEF TypeOK
  <2>3. QED
    BY <1>1, <1>2, <2>1, <2>2, WatchGrows, RecalledKept DEF TypeOK
<1>5. RowsFit'
  BY <1>1, <1>2 DEF RowsFit, Present
<1>6. Considerate(w)
  <2>1. \A s \in Scripts : s \notin issued => ~Present(s)'
    BY <1>1, <1>2 DEF RowsFit, Present, Items
  <2>2. QED
    BY <1>1, <1>2, <2>1, WatchGrows, RecalledKept DEF Considerate, Present
<1>7. Distant(w)
  BY <1>2, <1>3, EndedIsGood DEF Distant, Untouched
<1>8. QED
  BY <1>3, <1>4, <1>5, <1>6, <1>7, EndedIsGood DEF Fine

LEMMA SoftDeleteIsFine ==
  ASSUME IInv, NEW w \in Goroutines, Watch, SoftDelete(w)
  PROVE  Fine(w)
<1>1. /\ At(w, "write") /\ run[w].item \in Items /\ run[w].item # NoItem
      /\ RowsFit /\ TypeOK
  BY IdsAssumption DEF SoftDelete, Doing, At, IInv, Good, Sensible, Items
<1>2. PICK x \in Items : x = run[w].item
  BY <1>1
<1>3. /\ deletedAt' = IF deletedAt[x] = 0 THEN [deletedAt EXCEPT ![x] = now] ELSE deletedAt
      /\ End(w) /\ UNCHANGED <<home, owned, texts, issued, now, requests, failures>>
  BY <1>2 DEF SoftDelete, counters
<1>4. now \in Nat /\ now # Absent
  BY <1>1, AbsentAssumption DEF TypeOK
<1>5. /\ \A y \in Items : deletedAt'[y] = deletedAt[y] \/ (y = x /\ deletedAt[y] = 0)
      /\ \A y \in Items : Present(y)' <=> Present(y)
      /\ deletedAt' \in [Items -> Nat \union {Absent}]
  BY <1>1, <1>3, <1>4, AbsentAssumption DEF TypeOK, Present
<1>6. run'[w] = Idle /\ \A v \in Goroutines : v # w => run'[v] = run[v]
  BY <1>1, <1>3, Moved DEF End
<1>7. TypeOK'
  <2>1. run' \in [Goroutines -> Task \union {Idle}]
    BY <1>1, <1>3, RunType DEF End
  <2>2. QED
    BY <1>1, <1>3, <1>5, <2>1, WatchGrows, RecalledKept DEF TypeOK
<1>8. RowsFit'
  BY <1>1, <1>3, <1>5 DEF RowsFit, Present, TypeOK, Items
<1>9. Considerate(w)
  <2>1. issued \subseteq Items
    BY <1>1 DEF TypeOK
  <2>2. \A s \in Scripts : s \notin issued => ~Present(s)'
    BY <1>1, <1>5 DEF RowsFit, Present, Items
  <2>3. \A y \in issued : deletedAt[y] = Absent => deletedAt'[y] = Absent
    BY <1>5, <2>1 DEF Present
  <2>4. QED
    BY <1>1, <1>3, <1>5, <2>1, <2>2, <2>3, WatchGrows, RecalledKept
       DEF Considerate, Items
<1>10. Distant(w)
  <2> SUFFICES ASSUME NEW q \in Projects, Untouched(q), Away(w, q)
               PROVE  Untouched(q)' /\ Away(w, q)'
    BY DEF Distant
  <2>1. q # x /\ q \in Items
    BY <1>1, <1>2 DEF Away, At, Items
  <2>2. QED
    BY <1>3, <1>5, <1>6, <2>1, EndedIsGood DEF Untouched
<1>11. QED
  BY <1>6, <1>7, <1>8, <1>9, <1>10, EndedIsGood DEF Fine

LEMMA RestoreIsFine ==
  ASSUME IInv, NEW w \in Goroutines, Watch, Restore(w)
  PROVE  Fine(w)
<1>1. RowsFit /\ TypeOK /\ run[w].item \in Items
  BY DEF Restore, Doing, At, IInv, Good, Sensible
<1>2. PICK x \in Items : x = run[w].item
  BY <1>1
<1>3. /\ deletedAt' = IF Trashed(x) THEN [deletedAt EXCEPT ![x] = 0] ELSE deletedAt
      /\ recalled' = recalled \union {<<v, x>> : v \in {v \in Goroutines : x \in Doomed(v)}}
      /\ run' = [run EXCEPT ![w] = Idle]
      /\ UNCHANGED <<home, owned, texts, issued, now, requests, failures>>
  BY <1>2 DEF Restore, counters
<1>4. /\ \A y \in Items : deletedAt'[y] = deletedAt[y] \/ y = x
      /\ \A y \in Items : Present(y)' <=> Present(y)
      /\ \A y \in Items : deletedAt[y] = 0 => deletedAt'[y] = 0
      /\ deletedAt' \in [Items -> Nat \union {Absent}]
  BY <1>1, <1>3, AbsentAssumption DEF TypeOK, Present, Trashed
<1>5. \A v \in Goroutines : x \in Doomed(v) => <<v, x>> \in recalled'
  BY <1>3
<1>6. recalled \subseteq recalled' /\ recalled' \in SUBSET (Goroutines \X Items)
  BY <1>1, <1>3 DEF TypeOK
<1>7. run'[w] = Idle /\ \A v \in Goroutines : v # w => run'[v] = run[v]
  BY <1>1, <1>3, Moved
<1>8. TypeOK'
  <2>1. run' \in [Goroutines -> Task \union {Idle}]
    BY <1>1, <1>3, RunType
  <2>2. QED
    BY <1>1, <1>3, <1>4, <1>6, <2>1, WatchGrows DEF TypeOK
<1>9. RowsFit'
  BY <1>1, <1>3, <1>4 DEF RowsFit, Present, TypeOK, Items
<1>10. Considerate(w)
  <2>1. issued \subseteq Items
    BY <1>1 DEF TypeOK
  <2>2. \A s \in Scripts : s \notin issued => ~Present(s)'
    BY <1>1, <1>4 DEF RowsFit, Present, Items
  <2>3. \A y \in issued : deletedAt[y] = Absent => deletedAt'[y] = Absent
    BY <1>4, <2>1 DEF Present
  <2>4. QED
    BY <1>1, <1>3, <1>4, <1>5, <1>6, <2>1, <2>2, <2>3, WatchGrows, ZenonT(60)
       DEF Considerate, Items
<1>11. Distant(w)
  BY <1>3, <1>4, <1>7, EndedIsGood DEF Distant, Untouched, Items
<1>12. QED
  BY <1>7, <1>8, <1>9, <1>10, <1>11, EndedIsGood DEF Fine

(* A goroutine goes on to a list of what it is to purge. *)
LEMMA PurgeIsFine ==
  ASSUME IInv, NEW w \in Goroutines, Watch, UNCHANGED rows, NEW t \in Task,
         Continue(w, t), UNCHANGED counters,
         t.stage \in {"purge", "expired scripts"},
         t.op = "expire" <=> w = Job,
         t.item # NoItem => t.item \in issued,
         t.op \in {"delete", "restore", "purge now"} => t.item \in Items,
         t.item # NoItem => Busy(w) /\ run[w].item = t.item /\ run[w].stage # "role",
         t.project # NoItem => t.project \in Doomed(w) /\ t.project \in issued,
         \A x \in t.projects : x \in Doomed(w) \/ Trashed(x),
         \A x \in t.projects : x \in issued,
         \A x \in t.scripts : x \in issued
  PROVE  TypeOK' /\ run'[w] = t /\ Busy(w)' /\ UNCHANGED <<deletedAt, home, recalled>>
         /\ (Justified(w)' /\ Thorough(w)' => Fine(w))
<1>1. TypeOK
  BY DEF IInv
<1>2. requests' \in 0..MaxRequests
  BY <1>1 DEF counters, TypeOK
<1>3. /\ run'[w] = t /\ Busy(w)'
      /\ TypeOK' /\ RowsFit'
      /\ \A v \in Goroutines : v # w => run'[v] = run[v]
      /\ Considerate(w) /\ \A p : Untouched(p) => Untouched(p)'
  BY <1>2, QuietMove DEF counters
<1>4. UNCHANGED <<deletedAt, home, issued, recalled>>
  BY DEF rows, Continue
<1>5. Sensible(w)'
  BY <1>3, <1>4 DEF Sensible
<1>6. Grounded(w)' /\ Fledgling(w)'
  BY <1>3 DEF Grounded, Fledgling, Doing, At
<1>7. Distant(w)
  <2> SUFFICES ASSUME NEW p \in Projects, Untouched(p), Away(w, p)
               PROVE  Away(w, p)'
    BY <1>3 DEF Distant
  <2>1. t.scripts \subseteq Scripts
    BY TaskFields
  <2>2. p \notin t.scripts /\ p # NoItem
    BY <2>1, IdsAssumption
  <2>3. ~Trashed(p) /\ p \notin Doomed(w)
    BY DEF Untouched, Trashed, Away
  <2>4. p \notin t.projects /\ p # t.project
    BY <2>2, <2>3
  <2>5. p # t.item
    BY <2>2 DEF Away
  <2>6. QED
    BY <1>3, <2>2, <2>4, <2>5 DEF Away, Doomed
<1>8. QED
  BY <1>3, <1>4, <1>5, <1>6, <1>7 DEF Fine, Good

LEMMA TrashedIsIssued ==
  ASSUME RowsFit, NEW x \in Items, Present(x) \/ Trashed(x)
  PROVE  x \in issued
  BY DEF RowsFit, Present, Trashed

LEMMA CheckTrashIsFine ==
  ASSUME IInv, NEW w \in Goroutines, Watch, CheckTrash(w)
  PROVE  Fine(w)
<1>1. /\ Busy(w) /\ run[w].stage = "write" /\ run[w].op = "purge now"
      /\ run[w].item \in Items /\ run[w] \in Task /\ w # Job
      /\ UNCHANGED rows /\ UNCHANGED counters /\ TypeOK /\ RowsFit
  BY TaskOf DEF CheckTrash, Doing, At, IInv, Good, Sensible
<1>2. PICK x \in Items : x = run[w].item
  BY <1>1
<1>3. CASE End(w)
  BY <1>1, <1>3, QuietEnd DEF TypeOK, counters
<1>4. CASE Trashed(x) /\ Purge(w, {x} \cap Scripts, {x} \cap Projects, NoItem)
  <2>1. PICK t : t = [run[w] EXCEPT !.stage = "purge", !.scripts = {x} \cap Scripts,
                                    !.projects = {x} \cap Projects, !.project = NoItem]
    OBVIOUS
  <2>2. /\ t \in Task /\ t.op = "purge now" /\ t.stage = "purge" /\ t.item = x
        /\ t.scripts = {x} \cap Scripts /\ t.projects = {x} \cap Projects
        /\ t.project = NoItem
    BY <1>1, <1>2, <2>1 DEF Task
  <2>3. Continue(w, t)
    BY <1>4, <2>1 DEF Purge
  <2>4. x \in issued
    BY <1>1, <1>4, TrashedIsIssued
  <2>5. /\ run'[w] = t /\ UNCHANGED deletedAt
        /\ (Justified(w)' /\ Thorough(w)' => Fine(w))
    BY <1>1, <1>2, <1>4, <2>2, <2>3, <2>4, PurgeIsFine
  <2>6. Reason(w, x)'
    BY <1>1, <1>4, <2>5 DEF Reason, Trashed
  <2>7. Justified(w)' /\ Thorough(w)'
    BY <2>2, <2>5, <2>6 DEF Justified, Thorough
  <2>8. QED
    BY <2>5, <2>7
<1>5. QED
  BY <1>2, <1>3, <1>4 DEF CheckTrash

LEMMA ListExpiredScriptsIsFine ==
  ASSUME IInv, Watch, ListExpiredScripts
  PROVE  Fine(Job)
<1>1. /\ ~Busy(Job) /\ UNCHANGED rows /\ UNCHANGED counters /\ TypeOK /\ RowsFit
      /\ Job \in Goroutines
  BY DEF ListExpiredScripts, IInv, Goroutines
<1>2. PICK listed : listed = {s \in Scripts : Expired(s, now)}
  OBVIOUS
<1>3. PICK t : t = [Start("expire", "expired scripts", NoItem)
                      EXCEPT !.scripts = listed, !.cutoff = now]
  OBVIOUS
<1>4. now \in Nat
  BY <1>1 DEF TypeOK
<1>5. /\ t \in Task /\ t.op = "expire" /\ t.stage = "expired scripts" /\ t.item = NoItem
      /\ t.scripts = listed /\ t.projects = {} /\ t.project = NoItem /\ t.cutoff = now
  BY <1>2, <1>3, <1>4 DEF Start, Task
<1>6. Continue(Job, t)
  BY <1>2, <1>3 DEF ListExpiredScripts
<1>7. \A x \in listed : x \in issued /\ Expired(x, now)
  BY <1>1, <1>2, TrashedIsIssued DEF Expired, Items
<1>8. /\ run'[Job] = t /\ UNCHANGED deletedAt
      /\ (Justified(Job)' /\ Thorough(Job)' => Fine(Job))
  BY <1>1, <1>5, <1>6, <1>7, PurgeIsFine
<1>9. \A x \in listed : Reason(Job, x)'
  BY <1>5, <1>7, <1>8 DEF Reason, Expired, Trashed
<1>10. Justified(Job)' /\ Thorough(Job)'
  BY <1>5, <1>8, <1>9 DEF Justified, Thorough
<1>11. QED
  BY <1>8, <1>10

LEMMA ListExpiredProjectsIsFine ==
  ASSUME IInv, Watch, ListExpiredProjects
  PROVE  Fine(Job)
<1>1. /\ Busy(Job) /\ run[Job].stage = "expired scripts" /\ run[Job].op = "expire"
      /\ run[Job] \in Task /\ Sensible(Job)
      /\ UNCHANGED rows /\ UNCHANGED counters /\ TypeOK /\ RowsFit /\ Job \in Goroutines
  BY TaskOf DEF ListExpiredProjects, At, IInv, Good, Sensible, Goroutines
<1>2. PICK time : time = run[Job].cutoff
  OBVIOUS
<1>3. PICK listed : listed = {p \in Projects : Expired(p, time)}
  OBVIOUS
<1>4. PICK t : t = [run[Job] EXCEPT !.stage = "purge", !.scripts = {},
                                    !.projects = listed, !.project = NoItem]
  OBVIOUS
<1>5. /\ t \in Task /\ t.op = "expire" /\ t.stage = "purge" /\ t.item = run[Job].item
      /\ t.scripts = {} /\ t.projects = listed /\ t.project = NoItem /\ t.cutoff = time
  BY <1>1, <1>2, <1>3, <1>4 DEF Task
<1>6. Continue(Job, t)
  BY <1>2, <1>3, <1>4 DEF ListExpiredProjects, Purge
<1>7. \A x \in listed : x \in issued /\ Expired(x, time) /\ Trashed(x)
  BY <1>1, <1>3, TrashedIsIssued DEF Expired, Items
<1>8. /\ run'[Job] = t /\ UNCHANGED deletedAt
      /\ (Justified(Job)' /\ Thorough(Job)' => Fine(Job))
  BY <1>1, <1>5, <1>6, <1>7, PurgeIsFine DEF Sensible
<1>9. \A x \in listed : Reason(Job, x)'
  BY <1>5, <1>7, <1>8 DEF Reason, Expired, Trashed
<1>10. Justified(Job)' /\ Thorough(Job)'
  BY <1>5, <1>8, <1>9 DEF Justified, Thorough
<1>11. QED
  BY <1>8, <1>10

LEMMA ListProjectScriptsIsFine ==
  ASSUME IInv, NEW w \in Goroutines, Watch, ListProjectScripts(w)
  PROVE  Fine(w)
<1>1. /\ Busy(w) /\ run[w].stage = "purge" /\ run[w] \in Task
      /\ Sensible(w) /\ Justified(w)
      /\ UNCHANGED rows /\ UNCHANGED counters /\ TypeOK /\ RowsFit
  BY TaskOf DEF ListProjectScripts, At, IInv, Good
<1>2. PICK p \in run[w].projects :
        Purge(w, {s \in Scripts : Present(s) /\ home[s] = p}, run[w].projects \ {p}, p)
  BY DEF ListProjectScripts
<1>3. PICK listed : listed = {s \in Scripts : Present(s) /\ home[s] = p}
  OBVIOUS
<1>4. p \in Projects /\ p \in issued /\ p \in Doomed(w) /\ Reason(w, p)
  BY <1>1, TaskFields DEF Sensible, Justified, Doomed
<1>5. PICK t : t = [run[w] EXCEPT !.stage = "purge", !.scripts = listed,
                                  !.projects = run[w].projects \ {p}, !.project = p]
  OBVIOUS
<1>6. /\ t \in Task /\ t.op = run[w].op /\ t.stage = "purge" /\ t.item = run[w].item
      /\ t.scripts = listed /\ t.projects = run[w].projects \ {p} /\ t.project = p
      /\ t.cutoff = run[w].cutoff
  BY <1>1, <1>3, <1>4, <1>5 DEF Task
<1>7. Continue(w, t)
  BY <1>2, <1>3, <1>5 DEF Purge
<1>8. /\ \A x \in t.projects : x \in Doomed(w) /\ x \in issued
      /\ \A x \in t.scripts : x \in issued
  BY <1>1, <1>3, <1>6, TrashedIsIssued DEF Sensible, Doomed, Items
<1>10. /\ run'[w] = t /\ UNCHANGED <<deletedAt, home, recalled>>
       /\ (Justified(w)' /\ Thorough(w)' => Fine(w))
  BY <1>1, <1>4, <1>6, <1>7, <1>8, PurgeIsFine DEF Sensible
<1>11. \A x : Reason(w, x) => Reason(w, x)'
  BY <1>6, <1>10 DEF Reason, Present, Trashed, Expired
<1>12. Justified(w)'
  BY <1>1, <1>3, <1>4, <1>6, <1>10, <1>11 DEF Justified
<1>13. Thorough(w)'
  BY <1>3, <1>6, <1>10 DEF Thorough, Present
<1>14. QED
  BY <1>10, <1>12, <1>13

LEMMA PurgeScriptIsFine ==
  ASSUME IInv, NEW w \in Goroutines, Watch, PurgeScript(w)
  PROVE  Fine(w)
<1>1. /\ Busy(w) /\ run[w] \in Task /\ run[w].scripts \subseteq Scripts
      /\ Sensible(w) /\ Fledgling(w) /\ RowsFit /\ TypeOK
  BY TaskOf, TaskFields DEF PurgeScript, IInv, Good
<1>2. PICK s \in run[w].scripts :
        /\ deletedAt' = [deletedAt EXCEPT ![s] = Absent]
        /\ texts' = texts \ {s}
        /\ Continue(w, [run[w] EXCEPT !.scripts = @ \ {s}])
  BY DEF PurgeScript
<1>3. UNCHANGED <<home, owned, issued, now, requests, failures>>
  BY DEF PurgeScript, counters
<1>4. PICK t : t = [run[w] EXCEPT !.scripts = run[w].scripts \ {s}]
  OBVIOUS
<1>5. /\ t \in Task /\ t.op = run[w].op /\ t.stage = run[w].stage /\ t.item = run[w].item
      /\ t.scripts = run[w].scripts \ {s} /\ t.projects = run[w].projects
      /\ t.project = run[w].project /\ t.cutoff = run[w].cutoff
  BY <1>1, <1>4 DEF Task
<1>6. run' = [run EXCEPT ![w] = t] /\ UNCHANGED recalled
  BY <1>2, <1>4 DEF Continue
<1>7. run'[w] = t /\ \A v \in Goroutines : v # w => run'[v] = run[v]
  BY <1>1, <1>6, Moved
<1>8. /\ s \in Items /\ s \notin Projects /\ s \in Doomed(w)
      /\ deletedAt'[s] = Absent /\ \A x \in Items : x # s => deletedAt'[x] = deletedAt[x]
  BY <1>1, <1>2, IdsAssumption DEF TypeOK, Items, Doomed
<1>9. TypeOK'
  <2>1. run' \in [Goroutines -> Task \union {Idle}]
    BY <1>1, <1>5, <1>6, RunType
  <2>2. deletedAt' \in [Items -> Nat \union {Absent}] /\ texts' \in SUBSET Scripts
    BY <1>1, <1>2 DEF TypeOK
  <2>3. QED
    BY <1>1, <1>3, <1>6, <2>1, <2>2, WatchGrows DEF TypeOK
<1>10. RowsFit'
  BY <1>1, <1>3, <1>8 DEF RowsFit, Present, TypeOK, Items
<1>11. Considerate(w)
  <2>1. issued \subseteq Items
    BY <1>1 DEF TypeOK
  <2>2. \A x \in Items : Present(x) /\ ~Present(x)' => x = s
    BY <1>8 DEF Present
  <2>3. \A r \in Scripts : r \notin issued => ~Present(r)'
    BY <1>1, <1>8 DEF RowsFit, Present, Items
  <2>4. QED
    BY <1>1, <1>2, <1>3, <1>6, <1>8, <2>1, <2>2, <2>3, WatchGrows
       DEF Considerate, Items
<1>12. Good(w)'
  <2>1. Sensible(w)'
    BY <1>1, <1>3, <1>5, <1>7 DEF Sensible
  <2>2. ~Present(s)'
    BY <1>8 DEF Present
  <2>3. \A r \in run[w].scripts : r \in run'[w].scripts \/ ~Present(r)'
    BY <1>5, <1>7, <2>2
  <2>4. Justified(w)' /\ Thorough(w)'
    BY <1>1, <1>5, <1>6, <1>7, <1>11, <2>3, WordKept
  <2>5. Grounded(w)'
    BY <1>1, <1>5, <1>7, <1>11, GroundKept
  <2>6. QED
    BY <2>1, <2>4, <2>5 DEF Good
<1>13. Distant(w)
  <2> SUFFICES ASSUME NEW q \in Projects, Untouched(q), Away(w, q)
               PROVE  Untouched(q)' /\ Away(w, q)'
    BY DEF Distant
  <2>1. q # s /\ q \in Items
    BY <1>8 DEF Items
  <2>2. Untouched(q)'
    BY <1>3, <1>8, <2>1 DEF Untouched
  <2>3. (q \notin Doomed(w))'
    BY <1>1, <1>5, <1>7 DEF Doomed, Busy, Away
  <2>4. QED
    BY <1>1, <1>5, <1>7, <2>2, <2>3 DEF Away
<1>14. Fledgling(w)'
  <2> SUFFICES ASSUME run[w].stage = "owner"
               PROVE  Fledgling(w)'
    BY <1>5, <1>7 DEF Fledgling, At
  <2>1. PICK p : p = run[w].item /\ p = run'[w].item
    BY <1>5, <1>7
  <2>2. /\ p \in Items /\ p # s /\ Untouched(p) /\ p \notin Doomed(w)
        /\ \A v \in Goroutines : v # w => Away(v, p)
    BY <1>1, <1>8, <2>1 DEF Fledgling, Sensible, At, Items
  <2>3. Untouched(p)'
    BY <1>3, <1>8, <2>2 DEF Untouched
  <2>4. (p \notin Doomed(w))'
    BY <1>1, <1>5, <1>7, <2>2 DEF Doomed, Busy
  <2>5. \A v \in Goroutines : v # w => Away(v, p)'
    BY <1>7, <2>2 DEF Away, Doomed, Busy
  <2>6. QED
    BY <2>1, <2>3, <2>4, <2>5 DEF Fledgling
<1>15. QED
  BY <1>7, <1>9, <1>10, <1>11, <1>12, <1>13, <1>14 DEF Fine

LEMMA PurgeProjectRowIsFine ==
  ASSUME IInv, NEW w \in Goroutines, Watch, PurgeProjectRow(w)
  PROVE  Fine(w)
<1>1. /\ Busy(w) /\ run[w].stage = "purge" /\ run[w].scripts = {}
      /\ run[w] \in Task /\ Sensible(w) /\ RowsFit /\ TypeOK
  BY TaskOf DEF PurgeProjectRow, At, IInv, Good
<1>2. PICK p \in Projects : p = run[w].project
  BY <1>1, TaskFields DEF PurgeProjectRow
<1>3. /\ deletedAt' = [deletedAt EXCEPT ![p] = Absent] /\ owned' = owned \ {p}
      /\ UNCHANGED <<home, texts, issued, now, requests, failures>>
  BY <1>2 DEF PurgeProjectRow, counters
<1>4. PICK t : t = [run[w] EXCEPT !.project = NoItem]
  OBVIOUS
<1>5. /\ t \in Task /\ t.op = run[w].op /\ t.stage = "purge" /\ t.item = run[w].item
      /\ t.scripts = {} /\ t.projects = run[w].projects
      /\ t.project = NoItem /\ t.cutoff = run[w].cutoff
  BY <1>1, <1>4 DEF Task
<1>6. run' = [run EXCEPT ![w] = t] /\ UNCHANGED recalled
  BY <1>4 DEF PurgeProjectRow, Continue
<1>7. run'[w] = t /\ \A v \in Goroutines : v # w => run'[v] = run[v]
  BY <1>1, <1>6, Moved
<1>8. /\ p \in Items /\ p \notin Scripts /\ p \in Doomed(w)
      /\ deletedAt'[p] = Absent /\ \A x \in Items : x # p => deletedAt'[x] = deletedAt[x]
  BY <1>1, <1>2, <1>3, IdsAssumption DEF TypeOK, Items, Doomed
<1>9. TypeOK'
  <2>1. run' \in [Goroutines -> Task \union {Idle}]
    BY <1>1, <1>5, <1>6, RunType
  <2>2. deletedAt' \in [Items -> Nat \union {Absent}]
    BY <1>1, <1>3 DEF TypeOK
  <2>3. QED
    BY <1>1, <1>3, <1>6, <2>1, <2>2, WatchGrows DEF TypeOK
<1>10. RowsFit'
  BY <1>1, <1>3, <1>8 DEF RowsFit, Present, TypeOK, Items
<1>11. Considerate(w)
  <2>1. issued \subseteq Items /\ texts \subseteq Scripts
    BY <1>1 DEF TypeOK
  <2>2. \A x \in Items : Present(x) /\ ~Present(x)' => x = p
    BY <1>8 DEF Present
  <2>3. \A r \in Scripts : r \notin issued => ~Present(r)'
    BY <1>1, <1>8 DEF RowsFit, Present, Items
  <2>4. QED
    BY <1>1, <1>2, <1>3, <1>6, <1>8, <2>1, <2>2, <2>3, WatchGrows
       DEF Considerate, Items
<1>12. Good(w)'
  <2>1. Sensible(w)'
    BY <1>1, <1>3, <1>5, <1>7 DEF Sensible
  <2>2. Justified(w)' /\ Thorough(w)'
    BY <1>1, <1>5, <1>6, <1>7, <1>11, WordKept
  <2>3. Grounded(w)'
    BY <1>5, <1>7 DEF Grounded, Doing, At
  <2>4. QED
    BY <2>1, <2>2, <2>3 DEF Good
<1>13. Distant(w)
  <2> SUFFICES ASSUME NEW q \in Projects, Untouched(q), Away(w, q)
               PROVE  Untouched(q)' /\ Away(w, q)'
    BY DEF Distant
  <2>1. q # p /\ q \in Items /\ q # NoItem
    BY <1>8, IdsAssumption DEF Items, Away
  <2>2. Untouched(q)'
    BY <1>3, <1>8, <2>1 DEF Untouched
  <2>3. (q \notin Doomed(w))'
    BY <1>1, <1>5, <1>7, <2>1 DEF Doomed, Busy, Away
  <2>4. QED
    BY <1>1, <1>5, <1>7, <2>2, <2>3 DEF Away
<1>14. Fledgling(w)'
  BY <1>5, <1>7 DEF Fledgling, At
<1>15. QED
  BY <1>7, <1>9, <1>10, <1>11, <1>12, <1>13, <1>14 DEF Fine

LEMMA PurgedIsFine ==
  ASSUME IInv, NEW w \in Goroutines, Watch, Purged(w)
  PROVE  Fine(w)
BY QuietEnd DEF Purged, counters, IInv, TypeOK

LEMMA FailIsFine ==
  ASSUME IInv, NEW w \in Goroutines, Watch, Fail(w)
  PROVE  Fine(w)
<1>1. failures' = failures + 1 /\ failures < MaxFailures
  BY DEF Fail
<1>2. failures \in 0..MaxFailures /\ MaxFailures \in Nat
  BY TimesAssumption DEF IInv, TypeOK
<1>3. failures' \in 0..MaxFailures
  BY <1>1, <1>2
<1>4. UNCHANGED rows /\ End(w) /\ now' = now /\ requests' = requests
  BY DEF Fail
<1>5. QED
  BY <1>3, <1>4, QuietEnd

LEMMA TickIsFine ==
  ASSUME IInv, Watch, Tick
  PROVE  Fine(Job)
<1>1. TypeOK /\ RowsFit /\ Job \in Goroutines /\ Good(Job) /\ Fledgling(Job)
  BY DEF IInv, Goroutines
<1>2. UNCHANGED <<rows, run, requests, failures, recalled>>
  BY DEF Tick
<1>3. UNCHANGED <<deletedAt, home, owned, texts, issued>>
  BY <1>2 DEF rows
<1>4. now' \in 1..MaxTime
  <2>1. now' = now + 1 /\ now < MaxTime
    BY DEF Tick
  <2>2. now \in 1..MaxTime /\ MaxTime \in Nat
    BY <1>1, TimesAssumption DEF TypeOK
  <2>3. QED
    BY <2>1, <2>2
<1>5. TypeOK'
  BY <1>1, <1>2, <1>3, <1>4, WatchGrows DEF TypeOK
<1>6. Considerate(Job) /\ RowsFit'
  BY <1>1, <1>2, QuietIsConsiderate
<1>7. Good(Job)'
  <2>1. Sensible(Job)'
    BY <1>1, <1>2, <1>3 DEF Good, Sensible, Busy
  <2>2. CASE Busy(Job)
    <3>1. Justified(Job)' /\ Thorough(Job)'
      BY <1>1, <1>2, <1>6, <2>2, WordKept
    <3>2. Grounded(Job)'
      BY <1>1, <1>2, <1>6, <2>2, GroundKept
    <3>3. QED
      BY <2>1, <3>1, <3>2 DEF Good
  <2>3. CASE ~Busy(Job)
    BY <1>2, <2>1, <2>3 DEF Good, Justified, Thorough, Grounded, Doing, At, Busy
  <2>4. QED
    BY <2>2, <2>3
<1>8. Fledgling(Job)' /\ Distant(Job)
  BY <1>1, <1>2, <1>3 DEF Fledgling, Distant, Untouched, Away, Doomed, At, Busy
<1>9. QED
  BY <1>1, <1>2, <1>5, <1>6, <1>7, <1>8 DEF Fine

-----------------------------------------------------------------------------
LEMMA InitIInv ==
  ASSUME Init
  PROVE  IInv
<1>1. PICK made : /\ made = issued
                  /\ made = {} \/ \E p \in Projects, s \in Scripts : made = {p, s}
                  /\ \/ made = {} /\ home = [s \in Scripts |-> NoItem]
                     \/ \E p \in made \cap Projects :
                          home = [s \in Scripts |-> IF s \in made THEN p ELSE NoItem]
  BY DEF Init
<1>2. /\ made \subseteq Items
      /\ home \in [Scripts -> Projects \union {NoItem}]
      /\ \A s \in Scripts : s \in made => home[s] \in made \cap Projects
  BY <1>1 DEF Items
<1>3. /\ deletedAt = [x \in Items |-> IF x \in made THEN 0 ELSE Absent]
      /\ owned = made \cap Projects /\ texts = made \cap Scripts
      /\ run = [w \in Goroutines |-> Idle]
      /\ now = 1 /\ requests = 0 /\ failures = 0 /\ recalled = {} /\ raced = {}
  BY <1>1 DEF Init
<1>4. \A x \in Items : Present(x) <=> x \in made
  BY <1>3, AbsentAssumption DEF Present
<1>5. TypeOK
  <2>1. now \in 1..MaxTime /\ requests \in 0..MaxRequests /\ failures \in 0..MaxFailures
    BY <1>3, TimesAssumption
  <2>2. deletedAt \in [Items -> Nat \union {Absent}] /\ run \in [Goroutines -> Task \union {Idle}]
    BY <1>3
  <2>3. QED
    BY <1>1, <1>2, <1>3, <2>1, <2>2 DEF TypeOK
<1>6. RowsFit
  BY <1>1, <1>2, <1>3, <1>4 DEF RowsFit, Items
<1>7. OrphansComeFromRaces
  BY <1>1, <1>2, <1>3, <1>4 DEF OrphansComeFromRaces, Items
<1>8. \A w \in Goroutines : ~Busy(w)
  BY <1>3 DEF Busy
<1>9. \A x \in Items : ~Racing(x)
  BY <1>8 DEF Racing
<1>10. \A w \in Goroutines : Good(w) /\ Fledgling(w)
  BY <1>8 DEF Good, Sensible, Justified, Thorough, Grounded, Fledgling, Doing, At
<1>11. QED
  BY <1>5, <1>6, <1>7, <1>9, <1>10 DEF IInv

(* Every step is a fine step of one goroutine. *)
LEMMA StepIsFine ==
  ASSUME IInv, Next
  PROVE  \E w \in Goroutines : Fine(w)
<1>1. Step /\ Watch
  BY DEF Next
<1>2. ASSUME NEW w \in Goroutines, PurgeStep(w) PROVE Fine(w)
  BY <1>1, <1>2, PurgeScriptIsFine, ListProjectScriptsIsFine, PurgeProjectRowIsFine,
     PurgedIsFine DEF PurgeStep
<1>3. ASSUME NEW w \in Workers, Serve(w) PROVE Fine(w)
  <2>1. w \in Goroutines
    BY DEF Goroutines
  <2>2. QED
    BY <1>1, <1>2, <1>3, <2>1, CheckRoleIsFine, InsertProjectIsFine, InsertOwnerIsFine,
       InsertScriptIsFine, InsertPilotIsFine, SoftDeleteIsFine, RestoreIsFine,
       CheckTrashIsFine DEF Serve
<1>4. ASSUME NEW w \in Workers, Request(w) \/ Serve(w) \/ Fail(w)
      PROVE  Fine(w) /\ w \in Goroutines
  BY <1>1, <1>3, <1>4, BeginIsFine, FailIsFine DEF Goroutines
<1>5. Job \in Goroutines
  BY DEF Goroutines
<1>6. ASSUME JobStep \/ Fail(Job) \/ Tick PROVE Fine(Job)
  BY <1>1, <1>2, <1>5, <1>6, ListExpiredScriptsIsFine, ListExpiredProjectsIsFine,
     FailIsFine, TickIsFine DEF JobStep
<1>7. QED
  BY <1>1, <1>4, <1>5, <1>6 DEF Step

LEMMA NextIInv ==
  ASSUME IInv, [Next]_vars
  PROVE  IInv'
<1>1. CASE Next
  BY <1>1, StepIsFine, FineIsEnough DEF Next
<1>2. CASE UNCHANGED vars
  <2>1. UNCHANGED <<deletedAt, home, owned, texts, run, issued, now, requests, failures,
                    recalled, raced>>
    BY <1>2 DEF vars, rows, counters
  <2>2. TypeOK' /\ RowsFit' /\ OrphansComeFromRaces'
    BY <2>1 DEF IInv, TypeOK, RowsFit, OrphansComeFromRaces, Present
  <2>3. \A x \in Items : Racing(x)' => x \in raced'
    BY <2>1 DEF IInv, Racing, Doomed, Busy
  <2>4. \A w \in Goroutines : Fledgling(w)'
    BY <2>1 DEF IInv, Fledgling, Untouched, Away, Doomed, At, Busy
  <2>5. \A w \in Goroutines : Good(w)'
    <3>1. TAKE w \in Goroutines
    <3>2. Good(w)
      BY DEF IInv
    <3>3. Sensible(w)' /\ Grounded(w)'
      BY <2>1, <3>2 DEF Good, Sensible, Grounded, Present, Doing, At, Busy
    <3>4. Justified(w)' /\ Thorough(w)'
      BY <2>1, <3>2 DEF Good, Justified, Thorough, Reason, Present, Trashed, Expired, Busy
    <3>5. QED
      BY <3>3, <3>4 DEF Good
  <2>6. QED
    BY <2>2, <2>3, <2>4, <2>5 DEF IInv
<1>3. QED
  BY <1>1, <1>2

THEOREM IInvHolds == Spec => []IInv
<1>1. Init => IInv
  BY InitIInv
<1>2. IInv /\ [Next]_vars => IInv'
  BY NextIInv
<1>3. QED
  BY <1>1, <1>2, PTL DEF Spec

(* The variables keep their types. *)
THEOREM TypeCorrect == Spec => []TypeOK
<1>1. IInv => TypeOK
  BY DEF IInv
<1>2. QED
  BY <1>1, IInvHolds, PTL

(* However requests, purges and failures interleave, only a creation that   *)
(* races with the purge of its project or script leaves rows behind.        *)
THEOREM OrphansOnlyFromRaces == Spec => []OrphansComeFromRaces
<1>1. IInv => OrphansComeFromRaces
  BY DEF IInv
<1>2. QED
  BY <1>1, IInvHolds, PTL

(* No row goes but from the trash, with its project, or because the user    *)
(* took it back while the purge was under way.                              *)
THEOREM PurgesHaveReasons == Spec => PurgesAreDue
<1> DEFINE Due(w, x) ==
      Present(x) /\ ~Present(x)' /\ run'[w] # run[w] =>
        \/ Trashed(x) /\ (w = Job => Expired(x, run[w].cutoff))
        \/ x \in Scripts /\ home[x] = run[w].project
        \/ <<w, x>> \in recalled
<1>1. ASSUME IInv, Next, NEW w \in Goroutines, NEW x \in Items PROVE Due(w, x)
  <2> SUFFICES ASSUME Present(x), ~Present(x)', run'[w] # run[w]
               PROVE  \/ Trashed(x) /\ (w = Job => Expired(x, run[w].cutoff))
                      \/ x \in Scripts /\ home[x] = run[w].project
                      \/ <<w, x>> \in recalled
    OBVIOUS
  <2>1. Fine(w)
    BY <1>1, StepIsFine DEF Fine
  <2>2. x \in Doomed(w) /\ Busy(w) /\ x # NoItem
    BY <2>1, IdsAssumption DEF Fine, Considerate, Doomed, Items
  <2>3. Justified(w) /\ run[w].scripts \subseteq Scripts
    BY <1>1, <2>2, TaskOf, TaskFields DEF IInv, Good
  <2>4. Reason(w, x) \/ (x \in Scripts /\ home[x] = run[w].project)
    BY <2>2, <2>3 DEF Justified, Doomed
  <2>5. QED
    BY <2>4 DEF Reason
<1>2. ASSUME UNCHANGED vars, NEW w \in Goroutines, NEW x \in Items PROVE Due(w, x)
  BY <1>2 DEF vars
<1>3. IInv /\ [Next]_vars => [\A w \in Goroutines, x \in Items : Due(w, x)]_vars
  BY <1>1
<1>4. QED
  BY <1>3, IInvHolds, PTL DEF Spec, PurgesAreDue

=============================================================================
