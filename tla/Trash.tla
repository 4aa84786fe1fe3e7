------------------------------- MODULE Trash -------------------------------
(***************************************************************************)
(* Projects and scripts from their creation to their purge: the stores     *)
(* project and script, the trash's purges, and the handlers of api.go that *)
(* call them.  A request, like the periodic job, is a goroutine whose      *)
(* steps are single SQL statements or transactions; there are no foreign   *)
(* keys, so what is deleted together is up to these steps.                 *)
(*                                                                         *)
(* Ids are fresh UUIDs.  A goroutine that fails (the database refuses, or  *)
(* the process dies) stops where it is; if it was the job, the next tick   *)
(* or the next start runs it again.  The user is the owner of the projects *)
(* it creates; the project in a script's URL is the script's.  A script's  *)
(* branches and other rows come and go together here: VersionControl has   *)
(* their creation step by step.                                            *)
(***************************************************************************)
EXTENDS Naturals, FiniteSets

CONSTANTS Projects, Scripts,  \* ids
          Workers,            \* requests that can be served at one time
          Job,                \* the goroutine of RunPeriodicPurge
          Retention,          \* RetentionPeriod
          Absent,             \* no row
          NoItem,             \* the empty id
          MaxRequests,        \* bound: requests
          MaxTime,            \* bound: instants
          MaxFailures         \* bound: goroutines that fail

ASSUME IdsAssumption ==
  Projects \cap Scripts = {} /\ NoItem \notin Projects \union Scripts
ASSUME JobAssumption == Job \notin Workers
ASSUME AbsentAssumption == Absent \notin Nat
ASSUME TimesAssumption ==
  {Retention, MaxRequests, MaxTime, MaxFailures} \subseteq Nat /\ MaxTime # 0

VARIABLES
  deletedAt,  \* of each id: no row, or deleted_at, 0 for NULL
  home,       \* project_id of each script that has been created
  owned,      \* the projects with their owner's row in project_members
  texts,      \* the scripts with rows in branches and snapshots
  run,        \* what each goroutine is doing
  issued,     \* ids that have been used
  now, requests, failures,
  recalled,   \* history: <<w, x>>: x was restored while w was purging
  raced       \* history: items something was created in while they were purged

rows == <<deletedAt, home, owned, texts, issued>>
counters == <<now, requests, failures>>
vars == <<rows, run, counters, recalled, raced>>

-----------------------------------------------------------------------------
Items == Projects \union Scripts
Goroutines == Workers \union {Job}
Ops == {"create project", "create script", "delete", "restore", "purge now"}
Task == [op : Ops \union {"expire"},
         stage : {"role", "write", "owner", "pilot", "expired scripts", "purge"},
         item : Items \union {NoItem},
         scripts : SUBSET Scripts,                 \* yet to be purged
         projects : SUBSET Projects,               \* yet to be purged
         project : Projects \union {NoItem},       \* being purged
         cutoff : Nat]                             \* when the job began
Idle == [op |-> "none"]
Busy(w) == run[w] # Idle
At(w, stage) == Busy(w) /\ run[w].stage = stage
Doing(w, op, stage) == At(w, stage) /\ run[w].op = op

Start(op, stage, x) == [op |-> op, stage |-> stage, item |-> x, scripts |-> {},
                        projects |-> {}, project |-> NoItem, cutoff |-> 0]
Of(x) == IF x \in Projects THEN x ELSE home[x]
Present(x) == deletedAt[x] # Absent
Trashed(x) == deletedAt[x] \notin {Absent, 0}

(* ExpiredIDs: deleted_at < cutoff, with the cutoff RetentionPeriod ago. *)
Expired(x, time) == Trashed(x) /\ deletedAt[x] + Retention < time

(* What w is going to delete, as far as it knows. *)
Doomed(w) == IF Busy(w) THEN run[w].scripts \union run[w].projects \union {run[w].project}
             ELSE {}

(* An empty server, or one with a project that has a script. *)
Init ==
  /\ issued = {} \/ \E p \in Projects, s \in Scripts : issued = {p, s}
  /\ deletedAt = [x \in Items |-> IF x \in issued THEN 0 ELSE Absent]
  /\ \/ issued = {} /\ home = [s \in Scripts |-> NoItem]
     \/ \E p \in issued \cap Projects :
          home = [s \in Scripts |-> IF s \in issued THEN p ELSE NoItem]
  /\ owned = issued \cap Projects
  /\ texts = issued \cap Scripts
  /\ run = [w \in Goroutines |-> Idle]
  /\ now = 1 /\ requests = 0 /\ failures = 0
  /\ recalled = {} /\ raced = {}

-----------------------------------------------------------------------------
(* The goroutine's next step; what it was told to forget goes when it ends. *)
Continue(w, task) == run' = [run EXCEPT ![w] = task] /\ UNCHANGED recalled
End(w) ==
  /\ run' = [run EXCEPT ![w] = Idle]
  /\ recalled' = {e \in recalled : e[1] # w}

Begin(w, op, x) ==
  /\ ~Busy(w)
  /\ requests < MaxRequests
  /\ requests' = requests + 1
  /\ Continue(w, Start(op, IF op = "create project" THEN "write" ELSE "role", x))
  /\ UNCHANGED <<rows, now, failures>>

Request(w) ==
  \/ Begin(w, "create project", NoItem)
  \/ \E p \in Projects \cap issued : Begin(w, "create script", p)
  \/ \E op \in {"delete", "restore", "purge now"}, x \in issued : Begin(w, op, x)

(* GetRole and RequireRole: the members' rows go with their project. *)
CheckRole(w) ==
  /\ At(w, "role")
  /\ IF Of(run[w].item) \in owned THEN Continue(w, [run[w] EXCEPT !.stage = "write"])
                                  ELSE End(w)
  /\ UNCHANGED <<rows, counters>>

-----------------------------------------------------------------------------
(* Faulty: the owner's row is written for no project. *)
InsertProjectForgetsId(w) ==
  /\ Doing(w, "create project", "write")
  /\ \E p \in Projects \ issued :
       /\ issued' = issued \union {p}
       /\ deletedAt' = [deletedAt EXCEPT ![p] = 0]
       /\ Continue(w, [run[w] EXCEPT !.stage = "owner"])
  /\ UNCHANGED <<home, owned, texts, counters>>

InsertProject(w) ==
  /\ Doing(w, "create project", "write")
  /\ \E p \in Projects \ issued :
       /\ issued' = issued \union {p}
       /\ deletedAt' = [deletedAt EXCEPT ![p] = 0]
       /\ Continue(w, [run[w] EXCEPT !.stage = "owner", !.item = p])
  /\ UNCHANGED <<home, owned, texts, counters>>

InsertOwner(w) ==
  /\ At(w, "owner")
  /\ owned' = owned \union {run[w].item}
  /\ End(w)
  /\ UNCHANGED <<deletedAt, home, texts, issued, counters>>

(* Nothing asks whether the project is still there, or in the trash. *)
InsertScript(w) ==
  /\ Doing(w, "create script", "write")
  /\ \E s \in Scripts \ issued :
       /\ issued' = issued \union {s}
       /\ deletedAt' = [deletedAt EXCEPT ![s] = 0]
       /\ home' = [home EXCEPT ![s] = run[w].item]
       /\ Continue(w, [run[w] EXCEPT !.stage = "pilot", !.item = s])
  /\ UNCHANGED <<owned, texts, counters>>

InsertPilot(w) ==
  /\ At(w, "pilot")
  /\ texts' = texts \union {run[w].item}
  /\ End(w)
  /\ UNCHANGED <<deletedAt, home, owned, issued, counters>>

SoftDelete(w) ==
  /\ Doing(w, "delete", "write")
  /\ LET x == run[w].item IN
       deletedAt' = IF deletedAt[x] = 0 THEN [deletedAt EXCEPT ![x] = now] ELSE deletedAt
  /\ End(w)
  /\ UNCHANGED <<home, owned, texts, issued, counters>>

Restore(w) ==
  /\ Doing(w, "restore", "write")
  /\ LET x == run[w].item IN
       /\ deletedAt' = IF Trashed(x) THEN [deletedAt EXCEPT ![x] = 0] ELSE deletedAt
       /\ recalled' = recalled \union {<<v, x>> : v \in {v \in Goroutines : x \in Doomed(v)}}
  /\ run' = [run EXCEPT ![w] = Idle]
  /\ UNCHANGED <<home, owned, texts, issued, counters>>

-----------------------------------------------------------------------------
Purge(w, scripts, projects, project) ==
  Continue(w, [run[w] EXCEPT !.stage = "purge", !.scripts = scripts,
                             !.projects = projects, !.project = project])

(* Faulty: whatever is asked for is purged, in the trash or not. *)
CheckTrashNever(w) ==
  /\ Doing(w, "purge now", "write")
  /\ Purge(w, {run[w].item} \cap Scripts, {run[w].item} \cap Projects, NoItem)
  /\ UNCHANGED <<rows, counters>>

(* PurgeScriptNow and PurgeProjectNow. *)
CheckTrash(w) ==
  /\ Doing(w, "purge now", "write")
  /\ LET x == run[w].item IN
       IF Trashed(x) THEN Purge(w, {x} \cap Scripts, {x} \cap Projects, NoItem) ELSE End(w)
  /\ UNCHANGED <<rows, counters>>

(* Faulty: the cutoff is taken once, when the process starts. *)
ListExpiredAtStart ==
  /\ ~Busy(Job)
  /\ Continue(Job, [Start("expire", "expired scripts", NoItem)
                      EXCEPT !.scripts = {s \in Scripts : Expired(s, 1)}, !.cutoff = 1])
  /\ UNCHANGED <<rows, counters>>

(* The ticker, or the start of the process, and PurgeExpired's first listing. *)
ListExpiredScripts ==
  /\ ~Busy(Job)
  /\ Continue(Job, [Start("expire", "expired scripts", NoItem)
                      EXCEPT !.scripts = {s \in Scripts : Expired(s, now)},
                             !.cutoff = now])
  /\ UNCHANGED <<rows, counters>>

ListExpiredProjects ==
  /\ At(Job, "expired scripts") /\ run[Job].scripts = {}
  /\ Purge(Job, {}, {p \in Projects : Expired(p, run[Job].cutoff)}, NoItem)
  /\ UNCHANGED <<rows, counters>>

(* purgeScript: one transaction, for a row that may have gone already. *)
PurgeScript(w) ==
  /\ Busy(w)
  /\ \E s \in run[w].scripts :
       /\ deletedAt' = [deletedAt EXCEPT ![s] = Absent]
       /\ texts' = texts \ {s}
       /\ Continue(w, [run[w] EXCEPT !.scripts = @ \ {s}])
  /\ UNCHANGED <<home, owned, issued, counters>>

(* Faulty: scripts that are in the trash themselves are left to the job. *)
ListProjectScriptsLive(w) ==
  /\ At(w, "purge") /\ run[w].scripts = {} /\ run[w].project = NoItem
  /\ \E p \in run[w].projects :
       Purge(w, {s \in Scripts : deletedAt[s] = 0 /\ home[s] = p}, run[w].projects \ {p}, p)
  /\ UNCHANGED <<rows, counters>>

(* purgeProject: first the ids of all of its scripts. *)
ListProjectScripts(w) ==
  /\ At(w, "purge") /\ run[w].scripts = {} /\ run[w].project = NoItem
  /\ \E p \in run[w].projects :
       Purge(w, {s \in Scripts : Present(s) /\ home[s] = p}, run[w].projects \ {p}, p)
  /\ UNCHANGED <<rows, counters>>

(* Last the members and the project's row, in one transaction. *)
PurgeProjectRow(w) ==
  /\ At(w, "purge") /\ run[w].scripts = {} /\ run[w].project # NoItem
  /\ deletedAt' = [deletedAt EXCEPT ![run[w].project] = Absent]
  /\ owned' = owned \ {run[w].project}
  /\ Continue(w, [run[w] EXCEPT !.project = NoItem])
  /\ UNCHANGED <<home, texts, issued, counters>>

Purged(w) ==
  /\ At(w, "purge")
  /\ run[w].scripts = {} /\ run[w].projects = {} /\ run[w].project = NoItem
  /\ End(w)
  /\ UNCHANGED <<rows, counters>>

-----------------------------------------------------------------------------
Fail(w) ==
  /\ Busy(w)
  /\ failures < MaxFailures
  /\ failures' = failures + 1
  /\ End(w)
  /\ UNCHANGED <<rows, now, requests>>

Tick ==
  /\ now < MaxTime
  /\ now' = now + 1
  /\ UNCHANGED <<rows, run, requests, failures, recalled>>

PurgeStep(w) ==
  PurgeScript(w) \/ ListProjectScripts(w) \/ PurgeProjectRow(w) \/ Purged(w)

JobStep == ListExpiredScripts \/ ListExpiredProjects \/ PurgeStep(Job)

Serve(w) ==
  \/ CheckRole(w)
  \/ InsertProject(w) \/ InsertOwner(w) \/ InsertScript(w) \/ InsertPilot(w)
  \/ SoftDelete(w) \/ Restore(w)
  \/ CheckTrash(w) \/ PurgeStep(w)

Step ==
  \/ \E w \in Workers : Request(w) \/ Serve(w) \/ Fail(w)
  \/ JobStep \/ Fail(Job)
  \/ Tick

(* x is being purged while something is being created in it. *)
Racing(x) ==
  \E v, w \in Goroutines :
    x \in Doomed(v) /\ Busy(w) /\ run[w].op = "create script" /\ run[w].item = x
Watch == raced' = raced \union {x \in Items : Racing(x)'}

Next == Step /\ Watch

Spec == Init /\ [][Next]_vars

(* The job's ticker fires and its steps are taken; users need not do anything. *)
FairSpec == Spec /\ WF_vars(JobStep /\ Watch)

-----------------------------------------------------------------------------
(* The type of every variable. *)
TypeOK ==
  /\ deletedAt \in [Items -> Nat \union {Absent}]
  /\ home \in [Scripts -> Projects \union {NoItem}]
  /\ owned \in SUBSET Projects /\ texts \in SUBSET Scripts /\ issued \in SUBSET Items
  /\ run \in [Goroutines -> Task \union {Idle}]
  /\ now \in 1..MaxTime /\ requests \in 0..MaxRequests /\ failures \in 0..MaxFailures
  /\ recalled \in SUBSET (Goroutines \X Items) /\ raced \in SUBSET Items

(* Nothing outlives what it belongs to, whatever fails between two             *)
(* transactions: a script without its project, or text without its script, is  *)
(* there only if it was being created during the purge of what it needed.      *)
OrphansComeFromRaces ==
  /\ \A s \in Scripts : Present(s) /\ ~Present(home[s]) => home[s] \in raced
  /\ \A s \in texts : Present(s) \/ s \in raced

(* A row is purged for a reason that holds: it is in the trash, for the job    *)
(* for longer than the retention period; or its project is being purged; or it *)
(* was restored while the purge was under way.                                 *)
PurgesAreDue ==
  [][\A w \in Goroutines, x \in Items :
       Present(x) /\ ~Present(x)' /\ run'[w] # run[w] =>
         \/ Trashed(x) /\ (w = Job => Expired(x, run[w].cutoff))
         \/ x \in Scripts /\ home[x] = run[w].project
         \/ <<w, x>> \in recalled]_vars

(* "So a live project can never be purged by mistake". *)
LiveProjectsStay ==
  [][\A p \in Projects : deletedAt[p] = 0 => deletedAt'[p] # Absent]_vars

(* What has expired goes, unless it is restored, although a purge may have     *)
(* failed halfway before.                                                      *)
ExpiredItemsGo ==
  \A x \in Items : Expired(x, now) ~> ~Trashed(x)

=============================================================================
