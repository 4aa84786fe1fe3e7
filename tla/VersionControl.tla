--------------------------- MODULE VersionControl ---------------------------
(***************************************************************************)
(* Branches and snapshots: the store of backend/internal/snapshot and the  *)
(* handlers of backend/internal/api that call it.  Requests run            *)
(* concurrently, one goroutine each, with no lock in the process: a step   *)
(* here is one SQL statement, or one transaction, of one request.          *)
(*                                                                         *)
(* Snapshot ids are numbers in the order of insertion, 0 is the empty id.  *)
(* A script's text is opaque.  A request that fails (the database refuses, *)
(* the process dies) stops where it is: what it has written stays.  Two    *)
(* equal requests of one client that are at the same step count as one.    *)
(***************************************************************************)
EXTENDS Integers, Sequences

CONSTANTS Clients,      \* browser tabs
          Scripts,      \* ids a script row can get
          Branches,     \* ids a branch row can get
          Contents,     \* texts of a script
          Blank,        \* the text of a new script's first snapshot
          MaxRequests,  \* bound: requests sent
          NoScript, NoBranch

ASSUME BlankAssumption == Blank \in Contents
ASSUME AbsentAssumption == NoScript \notin Scripts /\ NoBranch \notin Branches
ASSUME BoundAssumption == MaxRequests \in Nat

VARIABLES
  scripts,   \* the rows of scripts
  branches,  \* the rows of branches: NoBranch where there is none
  snaps,     \* the rows of snapshots
  requests,  \* requests sent whose answer the client has not seen
  sent,      \* requests sent so far
  clock      \* time.Now(), counted in the instants a commit reads it

vars == <<scripts, branches, snaps, requests, sent, clock>>

-----------------------------------------------------------------------------
Ids == 1..Len(snaps)
NoDraft == [set |-> FALSE, content |-> Blank]
Draft(text) == [set |-> TRUE, content |-> text]
Branch == [script : Scripts, tip : Nat, draft : [set : BOOLEAN, content : Contents],
           fork : Nat]     \* history: the snapshot the branch was created from
ASSUME NoRowAssumption == NoBranch \notin Branch
Snapshot == [branch : Branches, parent : Nat, content : Contents, created : Nat,
             seen : Nat]   \* history: snapshots there were when it read its parent
Request == [client : Clients, kind : {"script", "branch", "commit", "draft"},
            script : Scripts \union {NoScript}, branch : Branches \union {NoBranch},
            content : Contents, from : Nat,
            stage : {"sent", "script row", "branch row", "tip read", "done"},
            parent : Nat, created : Nat, seen : Nat]

Init ==
  /\ scripts = {}
  /\ branches = [b \in Branches |-> NoBranch]
  /\ snaps = <<>>
  /\ requests = {}
  /\ sent = 0
  /\ clock = 0

(* The History query (WITH RECURSIVE): the least set of rows that holds the *)
(* row of the given id, if any, and with a row the row of its parent_id.    *)
Closed(S) == \A i \in S : snaps[i].parent # 0 => snaps[i].parent \in S
History(tip) ==
  {i \in Ids : \A S \in SUBSET Ids : {tip} \cap Ids \subseteq S /\ Closed(S) => i \in S}

-----------------------------------------------------------------------------
(* What a client can send: version-control.service.ts and script.service.ts. *)
Send(c, kind, script, branch, content, from) ==
  /\ sent < MaxRequests
  /\ sent' = sent + 1
  /\ requests' = requests \union
       {[client |-> c, kind |-> kind, script |-> script, branch |-> branch,
         content |-> content, from |-> from, stage |-> "sent",
         parent |-> 0, created |-> 0, seen |-> 0]}
  /\ UNCHANGED <<scripts, branches, snaps, clock>>

SendCreateScript(c) == Send(c, "script", NoScript, NoBranch, Blank, 0)

(* The panel sends the tip it knows, which another commit may have left behind. *)
SendCreateBranch(c, s, from) ==
  s \in scripts /\ from \in {0} \union Ids /\ Send(c, "branch", s, NoBranch, Blank, from)

SendCommit(c, s, b, text) ==
  s \in scripts /\ branches[b] # NoBranch /\ Send(c, "commit", s, b, text, 0)

SendSaveDraft(c, b, text) ==
  branches[b] # NoBranch /\ Send(c, "draft", branches[b].script, b, text, 0)

-----------------------------------------------------------------------------
Replace(r, new) == requests' = (requests \ {r}) \union {new}

(* Faulty: createScript goes on with an empty script id. *)
InsertScriptForgetsId(r) ==
  /\ r.kind = "script" /\ r.stage = "sent"
  /\ \E s \in Scripts \ scripts :
       /\ scripts' = scripts \union {s}
       /\ Replace(r, [r EXCEPT !.stage = "script row"])
  /\ UNCHANGED <<branches, snaps, sent, clock>>

(* createScript, first statement: the script's row. *)
InsertScript(r) ==
  /\ r.kind = "script" /\ r.stage = "sent"
  /\ \E s \in Scripts \ scripts :
       /\ scripts' = scripts \union {s}
       /\ Replace(r, [r EXCEPT !.script = s, !.stage = "script row"])
  /\ UNCHANGED <<branches, snaps, sent, clock>>

(* Faulty: createScript answers before it has made the first snapshot. *)
InsertBranchAnswersEarly(r) ==
  /\ <<r.kind, r.stage>> \in {<<"branch", "sent">>, <<"script", "script row">>}
  /\ \E b \in Branches :
       /\ branches[b] = NoBranch
       /\ branches' = [branches EXCEPT ![b] =
            [script |-> r.script, tip |-> r.from, draft |-> NoDraft, fork |-> r.from]]
       /\ Replace(r, [r EXCEPT !.branch = b, !.stage = "done"])
  /\ UNCHANGED <<scripts, snaps, sent, clock>>

(* Store.CreateBranch, called by createBranch and, for "pilot", by createScript; *)
(* the id it is to start from is stored as it came.                              *)
InsertBranch(r) ==
  /\ <<r.kind, r.stage>> \in {<<"branch", "sent">>, <<"script", "script row">>}
  /\ \E b \in Branches :
       /\ branches[b] = NoBranch
       /\ branches' = [branches EXCEPT ![b] =
            [script |-> r.script, tip |-> r.from, draft |-> NoDraft, fork |-> r.from]]
       /\ Replace(r, [r EXCEPT !.branch = b,
                               !.stage = IF r.kind = "branch" THEN "done" ELSE "branch row"])
  /\ UNCHANGED <<scripts, snaps, sent, clock>>

AtCommit(r) ==
  <<r.kind, r.stage>> \in {<<"commit", "sent">>, <<"script", "branch row">>}

(* Faulty: created_at is the time the request came in, not the time its parent *)
(* was read.                                                                   *)
ReadTipStampedAtArrival(r) ==
  /\ AtCommit(r)
  /\ branches[r.branch] # NoBranch /\ branches[r.branch].script = r.script
  /\ Replace(r, [r EXCEPT !.stage = "tip read", !.parent = branches[r.branch].tip,
                          !.created = 1, !.seen = Len(snaps)])
  /\ clock' = clock + 1
  /\ UNCHANGED <<scripts, branches, snaps, sent>>

(* Store.Commit before its transaction: GetBranch, the check that the branch is *)
(* the script's, and the snapshot's parent and time.                            *)
ReadTip(r) ==
  /\ AtCommit(r)
  /\ branches[r.branch] # NoBranch /\ branches[r.branch].script = r.script
  /\ Replace(r, [r EXCEPT !.stage = "tip read", !.parent = branches[r.branch].tip,
                          !.created = clock + 1, !.seen = Len(snaps)])
  /\ clock' = clock + 1
  /\ UNCHANGED <<scripts, branches, snaps, sent>>

RefuseCommit(r) ==
  /\ AtCommit(r)
  /\ branches[r.branch] = NoBranch \/ branches[r.branch].script # r.script
  /\ requests' = requests \ {r}
  /\ UNCHANGED <<scripts, branches, snaps, sent, clock>>

Row(r) == [branch |-> r.branch, parent |-> r.parent, content |-> r.content,
           created |-> r.created, seen |-> r.seen]
Moved(row, i) == [row EXCEPT !.tip = i, !.draft = NoDraft]

(* Faulty: the tip moves on every branch of the script. *)
CommitTxOfScript(r) ==
  /\ r.stage = "tip read"
  /\ snaps' = Append(snaps, Row(r))
  /\ branches' = [b \in Branches |->
       IF branches[b] # NoBranch /\ branches[b].script = r.script
       THEN Moved(branches[b], Len(snaps) + 1) ELSE branches[b]]
  /\ Replace(r, [r EXCEPT !.stage = "done"])
  /\ UNCHANGED <<scripts, sent, clock>>

(* Faulty: the tip moves only while the branch still has the parent as its tip, *)
(* and a commit that comes too late is answered as saved all the same.          *)
CommitTxSkipsTip(r) ==
  /\ r.stage = "tip read"
  /\ snaps' = Append(snaps, Row(r))
  /\ branches' = IF branches[r.branch].tip = r.parent
                 THEN [branches EXCEPT ![r.branch] = Moved(@, Len(snaps) + 1)]
                 ELSE branches
  /\ Replace(r, [r EXCEPT !.stage = "done"])
  /\ UNCHANGED <<scripts, sent, clock>>

(* Faulty: the draft that was committed stays in the slot, behind the new tip. *)
CommitTxKeepsDraft(r) ==
  /\ r.stage = "tip read"
  /\ snaps' = Append(snaps, Row(r))
  /\ branches' = [branches EXCEPT ![r.branch].tip = Len(snaps) + 1]
  /\ Replace(r, [r EXCEPT !.stage = "done"])
  /\ UNCHANGED <<scripts, sent, clock>>

(* The transaction: insert the snapshot, move the tip, clear the draft slot.  It *)
(* does not look at the tip again.                                               *)
CommitTx(r) ==
  /\ r.stage = "tip read"
  /\ snaps' = Append(snaps, Row(r))
  /\ branches' = [branches EXCEPT ![r.branch] = Moved(@, Len(snaps) + 1)]
  /\ Replace(r, [r EXCEPT !.stage = "done"])
  /\ UNCHANGED <<scripts, sent, clock>>

(* Store.SaveDraft: one UPDATE. *)
SaveDraft(r) ==
  /\ r.kind = "draft" /\ r.stage = "sent"
  /\ branches' = [branches EXCEPT ![r.branch].draft = Draft(r.content)]
  /\ Replace(r, [r EXCEPT !.stage = "done"])
  /\ UNCHANGED <<scripts, snaps, sent, clock>>

(* A statement fails, or the process dies: a transaction is rolled back, the *)
(* request's earlier statements are not.                                     *)
RequestFails(r) ==
  /\ r.stage # "done"
  /\ requests' = requests \ {r}
  /\ UNCHANGED <<scripts, branches, snaps, sent, clock>>

(* The client has the answer. *)
Deliver(r) ==
  /\ r.stage = "done"
  /\ requests' = requests \ {r}
  /\ UNCHANGED <<scripts, branches, snaps, sent, clock>>

-----------------------------------------------------------------------------
Serve(r) ==
  \/ InsertScript(r) \/ InsertBranch(r)
  \/ ReadTip(r) \/ RefuseCommit(r) \/ CommitTx(r)
  \/ SaveDraft(r)
  \/ RequestFails(r)

Next ==
  \/ \E c \in Clients :
       \/ SendCreateScript(c)
       \/ \E s \in Scripts : \E from \in 0..Len(snaps) : SendCreateBranch(c, s, from)
       \/ \E b \in Branches, text \in Contents :
            (\E s \in Scripts : SendCommit(c, s, b, text)) \/ SendSaveDraft(c, b, text)
  \/ \E r \in requests : Serve(r) \/ Deliver(r)

Spec == Init /\ [][Next]_vars

-----------------------------------------------------------------------------
(* What a caller sees of a branch. *)
TextOf(tip) ==
  IF tip = 0 THEN NoDraft ELSE Draft(snaps[tip].content)
SlotOf(row) ==
  IF row = NoBranch THEN NoBranch ELSE [tip |-> TextOf(row.tip), draft |-> row.draft]

Slots == INSTANCE BranchSlots
  WITH slots <- [b \in Branches |-> SlotOf(branches[b])],
       committed <- {snaps[i].content : i \in Ids}
ASSUME NoSlotRowAssumption == NoBranch \notin Slots!Slot

-----------------------------------------------------------------------------
(* The type of every variable. *)
TypeOK ==
  /\ scripts \in SUBSET Scripts
  /\ branches \in [Branches -> Branch \union {NoBranch}]
  /\ snaps \in Seq(Snapshot)
  /\ requests \in SUBSET Request
  /\ sent \in 0..MaxRequests
  /\ clock \in Nat

(* History shows a chain that ends, newest first: every parent and every tip is *)
(* a stored snapshot or none, and a snapshot is younger than its parent, so     *)
(* ORDER BY created_at lists the chain as it was built.                         *)
AncestryWellFormed ==
  /\ \A i \in Ids : LET p == snaps[i].parent IN
       p # 0 => p \in 1..(i - 1) /\ snaps[p].created < snaps[i].created
  /\ \A b \in Branches : branches[b] # NoBranch => branches[b].tip \in 0..Len(snaps)

(* The commits to i's branch after i began when i was already stored. *)
Uncontested(i) ==
  \A k \in (i + 1)..Len(snaps) : snaps[k].branch = snaps[i].branch => snaps[k].seen >= i

(* A snapshot leaves its branch's history only when another commit to that     *)
(* branch read the tip before it was stored and was stored after it.           *)
UncontestedCommitsKept ==
  \A i \in Ids : Uncontested(i) => i \in History(branches[snaps[i].branch].tip)

(* "Branching lets a writer explore an alternate ending without touching the   *)
(* main draft": a branch's history is its own commits and the history of the   *)
(* snapshot it was created from, whatever is committed to other branches.      *)
BranchIsolation ==
  \A b \in Branches : branches[b] # NoBranch =>
    \A i \in History(branches[b].tip) :
      snaps[i].branch = b \/ i \in History(branches[b].fork)

(* A script's creation is answered as done only when its first branch has its *)
(* first snapshot, and later commits never take that snapshot's branch away.  *)
DoneScriptsHaveAPilot ==
  \A r \in requests : r.kind = "script" /\ r.stage = "done" =>
    /\ r.script \in scripts
    /\ branches[r.branch] # NoBranch /\ branches[r.branch].script = r.script
    /\ branches[r.branch].tip # 0

(* Behind statements that interleave, fail halfway and race for the tip, a     *)
(* branch is one tip and one draft slot that every request sets at one moment: *)
(* a save leaves the tip alone, a commit sets the one and empties the other.   *)
ImplementsSlots == Slots!SlotSpec

(* "current tip becomes this snapshot's parent", "exactly like git log": every *)
(* commit that was stored is in its branch's history.                          *)
CommitsStayInHistory ==
  \A i \in Ids : i \in History(branches[snaps[i].branch].tip)

=============================================================================
