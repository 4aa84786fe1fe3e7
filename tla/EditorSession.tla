--------------------------- MODULE EditorSession ---------------------------
(***************************************************************************)
(* One writer's open editor page: EditorComponent, its BranchPanelComponent *)
(* and AutoSaveService, against the service that BranchSlots specifies.     *)
(* The page's code runs to its next await or subscribe without a break; an  *)
(* HTTP request takes effect on the server, or not, and is answered, or     *)
(* fails, in any order with the others.                                     *)
(*                                                                          *)
(* A text is the number of the edit that made it, 0 is the empty script.    *)
(* The writer may edit; nobody else is in the room, so the shared document  *)
(* is the page's.  Equal requests at one step count as one.                 *)
(***************************************************************************)
EXTENDS Naturals, FiniteSets, BranchSlots

CONSTANTS Pilot,        \* the branch a script is created with
          MaxTexts,     \* bound: edits
          MaxChoices,   \* bound: branches selected or created, snapshots made
          MaxSaves,     \* bound: saves on their way when the timer ticks
          MaxFailures   \* bound: requests that fail

ASSUME PilotAssumption == Pilot \in Branches /\ NoBranch \notin Branches
ASSUME TextsAssumption == MaxTexts \in Nat /\ Contents = 0..MaxTexts /\ Blank = 0
ASSUME BoundsAssumption == {MaxChoices, MaxSaves, MaxFailures} \subseteq Nat

VARIABLES
  known,     \* BranchPanelComponent.branches, as last heard of
  chosen,    \* BranchPanelComponent.activeBranch
  editing,   \* EditorComponent.activeBranch
  text,      \* the editor's document
  dirty,     \* AutoSaveState.dirty
  enabled,   \* AutoSaveState.enabled
  requests,  \* HTTP requests that have not been answered
  typed,     \* edits so far
  choices,   \* choices so far
  failures,  \* failed requests so far
  saved,     \* history: the text of the last save answered as done
  home,      \* history: the branch each text was typed on
  overlap    \* history: a choice waited for a save while another did

pageVars == <<known, chosen, editing, overlap>>
bufferVars == <<text, dirty>>
counters == <<typed, choices, failures>>
vars == <<slotVars, pageVars, bufferVars, enabled, requests, counters, saved, home>>

-----------------------------------------------------------------------------
Request == [kind : {"draft", "commit", "branch", "snapshot"},
            branch : Branches \union {NoBranch}, body : Maybe,
            then : Branches \union {NoBranch},   \* the branch a save makes way for
            stage : {"sent", "done"}]
Req(kind, branch, body, then) ==
  [kind |-> kind, branch |-> branch, body |-> body, then |-> then, stage |-> "sent"]
Autosaves == {r \in requests : r.kind = "draft" /\ r.then = NoBranch}
Leaves == {r \in requests : r.then # NoBranch}

(* A script with its first branch and empty first snapshot, as createScript *)
(* leaves it, or with a draft from an earlier session.                      *)
Init ==
  /\ committed = {Blank}
  /\ typed \in 0..1 \cap 0..MaxTexts
  /\ slots = [b \in Branches |->
       IF b # Pilot THEN NoBranch
       ELSE [tip |-> Text(Blank), draft |-> IF typed = 1 THEN Text(1) ELSE Nothing]]
  /\ known = [b \in Branches |-> NoBranch]
  /\ chosen = NoBranch /\ editing = NoBranch
  /\ text = Blank /\ saved = Blank
  /\ dirty = FALSE /\ enabled = TRUE
  /\ requests = {}
  /\ choices = 0 /\ failures = 0
  /\ home = [t \in Contents |-> Pilot]
  /\ overlap = FALSE

-----------------------------------------------------------------------------
(* replaceEditorContent: a change of the document, like any other, marks it dirty. *)
Load(t) == text' = t /\ dirty' = (dirty \/ t # text)

(* applySnapshotContent on the panel's copy of the branch, and the switchTo *)
(* around it; the tip's snapshot is fetched, a draft is in the copy.        *)
SwitchTo(b, rest) ==
  LET slot == known'[b] IN
  /\ editing' = b
  /\ IF slot.draft.set
     THEN Load(slot.draft.content) /\ requests' = rest
     ELSE /\ UNCHANGED bufferVars
          /\ requests' = rest \union
               (IF slot.tip.set THEN {Req("snapshot", b, slot.tip, NoBranch)} ELSE {})

(* Faulty: the editor moves on to b before the branch it leaves is saved. *)
ChooseAtOnce(b, rest) ==
  /\ chosen' = b
  /\ SwitchTo(b, rest \union (IF editing \in {NoBranch, b} THEN {}
                              ELSE {Req("draft", editing, Text(text), NoBranch)}))
  /\ UNCHANGED overlap

(* selectBranch and onBranchSelected: the branch that is left is saved first. *)
Choose(b, rest) ==
  /\ chosen' = b
  /\ IF editing \in {NoBranch, b}
     THEN SwitchTo(b, rest) /\ UNCHANGED overlap
     ELSE /\ requests' = rest \union {Req("draft", editing, Text(text), b)}
          /\ overlap' = (overlap \/ Leaves # {})
          /\ UNCHANGED <<editing, bufferVars>>

-----------------------------------------------------------------------------
(* The answer to the panel's listBranches, which opens the branch that was open *)
(* last time; the panel's other buttons are used once it has come.              *)
LoadBranches ==
  /\ chosen = NoBranch
  /\ known' = slots
  /\ Choose(Pilot, requests)
  /\ UNCHANGED <<slotVars, enabled, counters, saved, home>>

(* The document becomes a text it has not been. *)
Write ==
  /\ typed < MaxTexts
  /\ typed' = typed + 1
  /\ text' = typed + 1
  /\ dirty' = TRUE
  /\ home' = [home EXCEPT ![typed + 1] = editing]
  /\ UNCHANGED <<slotVars, pageVars, enabled, requests, choices, failures, saved>>

Type == Write

(* importFountain .. importPdf: nothing is kept of the page while the file is *)
(* picked and read, so its text goes to the branch that is edited by then.     *)
ImportFile == Write

(* replaceCurrent, replaceAllOccurrences and confirmRenameCharacter, with a match. *)
ReplaceInText == Write

(* Faulty: the save function does not ask whether a branch is active. *)
TriggerSaveNowhere ==
  /\ requests' = requests \union {Req("draft", editing, Text(text), NoBranch)}
  /\ UNCHANGED <<slotVars, pageVars, bufferVars, enabled, typed, failures, saved, home>>

(* triggerSave: the draft of the branch that is being edited, with the text of *)
(* this moment.                                                                *)
TriggerSave ==
  /\ editing # NoBranch
  /\ requests' = requests \union {Req("draft", editing, Text(text), NoBranch)}
  /\ UNCHANGED <<slotVars, pageVars, bufferVars, enabled, typed, failures, saved, home>>

TimerDue == enabled /\ Cardinality(Autosaves) < MaxSaves

(* Faulty: a tick saves only when something has changed. *)
TickWhenDirty == TimerDue /\ dirty /\ TriggerSave /\ UNCHANGED choices

(* The timer, while the slider is not at "off". *)
Tick == TimerDue /\ TriggerSave /\ UNCHANGED choices

(* A tick before any branch is active: the save function returns at once, *)
(* which triggerSave takes for a save.                                      *)
TickNowhere ==
  /\ enabled /\ editing = NoBranch
  /\ dirty' = FALSE
  /\ UNCHANGED <<slotVars, pageVars, text, enabled, requests, counters, saved, home>>

SetAutosave(on) ==
  /\ enabled' = on
  /\ UNCHANGED <<slotVars, pageVars, bufferVars, requests, counters, saved, home>>

Choice == choices < MaxChoices /\ choices' = choices + 1

SelectBranch(b) ==
  /\ Choice
  /\ known[b] # NoBranch
  /\ UNCHANGED <<slotVars, known, enabled, typed, failures, saved, home>>
  /\ Choose(b, requests)

CreateBranch ==
  /\ Choice
  /\ chosen # NoBranch
  /\ requests' = requests \union {Req("branch", NoBranch, known[chosen].tip, NoBranch)}
  /\ UNCHANGED <<slotVars, pageVars, bufferVars, enabled, typed, failures, saved, home>>

SaveDraftNow == Choice /\ TriggerSave

SaveSnapshot ==
  /\ Choice
  /\ editing # NoBranch
  /\ requests' = requests \union {Req("commit", editing, Text(text), NoBranch)}
  /\ UNCHANGED <<slotVars, pageVars, bufferVars, enabled, typed, failures, saved, home>>

-----------------------------------------------------------------------------
(* The request takes effect on the server. *)
Arrive(r) ==
  /\ r.stage = "sent"
  /\ \/ /\ r.kind = "draft" /\ SaveSlot(r.branch, r.body.content)
        /\ requests' = (requests \ {r}) \union {[r EXCEPT !.stage = "done"]}
     \/ /\ r.kind = "commit" /\ CommitSlot(r.branch, r.body.content)
        /\ requests' = (requests \ {r}) \union {[r EXCEPT !.stage = "done"]}
     \/ /\ r.kind = "branch"
        /\ \E b \in Branches :
             /\ CreateSlot(b, r.body)
             /\ requests' = (requests \ {r}) \union {[r EXCEPT !.branch = b, !.stage = "done"]}
  /\ UNCHANGED <<pageVars, bufferVars, enabled, counters, saved, home>>

Rest(r) == requests \ {r}

SaveAnswered(r) ==
  /\ r.kind = "draft" /\ r.then = NoBranch /\ r.stage = "done"
  /\ requests' = Rest(r)
  /\ dirty' = FALSE
  /\ saved' = r.body.content
  /\ UNCHANGED <<slotVars, pageVars, text, enabled, counters, home>>

(* Faulty: a save that fails leaves the editor where it is. *)
LeftOnlyIfSaved(r) ==
  /\ r.kind = "draft" /\ r.then # NoBranch
  /\ UNCHANGED <<known, chosen, overlap>>
  /\ IF r.stage = "done" THEN SwitchTo(r.then, Rest(r))
     ELSE requests' = Rest(r) /\ UNCHANGED <<editing, bufferVars>>

(* Whatever came of the save, the editor goes on to the branch that was chosen. *)
Left(r) ==
  /\ r.kind = "draft" /\ r.then # NoBranch
  /\ UNCHANGED <<known, chosen, overlap>>
  /\ SwitchTo(r.then, Rest(r))

LeaveAnswered(r) ==
  /\ r.stage = "done" /\ Left(r)
  /\ saved' = r.body.content
  /\ UNCHANGED <<slotVars, enabled, counters, home>>

(* markSaved and addSnapshot, which only touches the branch chosen by now. *)
CommitAnswered(r) ==
  /\ r.kind = "commit" /\ r.stage = "done"
  /\ requests' = Rest(r)
  /\ dirty' = FALSE
  /\ saved' = r.body.content
  /\ known' = IF chosen = r.branch THEN [known EXCEPT ![chosen].tip = r.body] ELSE known
  /\ UNCHANGED <<slotVars, chosen, editing, overlap, text, enabled, counters, home>>

BranchAnswered(r) ==
  /\ r.kind = "branch" /\ r.stage = "done"
  /\ known' = [known EXCEPT ![r.branch] = [tip |-> r.body, draft |-> Nothing]]
  /\ Choose(r.branch, Rest(r))
  /\ UNCHANGED <<slotVars, enabled, counters, saved, home>>

(* An empty snapshot loads nothing: the text of the branch before stays. *)
SnapshotAnswered(r) ==
  /\ r.kind = "snapshot"
  /\ requests' = Rest(r)
  /\ IF r.body = Text(Blank) THEN UNCHANGED bufferVars ELSE Load(r.body.content)
  /\ UNCHANGED <<slotVars, pageVars, enabled, counters, saved, home>>

Answer(r) ==
  \/ SaveAnswered(r) \/ LeaveAnswered(r) \/ CommitAnswered(r)
  \/ BranchAnswered(r) \/ SnapshotAnswered(r)

(* The request is lost, before its effect or after; only a save that was made  *)
(* to leave a branch has a handler that does anything.                          *)
RequestFails(r) ==
  /\ failures < MaxFailures
  /\ failures' = failures + 1
  /\ \/ Left(r)
     \/ /\ r.then = NoBranch
        /\ requests' = Rest(r)
        /\ UNCHANGED <<pageVars, bufferVars>>
  /\ UNCHANGED <<slotVars, enabled, typed, choices, saved, home>>

-----------------------------------------------------------------------------
Next ==
  \/ LoadBranches \/ Type \/ ImportFile \/ ReplaceInText
  \/ Tick \/ TickNowhere \/ SaveDraftNow
  \/ CreateBranch \/ SaveSnapshot
  \/ \E on \in BOOLEAN : SetAutosave(on)
  \/ \E b \in Branches : SelectBranch(b)
  \/ \E r \in requests : Arrive(r) \/ Answer(r) \/ RequestFails(r)

Spec == Init /\ [][Next]_vars

(* The timer ticks and requests come back; nothing makes the writer do anything. *)
(* Saves that make way for a branch are not held up for ever by other requests.  *)
Fairness ==
  /\ WF_vars(LoadBranches)
  /\ WF_vars(Tick)
  /\ WF_vars(\E r \in requests : Arrive(r))
  /\ WF_vars(\E r \in requests : Answer(r))
  /\ WF_vars(\E r \in Leaves : Arrive(r) \/ Answer(r))

FairSpec == Spec /\ Fairness

-----------------------------------------------------------------------------
(* The type of every variable. *)
TypeOK ==
  /\ SlotTypeOK
  /\ known \in [Branches -> Slot \union {NoBranch}]
  /\ {chosen, editing} \subseteq Branches \union {NoBranch}
  /\ {text, saved} \subseteq Contents
  /\ {dirty, enabled, overlap} \subseteq BOOLEAN
  /\ requests \in SUBSET Request
  /\ \A r \in requests : r.kind = "branch" /\ r.stage = "sent" <=> r.branch = NoBranch
  /\ typed \in 0..MaxTexts /\ choices \in 0..MaxChoices /\ failures \in 0..MaxFailures
  /\ home \in [Contents -> Branches \union {NoBranch}]

(* A branch is only ever asked for from a text that is a snapshot by then, and *)
(* a snapshot is only fetched that exists: the panel's tips never run ahead of *)
(* the server's.                                                               *)
TipsAreSnapshots ==
  /\ \A r \in requests : r.kind \in {"branch", "snapshot"} =>
       r.body = Nothing \/ r.body.content \in committed
  /\ \A b \in Branches : known[b] # NoBranch =>
       slots[b] # NoBranch /\ (known[b].tip.set => known[b].tip.content \in committed)

(* The editor leaves a branch only when a save that made way for the next one   *)
(* has been answered, or reported as failed; and it is the branch it leaves     *)
(* that was saved, unless the writer has chosen again while a choice was still  *)
(* waiting for its save.                                                        *)
SwitchOnlyAfterSave ==
  [][editing \notin {NoBranch, editing'} =>
       \E r \in requests \ requests' :
         /\ r.then = editing' /\ (r.branch = editing \/ overlap)
         /\ r.stage = "done" \/ failures' > failures]_vars

(* With autosave on, a text that stays in the editor ends up, for good, as     *)
(* what the service shows for its branch, whatever earlier saves and snapshots *)
(* were still on their way and in whatever order they arrive.                  *)
TextReachesTheServer ==
  \A t \in Contents, b \in Branches :
    <>[](text = t /\ editing = b /\ enabled) =>
      <>[](slots[b] # NoBranch /\ Current(slots[b]) = Text(t))

(* A choice that made the editor save first brings it to that branch in the   *)
(* end, whatever came of the save.                                             *)
ChosenBranchOpens ==
  \A b \in Branches : (\E r \in Leaves : r.then = b) ~> editing = b

(* "Branching lets a writer explore an alternate ending without touching the   *)
(* main draft": the main branch shows no text that was typed on another.       *)
MainDraftUntouched ==
  home[Current(slots[Pilot]).content] \in {Pilot, NoBranch}

(* dirty says "whether the document has changed since the last successful     *)
(* save": a text typed on a branch is not called clean before it is saved.     *)
CleanMeansSaved == home[text] # NoBranch /\ ~dirty => text = saved

=============================================================================
