------------------------ MODULE EditorSessionProofs ------------------------
(* What EditorSession guarantees of the page for any number of branches,     *)
(* edits, choices, saves and failures.                                       *)
EXTENDS EditorSession, TLAPS

-----------------------------------------------------------------------------
(* The strengthening: a branch or its tip is asked for and shown only if it is *)
(* stored, and what a request on its way will be used for is known by then.    *)
Backed(m) == m = Nothing \/ m.content \in committed
Heard(b) == known[b] # NoBranch => slots[b] # NoBranch /\ Backed(known[b].tip)

PageTypes ==
  /\ {chosen, editing} \subseteq Branches \union {NoBranch}
  /\ text \in Contents /\ saved \in Contents
  /\ dirty \in BOOLEAN /\ enabled \in BOOLEAN /\ overlap \in BOOLEAN
  /\ typed \in 0..MaxTexts /\ choices \in 0..MaxChoices /\ failures \in 0..MaxFailures
  /\ home \in [Contents -> Branches \union {NoBranch}]

StoreInv ==
  /\ SlotTypeOK
  /\ slots[Pilot] # NoBranch
  /\ \A b \in Branches : slots[b] # NoBranch => Backed(slots[b].tip)

KnownInv ==
  /\ known \in [Branches -> Slot \union {NoBranch}]
  /\ \A b \in Branches : Heard(b)
  /\ chosen = NoBranch <=> editing = NoBranch
  /\ chosen # NoBranch => known[chosen] # NoBranch

Sound(r) ==
  /\ r \in Request
  /\ r.kind = "branch" /\ r.stage = "sent" <=> r.branch = NoBranch
  /\ r.kind \in {"branch", "snapshot"} \/ (r.kind = "commit" /\ r.stage = "done") =>
       Backed(r.body)
  /\ r.kind = "branch" /\ r.stage = "done" => slots[r.branch] # NoBranch
  /\ r.then # NoBranch =>
       r.kind = "draft" /\ known[r.then] # NoBranch /\ chosen # NoBranch

(* A save on its way that makes way for a branch is the only one and saves the *)
(* branch that is still edited, as long as no two choices have overlapped.     *)
OneLeaves == \A r \in Leaves : r.branch = editing /\ Leaves = {r}
OverlapInv == overlap \/ OneLeaves

IInv ==
  /\ PageTypes
  /\ StoreInv
  /\ KnownInv
  /\ \A r \in requests : Sound(r)
  /\ OverlapInv

-----------------------------------------------------------------------------
(* Texts, slots and requests. *)
LEMMA Texts == \A t \in Contents : Text(t) \in Maybe /\ Text(t).content = t
  BY DEF Text, Maybe

LEMMA NothingIsMaybe == Nothing \in Maybe
  BY SlotBlankAssumption DEF Nothing, Maybe

LEMMA MaybeFields ==
  ASSUME NEW m \in Maybe
  PROVE  m.content \in Contents /\ m.set \in BOOLEAN
  BY DEF Maybe

LEMMA SlotFields ==
  ASSUME NEW slot \in Slot
  PROVE  /\ slot # NoBranch /\ slot.tip \in Maybe /\ slot.draft \in Maybe
         /\ \A m \in Maybe : /\ [slot EXCEPT !.tip = m] \in Slot
                             /\ [slot EXCEPT !.tip = m].tip = m
                             /\ [slot EXCEPT !.draft = m] \in Slot
                             /\ [slot EXCEPT !.draft = m].tip = slot.tip
  BY NoSlotAssumption DEF Slot

LEMMA NewSlot ==
  ASSUME NEW m \in Maybe
  PROVE  [tip |-> m, draft |-> Nothing] \in Slot
  BY NothingIsMaybe DEF Slot

LEMMA RequestFields ==
  ASSUME NEW r \in Request
  PROVE  /\ r.kind \in {"draft", "commit", "branch", "snapshot"}
         /\ r.branch \in Branches \union {NoBranch} /\ r.then \in Branches \union {NoBranch}
         /\ r.body \in Maybe /\ r.body.content \in Contents
         /\ r.stage \in {"sent", "done"}
  BY DEF Request, Maybe

LEMMA Sending ==
  ASSUME NEW kind \in {"draft", "commit", "branch", "snapshot"},
         NEW b \in Branches \union {NoBranch}, NEW m \in Maybe,
         NEW to \in Branches \union {NoBranch}
  PROVE  /\ Req(kind, b, m, to) \in Request
         /\ Req(kind, b, m, to).kind = kind /\ Req(kind, b, m, to).branch = b
         /\ Req(kind, b, m, to).body = m /\ Req(kind, b, m, to).then = to
         /\ Req(kind, b, m, to).stage = "sent"
  BY DEF Req, Request

(* A draft or a commit of a branch of the page; the snapshot of a known branch. *)
LEMMA SendingSound ==
  ASSUME NEW r \in Request, r.stage = "sent",
         r.kind = "branch" <=> r.branch = NoBranch,
         r.kind \in {"branch", "snapshot"} => Backed(r.body),
         r.then = NoBranch
  PROVE  Sound(r)
  BY DEF Sound

-----------------------------------------------------------------------------
(* No step takes a snapshot or a branch away, or makes the page forget one. *)
Grows ==
  /\ committed \subseteq committed'
  /\ \A b \in Branches : /\ slots[b] # NoBranch => slots'[b] # NoBranch
                         /\ known[b] # NoBranch => known'[b] # NoBranch
  /\ chosen # NoBranch => chosen' # NoBranch

LEMMA SoundStays ==
  ASSUME Grows, NEW r, Sound(r)
  PROVE  Sound(r)'
<1>1. r \in Request
  BY DEF Sound
<1>2. Backed(r.body) => Backed(r.body)'
  BY DEF Backed, Grows
<1>3. r.kind = "branch" /\ r.stage = "done" => slots'[r.branch] # NoBranch
  BY <1>1, RequestFields DEF Sound, Grows
<1>4. r.then # NoBranch =>
        r.kind = "draft" /\ known'[r.then] # NoBranch /\ chosen' # NoBranch
  BY <1>1, RequestFields DEF Sound, Grows
<1>5. QED
  BY <1>1, <1>2, <1>3, <1>4 DEF Sound

LEMMA GrowStep ==
  ASSUME IInv, Grows, PageTypes', StoreInv', KnownInv', OverlapInv',
         \A q \in requests' : q \in requests \/ Sound(q)'
  PROVE  IInv'
<1>1. ASSUME NEW q \in requests' PROVE Sound(q)'
  BY <1>1, SoundStays DEF IInv
<1>2. QED
  BY <1>1 DEF IInv

(* With no new save that makes way for a branch, the editor where it was. *)
LEMMA OverlapStays ==
  ASSUME OverlapInv, overlap' = overlap, editing' = editing,
         \A q \in requests' : q.then # NoBranch => q \in requests
  PROVE  OverlapInv'
<1>1. Leaves' \subseteq Leaves
  BY DEF Leaves
<1>2. OneLeaves => OneLeaves'
  BY <1>1 DEF OneLeaves
<1>3. QED
  BY <1>2 DEF OverlapInv

(* The steps that neither touch the store nor what the page knows of it. *)
LEMMA QuietStep ==
  ASSUME IInv, UNCHANGED <<slotVars, pageVars>>, PageTypes',
         \A q \in requests' : q \in requests \/ (q.then = NoBranch /\ Sound(q)')
  PROVE  IInv'
<1>1. Grows
  BY DEF Grows, slotVars, pageVars
<1>2. StoreInv'
  BY DEF IInv, StoreInv, SlotTypeOK, Backed, slotVars
<1>3. KnownInv'
  BY DEF IInv, KnownInv, Heard, Backed, slotVars, pageVars
<1>4. OverlapInv'
  BY OverlapStays DEF IInv, pageVars
<1>5. QED
  BY <1>1, <1>2, <1>3, <1>4, GrowStep

-----------------------------------------------------------------------------
(* Loading a text, and showing a branch. *)
LEMMA Loading ==
  ASSUME NEW t \in Contents, Load(t)
  PROVE  text' \in Contents /\ dirty' \in BOOLEAN
<1>1. text' \in Contents
  BY DEF Load
<1>2. dirty' = (dirty \/ t # text)
  BY DEF Load
<1>3. (dirty \/ t # text) \in BOOLEAN
  BY Zenon
<1>4. QED
  BY <1>1, <1>2, <1>3, Zenon

LEMMA Showing ==
  ASSUME NEW b \in Branches, NEW rest \in SUBSET requests, PageTypes,
         known'[b] \in Slot, Backed(known'[b].tip), SwitchTo(b, rest)
  PROVE  /\ editing' = b
         /\ text' \in Contents /\ dirty' \in BOOLEAN
         /\ \A q \in requests' : q \in rest \/ (q.then = NoBranch /\ Sound(q))
<1> DEFINE slot == known'[b]
           ask == Req("snapshot", b, slot.tip, NoBranch)
<1>1. slot.tip \in Maybe /\ slot.draft \in Maybe /\ slot.draft.content \in Contents
  BY SlotFields, MaybeFields
<1>2. ask.then = NoBranch /\ Sound(ask)
  <2>1. /\ ask \in Request /\ ask.kind = "snapshot" /\ ask.branch = b
        /\ ask.body = slot.tip /\ ask.then = NoBranch /\ ask.stage = "sent"
    BY <1>1, Sending
  <2> HIDE DEF ask
  <2>2. QED
    BY <2>1, PilotAssumption, SendingSound
<1>3. editing' = b
  BY DEF SwitchTo
<1>4. CASE slot.draft.set
  <2>1. Load(slot.draft.content) /\ requests' = rest
    BY <1>4 DEF SwitchTo
  <2>2. QED
    BY <1>1, <1>3, <2>1, Loading
<1>5. CASE ~slot.draft.set
  <2>1. /\ text' = text /\ dirty' = dirty
        /\ requests' = rest \union (IF slot.tip.set THEN {ask} ELSE {})
    BY <1>5 DEF SwitchTo, bufferVars
  <2>2. \A q \in requests' : q \in rest \/ q = ask
    BY <2>1
  <2> HIDE DEF ask, slot
  <2>3. QED
    BY <1>2, <1>3, <2>1, <2>2 DEF PageTypes
<1>6. QED
  BY <1>4, <1>5

(* What the page may learn in a step that leaves the store alone. *)
Learns ==
  /\ UNCHANGED slotVars
  /\ known' \in [Branches -> Slot \union {NoBranch}]
  /\ \A a \in Branches : /\ known[a] # NoBranch => known'[a] # NoBranch
                         /\ Heard(a)'

LEMMA LearnsGrows ==
  ASSUME Learns, chosen' # NoBranch
  PROVE  Grows /\ (StoreInv => StoreInv')
  BY DEF Learns, Grows, slotVars, StoreInv, SlotTypeOK, Backed

(* Choosing a branch that the page knows of. *)
LEMMA ChooseStep ==
  ASSUME IInv, Learns, NEW b \in Branches, known'[b] # NoBranch,
         NEW rest \in SUBSET requests, Choose(b, rest),
         enabled' \in BOOLEAN, typed' = typed, failures' = failures,
         choices' \in 0..MaxChoices, saved' = saved, home' = home
  PROVE  IInv' /\ editing \in {NoBranch, editing'}
<1>1. chosen' = b /\ chosen' # NoBranch
  BY PilotAssumption DEF Choose
<1>2. known'[b] \in Slot /\ Backed(known'[b].tip)
  BY DEF Learns, Heard, Backed, slotVars
<1>3. PageTypes /\ OverlapInv
  BY DEF IInv
<1>4. CASE editing \in {NoBranch, b}
  <2>1. SwitchTo(b, rest) /\ overlap' = overlap
    BY <1>4 DEF Choose
  <2>2. /\ editing' = b /\ text' \in Contents /\ dirty' \in BOOLEAN
        /\ \A q \in requests' : q \in rest \/ (q.then = NoBranch /\ Sound(q))
    BY <1>2, <1>3, <2>1, Showing
  <2>3. Grows
    BY <1>1, LearnsGrows
  <2>4. \A q \in requests' : q \in requests \/ Sound(q)'
    BY <2>2, <2>3, SoundStays
  <2>5. PageTypes'
    BY <1>1, <1>3, <2>1, <2>2 DEF PageTypes
  <2>6. KnownInv'
    BY <1>1, <2>2, PilotAssumption DEF Learns, KnownInv
  <2>7. OverlapInv'
    <3>1. Leaves' \subseteq Leaves
      BY <2>2 DEF Leaves
    <3>2. \A r \in Leaves : r.branch # NoBranch
      BY DEF IInv, Sound, Leaves
    <3>3. OneLeaves => OneLeaves'
      BY <1>4, <2>2, <3>1, <3>2 DEF OneLeaves
    <3>4. QED
      BY <1>3, <2>1, <3>3 DEF OverlapInv
  <2>8. QED
    BY <1>1, <1>4, <2>2, <2>3, <2>4, <2>5, <2>6, <2>7, LearnsGrows, GrowStep DEF IInv
<1>5. CASE editing \notin {NoBranch, b}
  <2>0. PICK new : new = Req("draft", editing, Text(text), b)
    OBVIOUS
  <2>1. /\ requests' = rest \union {new}
        /\ overlap' = (overlap \/ Leaves # {})
        /\ editing' = editing /\ text' = text /\ dirty' = dirty
    BY <1>5, <2>0 DEF Choose, bufferVars
  <2>2. editing \in Branches /\ b # NoBranch
    BY <1>3, <1>5, PilotAssumption DEF PageTypes
  <2>3. /\ new \in Request /\ new.kind = "draft" /\ new.branch = editing
        /\ new.then = b /\ new.stage = "sent"
    BY <1>3, <2>0, <2>2, Texts, Sending DEF PageTypes
  <2>4. Sound(new)'
    BY <1>1, <1>5, <2>2, <2>3 DEF Sound
  <2>5. \A q \in requests' : q \in requests \/ Sound(q)'
    BY <2>1, <2>4
  <2>6. overlap' \in BOOLEAN
    <3>1. (overlap \/ Leaves # {}) \in BOOLEAN
      BY Zenon
    <3>2. QED
      BY <2>1, <3>1, Zenon
  <2>7. PageTypes'
    BY <1>1, <1>3, <2>1, <2>6 DEF PageTypes
  <2>8. KnownInv'
    BY <1>1, <1>5, <2>1, PilotAssumption DEF Learns, KnownInv
  <2>9. OverlapInv'
    <3>1. CASE Leaves # {}
      BY <2>1, <3>1, Zenon DEF OverlapInv
    <3>2. CASE Leaves = {}
      <4>1. Leaves' = {new}
        BY <2>1, <2>2, <2>3, <3>2 DEF Leaves
      <4>2. OneLeaves'
        BY <2>1, <2>3, <4>1 DEF OneLeaves
      <4>3. QED
        BY <4>2 DEF OverlapInv
    <3>3. QED
      BY <3>1, <3>2
  <2>10. Grows
    BY <1>1, LearnsGrows
  <2>11. QED
    BY <1>1, <1>5, <2>1, <2>5, <2>7, <2>8, <2>9, <2>10, LearnsGrows, GrowStep DEF IInv
<1>6. QED
  BY <1>4, <1>5

-----------------------------------------------------------------------------
(* The steps of the writer and of the timer that choose no branch. *)
LEMMA TextTypes == typed \in 0..MaxTexts /\ typed < MaxTexts => typed + 1 \in 0..MaxTexts /\ typed + 1 \in Contents
  BY TextsAssumption

LEMMA WriteStep ==
  ASSUME IInv, Write
  PROVE  IInv'
<1>1. /\ typed' = typed + 1 /\ text' = typed + 1 /\ dirty' = TRUE
      /\ home' = [home EXCEPT ![typed + 1] = editing]
      /\ UNCHANGED <<slotVars, pageVars, enabled, requests, choices, failures, saved>>
  BY DEF Write
<1>2. typed + 1 \in 0..MaxTexts /\ typed + 1 \in Contents
  BY TextTypes DEF Write, IInv, PageTypes
<1>3. home' \in [Contents -> Branches \union {NoBranch}]
  BY <1>1, <1>2 DEF IInv, PageTypes
<1>4. PageTypes'
  BY <1>1, <1>2, <1>3 DEF IInv, PageTypes, pageVars
<1>5. QED
  BY <1>1, <1>4, QuietStep

(* A request of the page that makes way for no branch. *)
LEMMA SendStep ==
  ASSUME IInv, UNCHANGED <<slotVars, pageVars, bufferVars, enabled, typed, failures,
                           saved, home>>,
         choices' \in 0..MaxChoices,
         NEW kind \in {"draft", "commit", "branch"},
         NEW b \in Branches \union {NoBranch}, NEW m \in Maybe,
         kind = "branch" <=> b = NoBranch,
         kind = "branch" => Backed(m),
         requests' = requests \union {Req(kind, b, m, NoBranch)}
  PROVE  IInv'
<1>1. PICK new : new = Req(kind, b, m, NoBranch)
  OBVIOUS
<1>2. /\ new \in Request /\ new.kind = kind /\ new.branch = b /\ new.body = m
      /\ new.then = NoBranch /\ new.stage = "sent"
  BY <1>1, Sending
<1>3. Sound(new)
  BY <1>2, SendingSound
<1>4. Grows
  BY DEF Grows, slotVars, pageVars
<1>5. Sound(new)'
  BY <1>3, <1>4, SoundStays
<1>6. PageTypes'
  BY DEF IInv, PageTypes, pageVars, bufferVars
<1>7. QED
  BY <1>1, <1>2, <1>5, <1>6, QuietStep

LEMMA TriggerSaveStep ==
  ASSUME IInv, TriggerSave, choices' \in 0..MaxChoices
  PROVE  IInv'
<1>1. editing \in Branches /\ Text(text) \in Maybe
  BY Texts, PilotAssumption DEF TriggerSave, IInv, PageTypes
<1>2. editing # NoBranch
  BY DEF TriggerSave
<1>3. QED
  BY <1>1, <1>2, SendStep DEF TriggerSave

LEMMA ChoiceCounted ==
  ASSUME IInv, Choice
  PROVE  choices' \in 0..MaxChoices
  BY BoundsAssumption DEF IInv, PageTypes, Choice

LEMMA SaveSnapshotStep ==
  ASSUME IInv, SaveSnapshot
  PROVE  IInv'
<1>1. editing \in Branches /\ editing # NoBranch /\ Text(text) \in Maybe
  BY Texts, PilotAssumption DEF SaveSnapshot, IInv, PageTypes
<1>2. choices' \in 0..MaxChoices
  BY ChoiceCounted DEF SaveSnapshot
<1>3. QED
  BY <1>1, <1>2, SendStep DEF SaveSnapshot

LEMMA CreateBranchStep ==
  ASSUME IInv, CreateBranch
  PROVE  IInv'
<1>1. chosen \in Branches /\ known[chosen] # NoBranch
  BY DEF CreateBranch, IInv, PageTypes, KnownInv
<1>2. known[chosen].tip \in Maybe /\ Backed(known[chosen].tip)
  BY <1>1, SlotFields DEF IInv, KnownInv, Heard
<1>3. choices' \in 0..MaxChoices
  BY ChoiceCounted DEF CreateBranch
<1>4. QED
  BY <1>2, <1>3, SendStep DEF CreateBranch

LEMMA WriterStep ==
  ASSUME IInv,
         \/ Type \/ ImportFile \/ ReplaceInText
         \/ Tick \/ TickNowhere \/ SaveDraftNow
         \/ CreateBranch \/ SaveSnapshot
         \/ \E on \in BOOLEAN : SetAutosave(on)
  PROVE  IInv' /\ editing' = editing
<1>1. CASE Type \/ ImportFile \/ ReplaceInText
  BY <1>1, WriteStep DEF Type, ImportFile, ReplaceInText, Write, pageVars
<1>2. CASE Tick
  <2>1. choices' \in 0..MaxChoices
    BY <1>2 DEF Tick, IInv, PageTypes
  <2>2. QED
    BY <1>2, <2>1, TriggerSaveStep DEF Tick, TriggerSave, pageVars
<1>3. CASE SaveDraftNow
  BY <1>3, TriggerSaveStep, ChoiceCounted DEF SaveDraftNow, TriggerSave, pageVars
<1>4. CASE CreateBranch \/ SaveSnapshot
  BY <1>4, CreateBranchStep, SaveSnapshotStep DEF CreateBranch, SaveSnapshot, pageVars
<1>5. CASE TickNowhere
  <2>1. PageTypes'
    BY <1>5 DEF TickNowhere, IInv, PageTypes, pageVars, counters
  <2>2. QED
    BY <1>5, <2>1, QuietStep DEF TickNowhere, pageVars
<1>6. ASSUME NEW on \in BOOLEAN, SetAutosave(on) PROVE IInv' /\ editing' = editing
  <2>1. PageTypes'
    BY <1>6 DEF SetAutosave, IInv, PageTypes, pageVars, bufferVars, counters
  <2>2. QED
    BY <1>6, <2>1, QuietStep DEF SetAutosave, pageVars
<1>7. QED
  BY <1>1, <1>2, <1>3, <1>4, <1>5, <1>6

-----------------------------------------------------------------------------
(* The steps that choose a branch: the panel hears of all branches at first, *)
(* of a new one when it is answered.                                         *)
LEMMA LoadBranchesStep ==
  ASSUME IInv, LoadBranches
  PROVE  IInv' /\ editing \in {NoBranch, editing'}
<1>1. known' = slots /\ UNCHANGED slotVars /\ Choose(Pilot, requests)
  BY DEF LoadBranches
<1>2. Learns
  BY <1>1 DEF IInv, StoreInv, SlotTypeOK, KnownInv, Heard, Backed, Learns, slotVars
<1>3. known'[Pilot] # NoBranch
  BY <1>1 DEF IInv, StoreInv
<1>4. /\ enabled' \in BOOLEAN /\ typed' = typed /\ failures' = failures
      /\ choices' \in 0..MaxChoices /\ saved' = saved /\ home' = home
  BY DEF LoadBranches, counters, IInv, PageTypes
<1>5. QED
  BY <1>1, <1>2, <1>3, <1>4, ChooseStep, PilotAssumption

LEMMA SelectBranchStep ==
  ASSUME IInv, NEW b \in Branches, SelectBranch(b)
  PROVE  IInv' /\ editing \in {NoBranch, editing'}
<1>1. known' = known /\ UNCHANGED slotVars /\ known[b] # NoBranch /\ Choose(b, requests)
  BY DEF SelectBranch
<1>2. Learns
  BY <1>1 DEF IInv, KnownInv, Heard, Backed, Learns, slotVars
<1>3. /\ enabled' \in BOOLEAN /\ typed' = typed /\ failures' = failures
      /\ choices' \in 0..MaxChoices /\ saved' = saved /\ home' = home
  BY ChoiceCounted DEF SelectBranch, IInv, PageTypes
<1>4. QED
  BY <1>1, <1>2, <1>3, ChooseStep

LEMMA BranchAnsweredStep ==
  ASSUME IInv, NEW r \in requests, BranchAnswered(r)
  PROVE  IInv' /\ editing \in {NoBranch, editing'}
<1>1. Sound(r) /\ r.kind = "branch" /\ r.stage = "done"
  BY DEF IInv, BranchAnswered
<1>2. /\ r.branch \in Branches /\ r.body \in Maybe /\ Backed(r.body)
      /\ slots[r.branch] # NoBranch
  BY <1>1, RequestFields DEF Sound
<1>3. PICK slot \in Slot : slot = [tip |-> r.body, draft |-> Nothing]
  BY <1>2, NewSlot
<1>4. /\ known' = [known EXCEPT ![r.branch] = slot] /\ UNCHANGED slotVars
      /\ Choose(r.branch, Rest(r))
  BY <1>3 DEF BranchAnswered
<1>5. slot.tip = r.body /\ slot # NoBranch
  BY <1>3, SlotFields
<1>6. known' \in [Branches -> Slot \union {NoBranch}]
  BY <1>2, <1>4 DEF IInv, KnownInv
<1>7. \A a \in Branches : known'[a] = IF a = r.branch THEN slot ELSE known[a]
  BY <1>4 DEF IInv, KnownInv
<1>8. \A a \in Branches : Heard(a)'
  BY <1>2, <1>4, <1>5, <1>7 DEF IInv, KnownInv, Heard, Backed, slotVars
<1>9. Learns /\ known'[r.branch] # NoBranch
  BY <1>2, <1>4, <1>5, <1>6, <1>7, <1>8 DEF Learns
<1>10. /\ enabled' \in BOOLEAN /\ typed' = typed /\ failures' = failures
       /\ choices' \in 0..MaxChoices /\ saved' = saved /\ home' = home
  BY DEF BranchAnswered, counters, IInv, PageTypes
<1>11. Rest(r) \in SUBSET requests
  BY DEF Rest
<1>12. QED
  BY <1>2, <1>4, <1>9, <1>10, <1>11, ChooseStep

-----------------------------------------------------------------------------
(* The save that makes way for a branch comes back, or fails. *)
LEMMA LeftStep ==
  ASSUME IInv, NEW r \in requests, Left(r),
         UNCHANGED <<slotVars, enabled, typed, choices, home>>,
         failures' \in 0..MaxFailures, saved' \in Contents
  PROVE  /\ IInv'
         /\ r \notin requests' /\ r.then = editing' /\ (r.branch = editing \/ overlap)
<1>1. Sound(r) /\ r \in Leaves
  BY DEF IInv, Left, Leaves
<1>2. r.then \in Branches /\ known[r.then] # NoBranch
  BY <1>1, RequestFields DEF Sound, Leaves
<1>3. UNCHANGED <<known, chosen, overlap>> /\ SwitchTo(r.then, Rest(r))
  BY DEF Left
<1>4. known'[r.then] \in Slot /\ Backed(known'[r.then].tip)
  BY <1>2, <1>3 DEF IInv, KnownInv, Heard
<1>5. Rest(r) \in SUBSET requests /\ PageTypes
  BY DEF Rest, IInv
<1>6. /\ editing' = r.then /\ text' \in Contents /\ dirty' \in BOOLEAN
      /\ \A q \in requests' : q \in Rest(r) \/ (q.then = NoBranch /\ Sound(q))
  BY <1>2, <1>3, <1>4, <1>5, Showing
<1>7. Grows /\ StoreInv'
  BY <1>3 DEF IInv, Grows, StoreInv, SlotTypeOK, Backed, slotVars
<1>8. \A q \in requests' : q \in requests \/ Sound(q)'
  BY <1>5, <1>6, <1>7, SoundStays
<1>9. PageTypes'
  BY <1>2, <1>3, <1>5, <1>6 DEF PageTypes
<1>10. KnownInv'
  <2>1. r.branch # NoBranch /\ r.then # NoBranch
    BY <1>1 DEF Sound, Leaves
  <2>2. chosen # NoBranch
    BY <1>1 DEF Sound, Leaves
  <2>3. QED
    BY <1>3, <1>6, <2>1, <2>2 DEF IInv, KnownInv, Heard, Backed, slotVars
<1>11. r \notin requests'
  BY <1>1, <1>6 DEF Leaves, Rest
<1>12. OverlapInv' /\ (r.branch = editing \/ overlap)
  <2>1. ASSUME OneLeaves PROVE OneLeaves' /\ r.branch = editing
    <3>1. r.branch = editing /\ Leaves = {r}
      BY <1>1, <2>1 DEF OneLeaves
    <3>2. Leaves' = {}
      BY <1>6, <3>1 DEF Leaves, Rest
    <3>3. QED
      BY <3>1, <3>2 DEF OneLeaves
  <2>2. QED
    BY <1>3, <2>1 DEF IInv, OverlapInv
<1>13. QED
  BY <1>6, <1>7, <1>8, <1>9, <1>10, <1>11, <1>12, GrowStep

-----------------------------------------------------------------------------
(* Answers that choose no branch. *)
LEMMA FewerRequests ==
  ASSUME NEW r \in requests, requests' = Rest(r)
  PROVE  \A q \in requests' : q \in requests
  BY DEF Rest

LEMMA SaveAnsweredStep ==
  ASSUME IInv, NEW r \in requests, SaveAnswered(r)
  PROVE  IInv' /\ editing' = editing
<1>1. saved' \in Contents
  BY RequestFields DEF SaveAnswered, IInv, Sound
<1>2. PageTypes'
  BY <1>1 DEF SaveAnswered, IInv, PageTypes, pageVars, counters
<1>3. QED
  BY <1>2, FewerRequests, QuietStep DEF SaveAnswered, pageVars

LEMMA SnapshotAnsweredStep ==
  ASSUME IInv, NEW r \in requests, SnapshotAnswered(r)
  PROVE  IInv' /\ editing' = editing
<1>1. r.body.content \in Contents
  BY RequestFields DEF IInv, Sound
<1>2. text' \in Contents /\ dirty' \in BOOLEAN
  <2>1. CASE r.body = Text(Blank)
    BY <2>1 DEF SnapshotAnswered, bufferVars, IInv, PageTypes
  <2>2. CASE r.body # Text(Blank)
    BY <1>1, <2>2, Loading DEF SnapshotAnswered
  <2>3. QED
    BY <2>1, <2>2
<1>3. PageTypes'
  BY <1>2 DEF SnapshotAnswered, IInv, PageTypes, pageVars, counters
<1>4. QED
  BY <1>3, FewerRequests, QuietStep DEF SnapshotAnswered, pageVars

LEMMA CommitAnsweredStep ==
  ASSUME IInv, NEW r \in requests, CommitAnswered(r)
  PROVE  IInv' /\ editing' = editing
<1>1. Sound(r) /\ r.kind = "commit" /\ r.stage = "done"
  BY DEF IInv, CommitAnswered
<1>2. /\ r.branch \in Branches /\ r.body \in Maybe /\ Backed(r.body)
      /\ r.body.content \in Contents
  BY <1>1, RequestFields DEF Sound
<1>3. UNCHANGED slotVars /\ UNCHANGED <<chosen, editing, overlap>> /\ requests' = Rest(r)
  BY DEF CommitAnswered
<1>4. Learns
  <2>1. CASE chosen = r.branch
    <3>1. known[chosen] \in Slot /\ chosen \in Branches
      BY <1>2, <2>1, PilotAssumption DEF IInv, KnownInv
    <3>2. PICK slot \in Slot : slot = [known[chosen] EXCEPT !.tip = r.body]
      BY <1>2, <3>1, SlotFields
    <3>3. slot.tip = r.body /\ slot # NoBranch
      BY <1>2, <3>1, <3>2, SlotFields
    <3>4. known' = [known EXCEPT ![chosen] = slot]
      BY <2>1, <3>2 DEF CommitAnswered
    <3>5. \A a \in Branches : known'[a] = IF a = chosen THEN slot ELSE known[a]
      BY <3>4 DEF IInv, KnownInv
    <3>6. \A a \in Branches : Heard(a)'
      BY <1>2, <1>3, <3>1, <3>3, <3>5, SlotFields DEF IInv, KnownInv, Heard, Backed, slotVars
    <3>7. QED
      BY <1>3, <3>1, <3>3, <3>4, <3>5, <3>6 DEF Learns, IInv, KnownInv
  <2>2. CASE chosen # r.branch
    BY <1>3, <2>2 DEF CommitAnswered, IInv, KnownInv, Heard, Backed, Learns, slotVars
  <2>3. QED
    BY <2>1, <2>2
<1>5. Grows /\ StoreInv'
  BY <1>3, <1>4 DEF Learns, Grows, slotVars, IInv, StoreInv, SlotTypeOK, Backed
<1>6. KnownInv'
  BY <1>3, <1>4 DEF IInv, PageTypes, KnownInv, Learns
<1>7. PageTypes'
  BY <1>2 DEF CommitAnswered, IInv, PageTypes, counters
<1>8. OverlapInv'
  BY <1>3, FewerRequests, OverlapStays DEF IInv
<1>9. QED
  BY <1>3, <1>5, <1>6, <1>7, <1>8, FewerRequests, GrowStep

(* A request fails. *)
LEMMA FailureStep ==
  ASSUME IInv, NEW r \in requests, RequestFails(r)
  PROVE  /\ IInv'
         /\ \/ editing' = editing
            \/ /\ r \notin requests' /\ r.then = editing' /\ (r.branch = editing \/ overlap)
               /\ failures' > failures
<1>1. /\ failures' \in 0..MaxFailures /\ failures' > failures
      /\ UNCHANGED <<slotVars, enabled, typed, choices, saved, home>>
  BY BoundsAssumption DEF RequestFails, IInv, PageTypes
<1>2. CASE Left(r)
  BY <1>1, <1>2, LeftStep DEF IInv, PageTypes
<1>3. CASE requests' = Rest(r) /\ UNCHANGED <<pageVars, bufferVars>>
  <2>1. PageTypes'
    BY <1>1, <1>3 DEF IInv, PageTypes, pageVars, bufferVars
  <2>2. QED
    BY <1>1, <1>3, <2>1, FewerRequests, QuietStep DEF pageVars
<1>4. QED
  BY <1>2, <1>3 DEF RequestFails

-----------------------------------------------------------------------------
(* A request takes effect: what the service promises keeps the store sound. *)
StoreGrows ==
  /\ committed \subseteq committed'
  /\ \A b \in Branches : slots[b] # NoBranch => slots'[b] # NoBranch

LEMMA SlotWritten ==
  ASSUME IInv, NEW b \in Branches, NEW slot \in Slot,
         slots' = [slots EXCEPT ![b] = slot],
         committed \subseteq committed', committed' \subseteq Contents, Backed(slot.tip)'
  PROVE  StoreInv' /\ StoreGrows /\ slots'[b] # NoBranch
<1>1. \A a \in Branches : slots'[a] = IF a = b THEN slot ELSE slots[a]
  BY DEF IInv, StoreInv, SlotTypeOK
<1>2. slot # NoBranch
  BY SlotFields
<1>3. slots' \in [Branches -> Slot \union {NoBranch}]
  BY DEF IInv, StoreInv, SlotTypeOK
<1>4. ASSUME NEW a \in Branches, slots'[a] # NoBranch
      PROVE  slots'[a].tip = Nothing \/ slots'[a].tip.content \in committed'
  <2>1. CASE a = b
    BY <1>1, <2>1 DEF Backed
  <2>2. CASE a # b
    BY <1>1, <1>4, <2>2 DEF IInv, StoreInv, Backed
  <2>3. QED
    BY <2>1, <2>2
<1>5. \A a \in Branches : slots'[a] # NoBranch => Backed(slots[a].tip)'
  BY <1>4 DEF Backed
<1>6. QED
  BY <1>1, <1>2, <1>3, <1>5, PilotAssumption DEF IInv, StoreInv, SlotTypeOK, StoreGrows

LEMMA CreateArrives ==
  ASSUME IInv, NEW b \in Branches, NEW m \in Maybe, CreateSlot(b, m)
  PROVE  StoreInv' /\ StoreGrows /\ slots'[b] # NoBranch
<1>1. PICK slot \in Slot : slot = [tip |-> m, draft |-> Nothing]
  BY NewSlot
<1>2. slots' = [slots EXCEPT ![b] = slot] /\ committed' = committed
  BY <1>1 DEF CreateSlot
<1>3. slot.tip = m
  BY <1>1
<1>4. m = Nothing \/ m.content \in committed
  BY DEF CreateSlot, Text
<1>5. committed \subseteq Contents
  BY DEF IInv, StoreInv, SlotTypeOK
<1>6. QED
  BY <1>2, <1>3, <1>4, <1>5, SlotWritten DEF Backed

LEMMA SaveArrives ==
  ASSUME IInv, NEW b \in Branches, NEW t \in Contents, SaveSlot(b, t)
  PROVE  StoreInv' /\ StoreGrows
<1>1. slots[b] \in Slot /\ Backed(slots[b].tip)
  BY DEF SaveSlot, IInv, StoreInv, SlotTypeOK
<1>2. PICK m \in Maybe : m = Text(t)
  BY Texts
<1>3. PICK slot \in Slot : slot = [slots[b] EXCEPT !.draft = m]
  BY <1>1, SlotFields
<1>4. slots' = [slots EXCEPT ![b] = slot] /\ committed' = committed
  BY <1>2, <1>3 DEF SaveSlot
<1>5. slot.tip = slots[b].tip
  BY <1>1, <1>3, SlotFields
<1>6. committed \subseteq Contents
  BY DEF IInv, StoreInv, SlotTypeOK
<1>7. QED
  BY <1>1, <1>4, <1>5, <1>6, SlotWritten DEF Backed

LEMMA CommitArrives ==
  ASSUME IInv, NEW b \in Branches, NEW t \in Contents, CommitSlot(b, t)
  PROVE  StoreInv' /\ StoreGrows /\ t \in committed'
<1>1. PICK m \in Maybe : m = Text(t) /\ m.content = t
  BY Texts
<1>2. PICK slot \in Slot : slot = [tip |-> m, draft |-> Nothing]
  BY NewSlot
<1>3. slots' = [slots EXCEPT ![b] = slot] /\ committed' = committed \union {t}
  BY <1>1, <1>2 DEF CommitSlot
<1>4. slot.tip = m
  BY <1>2
<1>5. committed' \subseteq Contents
  BY <1>3 DEF IInv, StoreInv, SlotTypeOK
<1>6. QED
  BY <1>1, <1>3, <1>4, <1>5, SlotWritten DEF Backed

(* The request that has taken effect, as it waits for its answer. *)
LEMMA DoneSound ==
  ASSUME NEW r, Sound(r), r.stage = "sent", NEW b \in Branches,
         r.kind = "branch" \/ b = r.branch,
         NEW new, new = [r EXCEPT !.branch = b, !.stage = "done"],
         StoreGrows, UNCHANGED pageVars,
         r.kind \in {"draft", "commit", "branch"},
         r.kind = "commit" => r.body.content \in committed',
         r.kind = "branch" => slots'[b] # NoBranch
  PROVE  Sound(new)' /\ new.then = r.then /\ new.branch = b
<1>1. r \in Request
  BY DEF Sound
<1>2. /\ new \in Request /\ new.kind = r.kind /\ new.branch = b /\ new.stage = "done"
      /\ new.body = r.body /\ new.then = r.then
  BY <1>1 DEF Request
<1>3. r.kind = "branch" => Backed(r.body)'
  BY DEF Sound, Backed, StoreGrows
<1>4. r.kind = "commit" => Backed(r.body)'
  BY DEF Backed
<1>5. b # NoBranch
  BY PilotAssumption
<1>6. r.then # NoBranch => r.kind = "draft" /\ known'[r.then] # NoBranch /\ chosen' # NoBranch
  BY DEF Sound, pageVars
<1>7. QED
  BY <1>2, <1>3, <1>4, <1>5, <1>6 DEF Sound

LEMMA ArriveStep ==
  ASSUME IInv, NEW r \in requests, Arrive(r)
  PROVE  IInv' /\ editing' = editing
<1>1. Sound(r) /\ r \in Request /\ r.stage = "sent"
  BY DEF IInv, Sound, Arrive
<1>2. /\ r.body \in Maybe /\ r.body.content \in Contents
      /\ r.kind # "branch" => r.branch \in Branches
  BY <1>1, RequestFields DEF Sound
<1>3. UNCHANGED <<pageVars, bufferVars, enabled, counters, saved, home>>
  BY DEF Arrive
<1>4. PICK b \in Branches :
        /\ r.kind = "branch" \/ b = r.branch
        /\ requests' = (requests \ {r}) \union {[r EXCEPT !.branch = b, !.stage = "done"]}
        /\ \/ r.kind = "draft" /\ SaveSlot(b, r.body.content)
           \/ r.kind = "commit" /\ CommitSlot(b, r.body.content)
           \/ r.kind = "branch" /\ CreateSlot(b, r.body)
  <2>1. CASE r.kind = "branch"
    BY <2>1 DEF Arrive
  <2>2. CASE r.kind # "branch"
    <3>1. PICK b \in Branches : b = r.branch
      BY <1>2, <2>2
    <3>2. [r EXCEPT !.stage = "done"] = [r EXCEPT !.branch = b, !.stage = "done"]
      BY <1>1, <3>1 DEF Request
    <3>3. QED
      BY <2>2, <3>1, <3>2 DEF Arrive
  <2>3. QED
    BY <2>1, <2>2
<1>5. PICK new : new = [r EXCEPT !.branch = b, !.stage = "done"]
  OBVIOUS
<1>6. /\ StoreInv' /\ StoreGrows
      /\ r.kind \in {"draft", "commit", "branch"}
      /\ r.kind = "commit" => r.body.content \in committed'
      /\ r.kind = "branch" => slots'[b] # NoBranch
  BY <1>2, <1>4, SaveArrives, CommitArrives, CreateArrives
<1>7. Sound(new)' /\ new.then = r.then /\ new.branch = b
  BY <1>1, <1>3, <1>4, <1>5, <1>6, DoneSound, ZenonT(60)
<1>8. \A q \in requests' : q \in requests \/ q = new
  BY <1>4, <1>5
<1>9. Grows
  BY <1>3, <1>6 DEF Grows, StoreGrows, pageVars
<1>10. PageTypes'
  BY <1>3 DEF IInv, PageTypes, pageVars, bufferVars, counters
<1>11. KnownInv'
  <2>1. ASSUME NEW a \in Branches PROVE Heard(a)'
    <3>1. Heard(a)
      BY DEF IInv, KnownInv
    <3>2. QED
      BY <1>3, <1>6, <3>1 DEF Heard, Backed, StoreGrows, pageVars
  <2>2. QED
    BY <1>3, <2>1 DEF IInv, KnownInv, pageVars
<1>12. OverlapInv'
  <2>1. ASSUME OneLeaves PROVE OneLeaves'
    <3>1. CASE r \in Leaves
      <4>1. Leaves = {r} /\ r.branch = editing /\ r.then # NoBranch
        BY <2>1, <3>1 DEF OneLeaves, Leaves
      <4>2. r.kind = "draft"
        BY <1>1, <4>1 DEF Sound
      <4>3. Leaves' = {new} /\ new.branch = editing'
        BY <1>3, <1>4, <1>5, <1>7, <4>1, <4>2 DEF Leaves, pageVars
      <4>4. QED
        BY <4>3 DEF OneLeaves
    <3>2. CASE r \notin Leaves
      <4>1. Leaves' = Leaves
        BY <1>4, <1>5, <1>7, <3>2 DEF Leaves
      <4>2. QED
        BY <1>3, <2>1, <4>1 DEF OneLeaves, pageVars
    <3>3. QED
      BY <3>1, <3>2
  <2>2. QED
    BY <1>3, <2>1 DEF IInv, OverlapInv, pageVars
<1>13. QED
  BY <1>3, <1>6, <1>7, <1>8, <1>9, <1>10, <1>11, <1>12, GrowStep DEF pageVars

-----------------------------------------------------------------------------
LEMMA InitIInv == Init => IInv
<1> SUFFICES ASSUME Init PROVE IInv
  OBVIOUS
<1>1. /\ typed \in 0..MaxTexts /\ (typed = 1 => 1 \in Contents) /\ Blank \in Contents
      /\ choices \in 0..MaxChoices /\ failures \in 0..MaxFailures
  BY TextsAssumption, BoundsAssumption DEF Init
<1>2. PICK draft \in Maybe : draft = IF typed = 1 THEN Text(1) ELSE Nothing
  BY <1>1, Texts, NothingIsMaybe
<1>3. Text(Blank) \in Maybe /\ Text(Blank).content = Blank
  BY <1>1, Texts
<1>4. [tip |-> Text(Blank), draft |-> draft] \in Slot
  BY <1>3 DEF Slot
<1>5. slots = [b \in Branches |-> IF b # Pilot THEN NoBranch
                                  ELSE [tip |-> Text(Blank), draft |-> draft]]
  BY <1>2 DEF Init
<1>6. \A b \in Branches :
        slots[b] = IF b # Pilot THEN NoBranch ELSE [tip |-> Text(Blank), draft |-> draft]
  BY <1>5
<1>7. SlotTypeOK
  BY <1>1, <1>4, <1>5 DEF SlotTypeOK, Init
<1>8. slots[Pilot] # NoBranch
  BY <1>4, <1>6, PilotAssumption, SlotFields
<1>9. \A b \in Branches : slots[b] # NoBranch => Backed(slots[b].tip)
  BY <1>3, <1>6 DEF Backed, Init
<1>10. PageTypes
  BY <1>1, PilotAssumption DEF PageTypes, Init
<1>11. KnownInv
  BY DEF KnownInv, Heard, Init
<1>12. requests = {} /\ OneLeaves
  BY DEF Init, OneLeaves, Leaves
<1>13. QED
  BY <1>7, <1>8, <1>9, <1>10, <1>11, <1>12 DEF IInv, StoreInv, OverlapInv

(* What a step does to the invariant and to the branch that is edited. *)
Departure ==
  editing \notin {NoBranch, editing'} =>
    \E r \in requests \ requests' :
      /\ r.then = editing' /\ (r.branch = editing \/ overlap)
      /\ r.stage = "done" \/ failures' > failures

LEMMA AnswerStep ==
  ASSUME IInv, NEW r \in requests, Answer(r)
  PROVE  IInv' /\ Departure
<1>1. CASE SaveAnswered(r) \/ CommitAnswered(r) \/ SnapshotAnswered(r)
  BY <1>1, SaveAnsweredStep, CommitAnsweredStep, SnapshotAnsweredStep DEF Departure
<1>2. CASE BranchAnswered(r)
  BY <1>2, BranchAnsweredStep DEF Departure
<1>3. CASE LeaveAnswered(r)
  <2>1. /\ Left(r) /\ r.stage = "done" /\ saved' = r.body.content
        /\ UNCHANGED <<slotVars, enabled, counters, home>>
    BY <1>3 DEF LeaveAnswered
  <2>2. UNCHANGED <<typed, choices>> /\ failures' \in 0..MaxFailures
    BY <2>1 DEF counters, IInv, PageTypes
  <2>3. saved' \in Contents
    BY <2>1, RequestFields DEF IInv, Sound
  <2>4. IInv' /\ r \notin requests' /\ r.then = editing' /\ (r.branch = editing \/ overlap)
    BY <2>1, <2>2, <2>3, LeftStep
  <2>5. QED
    BY <2>1, <2>4 DEF Departure
<1>4. QED
  BY <1>1, <1>2, <1>3 DEF Answer

LEMMA Step == IInv /\ [Next]_vars => IInv' /\ Departure
<1> SUFFICES ASSUME IInv, [Next]_vars PROVE IInv' /\ Departure
  OBVIOUS
<1>1. CASE LoadBranches \/ \E b \in Branches : SelectBranch(b)
  BY <1>1, LoadBranchesStep, SelectBranchStep DEF Departure
<1>2. CASE \/ Type \/ ImportFile \/ ReplaceInText
           \/ Tick \/ TickNowhere \/ SaveDraftNow
           \/ CreateBranch \/ SaveSnapshot
           \/ \E on \in BOOLEAN : SetAutosave(on)
  BY <1>2, WriterStep DEF Departure
<1>3. ASSUME NEW r \in requests, Arrive(r) \/ Answer(r) PROVE IInv' /\ Departure
  BY <1>3, ArriveStep, AnswerStep DEF Departure
<1>4. ASSUME NEW r \in requests, RequestFails(r) PROVE IInv' /\ Departure
  BY <1>4, FailureStep DEF Departure
<1>5. CASE UNCHANGED vars
  <2>1. PageTypes'
    BY <1>5 DEF vars, pageVars, bufferVars, counters, IInv, PageTypes
  <2>2. QED
    BY <1>5, <2>1, QuietStep DEF vars, pageVars, Departure
<1>6. QED
  BY <1>1, <1>2, <1>3, <1>4, <1>5 DEF Next

THEOREM EditorInductive == Spec => []IInv
<1>1. IInv /\ [Next]_vars => IInv'
  BY Step
<1>2. QED
  BY InitIInv, <1>1, PTL DEF Spec

(* Every variable of the page keeps its type: no handler sends a request for  *)
(* no branch, or reads the tip or the draft of a branch it does not have.     *)
THEOREM EditorTypeCorrect == Spec => []TypeOK
<1>1. IInv => TypeOK
  BY DEF IInv, PageTypes, StoreInv, KnownInv, Sound, TypeOK
<1>2. QED
  BY <1>1, EditorInductive, PTL

(* The panel's tips never run ahead of the service's snapshots, so a branch   *)
(* is only ever started from, and only ever shown, a text that is stored.     *)
THEOREM PageShowsStoredTips == Spec => []TipsAreSnapshots
<1>1. ASSUME IInv PROVE TipsAreSnapshots
  <2>1. \A r \in requests : r.kind \in {"branch", "snapshot"} =>
          r.body = Nothing \/ r.body.content \in committed
    BY <1>1 DEF IInv, Sound, Backed
  <2>2. ASSUME NEW b \in Branches, known[b] # NoBranch
        PROVE  slots[b] # NoBranch /\ (known[b].tip.set => known[b].tip.content \in committed)
    <3>1. slots[b] # NoBranch /\ Backed(known[b].tip)
      BY <1>1, <2>2 DEF IInv, KnownInv, Heard
    <3>2. QED
      BY <3>1 DEF Backed, Nothing
  <2>3. QED
    BY <2>1, <2>2 DEF TipsAreSnapshots
<1>2. QED
  BY <1>1, EditorInductive, PTL

(* The editor leaves a branch only when a save that made way for the next one *)
(* comes back; and unless two choices have overlapped, that save is of the    *)
(* branch it leaves, however many branches, choices, saves and failures.      *)
THEOREM LeavingIsSaved == Spec => SwitchOnlyAfterSave
<1>1. IInv /\ [Next]_vars => Departure
  BY Step
<1>2. Departure =>
        (editing \notin {NoBranch, editing'} =>
           \E r \in requests \ requests' :
             /\ r.then = editing' /\ (r.branch = editing \/ overlap)
             /\ r.stage = "done" \/ failures' > failures)
  BY DEF Departure
<1>3. QED
  BY <1>1, <1>2, EditorInductive, PTL DEF Spec, SwitchOnlyAfterSave

=============================================================================
