---------------------------- MODULE BranchSlots ----------------------------
(***************************************************************************)
(* What the version-control service promises its callers about a branch:   *)
(* one snapshot at its tip and one draft slot beside it.  A save fills the *)
(* slot, a commit moves the tip and empties the slot, a new branch starts  *)
(* at a text that has been committed, and each of these happens at once.   *)
(* VersionControl is shown to implement this module; EditorSession is      *)
(* written against it.                                                     *)
(***************************************************************************)
CONSTANTS Branches,  \* ids a branch can get
          Contents,  \* texts of a script
          Blank,     \* the empty text
          NoBranch   \* what there is of a branch that has not been created

ASSUME SlotBlankAssumption == Blank \in Contents

VARIABLES slots,     \* of every branch, its tip's text and its draft
          committed  \* the texts of all snapshots

slotVars == <<slots, committed>>

Nothing == [set |-> FALSE, content |-> Blank]
Text(t) == [set |-> TRUE, content |-> t]
Maybe == [set : BOOLEAN, content : Contents]
Slot == [tip : Maybe, draft : Maybe]
ASSUME NoSlotAssumption == NoBranch \notin Slot

SlotTypeOK ==
  /\ slots \in [Branches -> Slot \union {NoBranch}]
  /\ committed \in SUBSET Contents

SlotInit == slots = [b \in Branches |-> NoBranch] /\ committed = {}

CreateSlot(b, tip) ==
  /\ slots[b] = NoBranch
  /\ tip = Nothing \/ \E t \in committed : tip = Text(t)
  /\ slots' = [slots EXCEPT ![b] = [tip |-> tip, draft |-> Nothing]]
  /\ UNCHANGED committed

SaveSlot(b, t) ==
  /\ slots[b] # NoBranch
  /\ slots' = [slots EXCEPT ![b].draft = Text(t)]
  /\ UNCHANGED committed

CommitSlot(b, t) ==
  /\ slots[b] # NoBranch
  /\ slots' = [slots EXCEPT ![b] = [tip |-> Text(t), draft |-> Nothing]]
  /\ committed' = committed \union {t}

SlotNext ==
  \E b \in Branches :
    \/ \E tip \in Maybe : CreateSlot(b, tip)
    \/ \E t \in Contents : SaveSlot(b, t) \/ CommitSlot(b, t)

SlotSpec == SlotInit /\ [][SlotNext]_slotVars

(* The text the editor is to show for a slot: "the draft slot is always      *)
(* fresher than the tip snapshot when it is set".                            *)
Current(slot) == IF slot.draft.set THEN slot.draft ELSE slot.tip

=============================================================================
