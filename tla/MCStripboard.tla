---------------------------- MODULE MCStripboard ----------------------------
(* A script that comes back to the same place at the same time of day. *)
EXTENDS Stripboard, TLC

CONSTANTS c1, c2, kitchenDay, yard, untitled

MCClients == {c1, c2}
MCPlace == kitchenDay :> "kitchen" @@ yard :> "yard" @@ untitled :> "untitled"
MCScripts == {<<yard, kitchenDay, yard>>}
MCIds == Permutations(MCClients)
=============================================================================
