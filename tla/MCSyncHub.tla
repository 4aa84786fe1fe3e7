----------------------------- MODULE MCSyncHub -----------------------------
(* SyncHub for TLC: connections by name, and how often each of them types. *)
EXTENDS SyncHub

CONSTANTS c1, c2, c3

MCClients == {c1, c2, c3}
(* c1 types twice, c2 once, c3 only reads. *)
MCThreeUpdates == [c \in MCClients |-> IF c = c1 THEN 2 ELSE IF c = c2 THEN 1 ELSE 0]

(* c1 and c2 type once each. *)
MCTwoUpdates == [c \in MCClients |-> IF c = c3 THEN 0 ELSE 1]

=============================================================================
