-------------------------- MODULE MCVersionControl --------------------------
(* Small instances of VersionControl: ids are interchangeable model values. *)
EXTENDS VersionControl, TLC

CONSTANTS c1, c2, s1, s2, b1, b2

MCClients == {c1, c2}
MCScripts == {s1, s2}
MCBranches == {b1, b2}
MCIds == Permutations(MCClients) \union Permutations(MCScripts)
         \union Permutations(MCBranches)

=============================================================================
