------------------------------ MODULE MCTrash ------------------------------
(* Small instances of Trash: interchangeable scripts and requests. *)
EXTENDS Trash, TLC

CONSTANTS p1, s1, s2, w1, w2

MCProjects == {p1}
MCScripts == {s1, s2}
MCWorkers == {w1, w2}
MCIds == Permutations(MCScripts) \union Permutations(MCWorkers)

=============================================================================
