--------------------------- MODULE MCEditorSession ---------------------------
(* Small instances of EditorSession: a main branch and two others. *)
EXTENDS EditorSession

CONSTANTS pilot, b1, b2, TextBound

MCBranches == {pilot, b1, b2}
MCContents == 0..TextBound

=============================================================================
