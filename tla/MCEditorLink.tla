---------------------------- MODULE MCEditorLink ----------------------------
(* Small instances of EditorLink. *)
EXTENDS EditorLink

CONSTANTS b1, b2

TwoBrokers == {b1, b2}

=============================================================================
