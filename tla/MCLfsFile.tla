----------------------------- MODULE MCLfsFile -------------------------------
(* LfsFile with blocks of three bytes. *)
EXTENDS LfsFile

\* No call depends on what the one before returned.
MCView == <<f, disk>>
=============================================================================
