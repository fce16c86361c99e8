--------------------------- MODULE MCLfsFileRead -----------------------------
(* LfsFileRead on a file of five blocks of eight bytes. *)
EXTENDS LfsFileRead

Everywhere == 0..(FileSize + 1)
=============================================================================
