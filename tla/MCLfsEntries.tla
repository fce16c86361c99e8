----------------------------- MODULE MCLfsEntries ------------------------------
(* LfsEntries on instances small enough for TLC. *)
EXTENDS LfsEntries
StartNames == <<1, 3>>
===============================================================================
