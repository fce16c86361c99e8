---------------------------- MODULE MCVfsShared ------------------------------
(* VfsShared with pages of two bytes. *)
EXTENDS VfsShared
=============================================================================
