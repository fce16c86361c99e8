----------------------------- MODULE MCLfsAlloc ------------------------------
(* LfsAlloc on small devices. *)
EXTENDS LfsAlloc
=============================================================================
