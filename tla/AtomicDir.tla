------------------------------ MODULE AtomicDir ------------------------------
(***************************************************************************)
(* What a metadata pair promises to the layers above it: a cell that holds *)
(* one value on storage, is changed by one commit at a time, and never     *)
(* shows anything but the value before or the value after that commit.     *)
(*                                                                         *)
(* cur is what fetching the pair from storage would return at this moment, *)
(* whether or not the system survives until somebody fetches it; losing    *)
(* power is therefore not an action of its own that changes cur, it only   *)
(* abandons the commit in flight.                                          *)
(***************************************************************************)

CONSTANTS
  Value,    \* contents a directory can have
  Absent    \* cur before the directory has been linked into the tree

VARIABLES
  cur,      \* the value on storage
  pend,     \* the value being committed, Absent when no commit is in flight
  ret       \* answer given to the last commit: "ok", "err", or "none" when
            \* it is still running or lost its caller to a power cut

vars == <<cur, pend, ret>>

Init ==
  /\ cur = Absent
  /\ pend = Absent
  /\ ret = "none"

\* A caller starts to commit v.
Begin(v) ==
  /\ pend = Absent
  /\ pend' = v
  /\ ret' = "none"
  /\ UNCHANGED cur

\* The commit takes effect: one indivisible change of storage.
Apply ==
  /\ pend # Absent
  /\ cur' = pend
  /\ UNCHANGED <<pend, ret>>

\* Success is only reported once the value is on storage.
Succeed ==
  /\ pend # Absent
  /\ cur = pend
  /\ pend' = Absent
  /\ ret' = "ok"
  /\ UNCHANGED cur

\* An error may be reported before or after the commit took effect.
Fail ==
  /\ pend # Absent
  /\ pend' = Absent
  /\ ret' = "err"
  /\ UNCHANGED cur

\* Power is lost while a commit is in flight: nobody gets an answer.
Abandon ==
  /\ pend # Absent
  /\ pend' = Absent
  /\ UNCHANGED <<cur, ret>>

Next ==
  \/ \E v \in Value : Begin(v)
  \/ Apply
  \/ Succeed
  \/ Fail
  \/ Abandon

Spec == Init /\ [][Next]_vars
=============================================================================
