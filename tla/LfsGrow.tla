------------------------------- MODULE LfsGrow --------------------------------
(***************************************************************************)
(* A file system that grows with its container.  When lfs_alloc has passed *)
(* every block since the last acknowledgement it calls allocate_block; the *)
(* VFS enlarges the device, which for FileBlockDevice is durable at once,  *)
(* and then has lfs_fs_grow raise lfs->block_count and commit to the root. *)
(* Opening a volume takes the block count from the device and mount        *)
(* compares it with the one in the superblock.                             *)
(*                                                                         *)
(* Abstracted: a volume is the number of its blocks in use; "held" are     *)
(* those the running operation has allocated and not committed yet.  A     *)
(* block freed behind a window of lfs_alloc (module LfsAlloc) counts as    *)
(* in use until it is seen again.                                          *)
(***************************************************************************)
EXTENDS Naturals

CONSTANTS
  Start,      \* blocks of the device when it is formatted
  GrowBy,     \* blocks added by allocate_block, 8 in the code
  MaxBlocks,  \* blocks the container can hold (bound)
  MaxNeed     \* blocks one operation may need (bound)

ASSUME GrowAssumption ==
  /\ Start \in Nat /\ Start >= 2
  /\ GrowBy \in Nat \ {0}
  /\ MaxBlocks \in Nat /\ MaxBlocks >= Start
  /\ MaxNeed \in Nat

VARIABLES
  device,   \* block count of the device
  stored,   \* block_count in the superblock
  count,    \* lfs->block_count
  cfg,      \* lfs->cfg->block_count
  used,     \* blocks of committed data
  held,     \* blocks allocated by the running operation
  need,     \* blocks it still needs
  onGrow,   \* VFSContext::on_grow
  pc

vars == <<device, stored, count, cfg, used, held, need, onGrow, pc>>

Init ==
  /\ device = Start /\ stored = Start
  /\ count = 0 /\ cfg = 0
  /\ used = 2 /\ held = 0 /\ need = 0
  /\ onGrow = FALSE
  /\ pc = "off"

(* lfs_raw_mount refuses a block count other than the stored one. *)
MountAccepts == stored = device

Mount ==
  /\ pc = "off" /\ MountAccepts
  /\ cfg' = device /\ count' = device
  /\ onGrow' = FALSE
  /\ pc' = "idle"
  /\ UNCHANGED <<device, stored, used, held, need>>

Call ==
  /\ pc = "idle"
  /\ need' \in 1..MaxNeed
  /\ pc' = "alloc"
  /\ UNCHANGED <<device, stored, count, cfg, used, held, onGrow>>

Full == used + held = count

Take ==
  /\ pc = "alloc" /\ need > 0 /\ ~Full
  /\ held' = held + 1 /\ need' = need - 1
  /\ UNCHANGED <<device, stored, count, cfg, used, onGrow, pc>>

(* Mutant: the device reports success and has not grown. *)
EnlargeNothing ==
  /\ pc = "alloc" /\ need > 0 /\ Full
  /\ ~onGrow
  /\ onGrow' = TRUE
  /\ pc' = "grow"
  /\ UNCHANGED <<device, stored, count, cfg, used, held, need>>

(* allocate_block of the device, under the guard against recursion. *)
Enlarge ==
  /\ pc = "alloc" /\ need > 0 /\ Full
  /\ ~onGrow
  /\ device + GrowBy <= MaxBlocks
  /\ device' = device + GrowBy
  /\ onGrow' = TRUE
  /\ pc' = "grow"
  /\ UNCHANGED <<stored, count, cfg, used, held, need>>

NoSpace ==
  /\ pc = "alloc" /\ need > 0 /\ Full
  /\ onGrow \/ device + GrowBy > MaxBlocks
  /\ held' = 0 /\ need' = 0
  /\ pc' = "idle"
  /\ UNCHANGED <<device, stored, count, cfg, used, onGrow>>

(* Mutant: one block more than the device has. *)
GrowTooFar ==
  /\ pc = "grow"
  /\ count' = device + 1 /\ cfg' = device + 1
  /\ pc' = "commit"
  /\ UNCHANGED <<device, stored, used, held, need, onGrow>>

(* lfs_fs_rawgrow, up to the commit. *)
Grow ==
  /\ pc = "grow"
  /\ count' = device /\ cfg' = device
  /\ pc' = "commit"
  /\ UNCHANGED <<device, stored, used, held, need, onGrow>>

(* The commit carries the tag lfs_dir_get returned, that of the name, and  *)
(* so the first eight bytes of the structure: "littlefs" once more.  The   *)
(* callback looks neither at its result nor at that of lfs_fs_grow.        *)
CommitRoot ==
  /\ pc = "commit"
  /\ onGrow' = FALSE
  /\ pc' = "alloc"
  /\ UNCHANGED <<device, stored, count, cfg, used, held, need>>

Commit ==
  /\ pc = "alloc" /\ need = 0
  /\ used' = used + held /\ held' = 0
  /\ pc' = "idle"
  /\ UNCHANGED <<device, stored, count, cfg, need, onGrow>>

Delete ==
  /\ pc = "idle" /\ used > 2
  /\ used' = used - 1
  /\ UNCHANGED <<device, stored, count, cfg, held, need, onGrow, pc>>

(* Power is lost, or the volume is unmounted between two operations. *)
Stop ==
  /\ pc # "off"
  /\ held' = 0 /\ need' = 0
  /\ count' = 0 /\ cfg' = 0
  /\ onGrow' = FALSE
  /\ pc' = "off"
  /\ UNCHANGED <<device, stored, used>>

Step == Take \/ Enlarge \/ NoSpace \/ Grow \/ CommitRoot \/ Commit
Next == Mount \/ Call \/ Step \/ Delete \/ Stop

Spec == Init /\ [][Next]_vars
FairSpec == Spec /\ WF_vars(Step)

------------------------------------------------------------------------------
(* While the volume is mounted nothing lies outside the device, also in    *)
(* the middle of growing, when device and file system disagree (lfs_alloc, *)
(* lfs_bd_cb_alloc).                                                       *)
BlocksBacked ==
  pc # "off" => used + held <= count /\ count <= device /\ cfg = count

(* lfs_fs_grow and its callback: an allocation that finds the device full  *)
(* gets what it needs or reports NOSPC, and never grows forever.           *)
CallsEnd == pc = "alloc" ~> pc \in {"idle", "off"}

(* lfs_fs_grow "Grows the filesystem to a new size, updating the           *)
(* superblock with the new block count": once an operation is over the     *)
(* superblock has the count the file system works with.                    *)
GrownIsStored == pc = "idle" => stored = count
===============================================================================
