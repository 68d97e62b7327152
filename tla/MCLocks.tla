------------------------------ MODULE MCLocks ------------------------------
(* The two file locks of a project, checked in one run: the claim lock     *)
(* (ClaimLock: launchers for two Codex seats, a bridge, a worktree         *)
(* removal) and the layout lock of its mailbox (LayoutLock).  They share   *)
(* no state; Init chooses.                                                 *)
EXTENDS ClaimLock

CONSTANTS l1, l2, l3, s1, s2,
          Readers, Writers, MaxReplacements      \* LayoutLock

MCLaunchers == {l1, l2, l3}
MCSeatOf == [p \in MCLaunchers |-> IF p = l1 THEN s1 ELSE s2]

VARIABLES part, entry, layoutFd, layoutPc, replacements, undermined

layoutVars == <<entry, layoutFd, layoutPc, replacements, undermined>>

LL == INSTANCE LayoutLock WITH fd <- layoutFd, pc <- layoutPc

ASSUME MCLocksAssumption == LL!LayoutLockAssumption

MCInit == part \in {"claim", "layout"} /\ Init /\ LL!Init

MCNext ==
  \/ part = "claim" /\ Next /\ UNCHANGED <<part, layoutVars>>
  \/ part = "layout" /\ LL!Next /\ UNCHANGED <<part, vars>>

MCSpec == MCInit /\ [][MCNext]_<<part, vars, layoutVars>>

\* Whoever moves a mailbox is in its layout section alone, although the lock
\* files may be replaced while others wait for them.
WriterAlone == LL!TypeOK /\ LL!Exclusive
=============================================================================
