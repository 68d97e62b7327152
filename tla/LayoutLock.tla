---------------------------- MODULE LayoutLock ----------------------------
(***************************************************************************)
(* The shared or exclusive layout lease of one project's mailbox:          *)
(* _ProjectMailboxLock in bin/_rtlib.py.  Every entrant first takes the    *)
(* writer turnstile (the gate) and then the layout lock; a reader drops    *)
(* the gate once it has the lock, a writer keeps it.  Both are flocks on   *)
(* files of layout-locks/, which somebody may delete by hand: an entrant   *)
(* proves after acquisition that what it locked is still the entry of      *)
(* that name.                                                              *)
(***************************************************************************)
EXTENDS Naturals

CONSTANTS
  Readers,         \* shared entrants: mail tools, watchers
  Writers,         \* exclusive entrants: migration, native acknowledgement
  MaxReplacements  \* bound: times somebody deletes or replaces a lock file

Procs == Readers \cup Writers
Files == {"gate", "lock"}

LayoutLockAssumption ==
  /\ Readers \cap Writers = {}
  /\ MaxReplacements \in Nat

VARIABLES
  entry,           \* entry[f]: the inode the name of f leads to
  fd,              \* fd[p][f]: the inode p has open for f
  pc,              \* pc[p]: how far p has come
  replacements,    \* replacements so far
  undermined       \* history: the lock was replaced under an entrant

vars == <<entry, fd, pc, replacements, undermined>>

States == {"out", "opened", "gated", "locked", "verified", "inside"}
Inodes == 0..MaxReplacements

TypeOK ==
  /\ entry \in [Files -> Inodes]
  /\ fd \in [Procs -> [Files -> Inodes]]
  /\ pc \in [Procs -> States]
  /\ replacements \in Inodes
  /\ undermined \in BOOLEAN

Init ==
  /\ entry = [f \in Files |-> 0]
  /\ fd = [p \in Procs |-> entry]
  /\ pc = [p \in Procs |-> "out"]
  /\ replacements = 0
  /\ undermined = FALSE

To(p, state) == pc' = [pc EXCEPT ![p] = state]

\* The gate is held from its flock on; a reader drops it to go inside.
GateOnlyForTheWait(p) == pc[p] = "gated" /\ p \in Readers          \* mutant
HoldsGate(p) ==
  \/ pc[p] \in {"gated", "locked", "verified"}
  \/ pc[p] = "inside" /\ p \in Writers

HoldsLock(p) == pc[p] \in {"locked", "verified", "inside"}

Conflict(p, q) == p \in Writers \/ q \in Writers

\* _open_layout_lock: both files are opened, created when absent.
Open(p) ==
  /\ pc[p] = "out"
  /\ fd' = [fd EXCEPT ![p] = entry]
  /\ To(p, "opened")
  /\ UNCHANGED <<entry, replacements, undermined>>

\* flock(gate, LOCK_EX)
AcquireGate(p) ==
  /\ pc[p] = "opened"
  /\ \A q \in Procs \ {p} : fd[q]["gate"] = fd[p]["gate"] => ~HoldsGate(q)
  /\ To(p, "gated")
  /\ UNCHANGED <<entry, fd, replacements, undermined>>

\* flock(lock, LOCK_EX) or flock(lock, LOCK_SH)
AcquireLock(p) ==
  /\ pc[p] = "gated"
  /\ \A q \in Procs \ {p} :
       (fd[q]["lock"] = fd[p]["lock"] /\ Conflict(p, q)) => ~HoldsLock(q)
  /\ To(p, "locked")
  /\ UNCHANGED <<entry, fd, replacements, undermined>>

\* The deadline passes while p waits, or is found passed right after.
Timeout(p) ==
  /\ pc[p] \in {"opened", "gated", "locked"}
  /\ To(p, "out")
  /\ UNCHANGED <<entry, fd, replacements, undermined>>

\* _verify_layout_lock_entry on the lock; a mismatch closes everything.
UnverifiedLock(p) ==                                               \* mutant
  /\ pc[p] = "locked"
  /\ To(p, "verified")
  /\ UNCHANGED <<entry, fd, replacements, undermined>>

VerifyLock(p) ==
  /\ pc[p] = "locked"
  /\ To(p, IF fd[p]["lock"] = entry["lock"] THEN "verified" ELSE "out")
  /\ UNCHANGED <<entry, fd, replacements, undermined>>

\* _verify_layout_lock_entry on the gate, the reader's release of the gate,
\* and the mailbox resolution.
VerifyGate(p) ==
  /\ pc[p] = "verified"
  /\ To(p, IF fd[p]["gate"] = entry["gate"] THEN "inside" ELSE "out")
  /\ UNCHANGED <<entry, fd, replacements, undermined>>

\* The mailbox resolver refuses, the section ends, or the process does.
Leave(p) ==
  /\ pc[p] \in {"verified", "inside"}
  /\ To(p, "out")
  /\ UNCHANGED <<entry, fd, replacements, undermined>>

\* Somebody removes or replaces a lock file.
Replace(f) ==
  /\ replacements < MaxReplacements
  /\ replacements' = replacements + 1
  /\ entry' = [entry EXCEPT ![f] = replacements + 1]
  /\ undermined' = (undermined \/ (f = "lock" /\ \E p \in Procs :
                                     pc[p] \in {"verified", "inside"}))
  /\ UNCHANGED <<fd, pc>>

Step(p) ==
  \/ Open(p) \/ AcquireGate(p) \/ AcquireLock(p) \/ Timeout(p)
  \/ VerifyLock(p) \/ VerifyGate(p) \/ Leave(p)

Next == (\E p \in Procs : Step(p)) \/ (\E f \in Files : Replace(f))

Spec == Init /\ [][Next]_vars

\* The sections under the lock are short and end; an entrant polls the lock
\* and verifies it.  Nobody has to come, time out or replace a file.
Fairness ==
  \A p \in Procs :
    /\ WF_vars(Leave(p))
    /\ WF_vars(AcquireLock(p))
    /\ WF_vars(VerifyLock(p) \/ VerifyGate(p))

FairSpec == Spec /\ Fairness

----------------------------------------------------------------------------
(* Properties.                                                             *)

\* A writer is inside alone.  A lock file replaced while entrants wait or
\* acquire changes nothing; only one replaced under a verified holder could.
Exclusive ==
  ~undermined =>
    \A p, q \in Procs :
      (p # q /\ p \in Writers) => ~(pc[p] = "inside" /\ pc[q] = "inside")

\* "An exclusive waiter keeps it while waiting for the resource lock, so later
\* readers cannot repeatedly overtake that writer": it gets the lock or gives
\* up, however many readers keep arriving and whatever lock files are replaced,
\* as long as its own gate is the one that later entrants find.
WriterProceeds ==
  \A w \in Writers :
    pc[w] = "gated" ~> (pc[w] # "gated" \/ fd[w]["gate"] # entry["gate"])
=============================================================================
