----------------------------- MODULE ClaimLock -----------------------------
(***************************************************************************)
(* The project claim lock as a FILE: bin/_rtruntime.py opens               *)
(* <project_dir>/claim.lock, creating it when absent, and then flocks the  *)
(* inode it opened (_locked).  Launchers claim and release under the       *)
(* exclusive lock, a bridge drives a seat under the shared one             *)
(* (seat_shared_guard), and reclaim_project_runtime removes the directory  *)
(* that holds the file while it owns the lock.                             *)
(*                                                                         *)
(* SeatLease takes each of these operations as one step; here the steps    *)
(* between open, flock, the scan of the leases and the write interleave.   *)
(* All the seats belong to one harness family.                             *)
(***************************************************************************)
EXTENDS Naturals

CONSTANTS
  Seats,       \* agents/<seat>/ of the one family
  Launchers,   \* processes that claim a seat and then own it
  SeatOf,      \* the seat each launcher claims
  Bridges,     \* processes that drive a seat they do not own
  Reclaimers,  \* rt-worktree remove processes
  Nobody,      \* no lease record
  MaxInodes    \* bound: lock files created

Procs == Launchers \cup Bridges \cup Reclaimers

ASSUME ClaimLockAssumption ==
  /\ SeatOf \in [Launchers -> Seats]
  /\ Nobody \notin Launchers
  /\ Launchers \cap Bridges = {}
  /\ Launchers \cap Reclaimers = {}
  /\ Bridges \cap Reclaimers = {}
  /\ {"lock", "agents"} \cap Seats = {}
  /\ MaxInodes \in Nat

VARIABLES
  lockFile,    \* the inode claim.lock names now, 0 when there is none
  inodes,      \* lock files created so far
  fd,          \* fd[p]: the inode p has open as its claim lock, 0 for none
  pc,          \* pc[p]: where p is in its operation
  lease,       \* lease[s]: the launcher agents/<s>/lease.json names
  driven,      \* driven[b]: the seat and holder bridge b validated
  todo,        \* todo[r]: what the removal of the directory has left
  retired      \* history: a claim.lock has been removed

vars == <<lockFile, inodes, fd, pc, lease, driven, todo, retired>>

\* Where a process holds the flock of the inode it has open.
DroppedBeforeRemoval == {"locked", "scanned", "unlinking", "driving"}  \* mutant
HoldsLock == {"locked", "scanned", "unlinking", "driving", "removing"}

States == {"idle", "waiting", "locked", "scanned", "holding", "leaving",
           "unlinking", "driving", "removing", "dead"}

NothingDriven == [seat |-> Nobody, holder |-> Nobody]

TypeOK ==
  /\ lockFile \in 0..MaxInodes
  /\ inodes \in 0..MaxInodes
  /\ fd \in [Procs -> 0..MaxInodes]
  /\ pc \in [Procs -> States]
  /\ lease \in [Seats -> Launchers \cup {Nobody}]
  /\ driven \in [Bridges -> [seat : Seats \cup {Nobody},
                             holder : Launchers \cup {Nobody}]]
  /\ todo \in [Reclaimers -> SUBSET (Seats \cup {"lock", "agents"})]
  /\ retired \in BOOLEAN

Init ==
  /\ lockFile = 0
  /\ inodes = 0
  /\ fd = [p \in Procs |-> 0]
  /\ pc = [p \in Procs |-> "idle"]
  /\ lease = [s \in Seats |-> Nobody]
  /\ driven = [b \in Bridges |-> NothingDriven]
  /\ todo = [r \in Reclaimers |-> {}]
  /\ retired = FALSE

Living(s) == lease[s] # Nobody /\ pc[lease[s]] # "dead"

----------------------------------------------------------------------------
(* The lock file (_locked).                                                *)

\* os.open(path, O_RDWR | O_CREAT); the claim lock is taken again to release.
OpenLock(p, from, to) ==
  /\ pc[p] = from
  /\ IF lockFile # 0
     THEN /\ fd' = [fd EXCEPT ![p] = lockFile]
          /\ UNCHANGED <<lockFile, inodes>>
     ELSE /\ inodes < MaxInodes
          /\ inodes' = inodes + 1
          /\ lockFile' = inodes + 1
          /\ fd' = [fd EXCEPT ![p] = inodes + 1]
  /\ pc' = [pc EXCEPT ![p] = to]
  /\ UNCHANGED <<lease, driven, todo, retired>>

Shared(p) == p \in Bridges

EitherShared(p, q) == Shared(p) \/ Shared(q)                       \* mutant
Compatible(p, q) == Shared(p) /\ Shared(q)

\* flock(LOCK_EX) or flock(LOCK_SH) on the open inode.
GrantsToAnyone(p) == TRUE                                          \* mutant
Grants(p) ==
  \A q \in Procs \ {p} :
    (fd[q] = fd[p] /\ pc[q] \in HoldsLock) => Compatible(p, q)

Lock(p, from, to) ==
  /\ pc[p] = from
  /\ Grants(p)
  /\ pc' = [pc EXCEPT ![p] = to]
  /\ UNCHANGED <<lockFile, inodes, fd, lease, driven, todo, retired>>

\* The end of the with block: unlock and close.
Unlock(p, to) ==
  /\ fd' = [fd EXCEPT ![p] = 0]
  /\ pc' = [pc EXCEPT ![p] = to]

----------------------------------------------------------------------------
(* claim                                                                   *)

ClaimOpen(p) == OpenLock(p, "idle", "waiting")

ClaimLocked(p) == Lock(p, "waiting", "locked")

\* _read_agent_records: a living holder anywhere in the family refuses.
ClaimScan(p) ==
  /\ pc[p] = "locked"
  /\ IF \E s \in Seats : Living(s)
     THEN Unlock(p, "idle")
     ELSE pc' = [pc EXCEPT ![p] = "scanned"] /\ UNCHANGED fd
  /\ UNCHANGED <<lockFile, inodes, lease, driven, todo, retired>>

\* Under the seat's state lock: re-read this seat, then write the lease.
ClaimPublish(p) ==
  /\ pc[p] = "scanned"
  /\ IF Living(SeatOf[p])
     THEN Unlock(p, "idle") /\ UNCHANGED lease
     ELSE /\ lease' = [lease EXCEPT ![SeatOf[p]] = p]
          /\ Unlock(p, "holding")
  /\ UNCHANGED <<lockFile, inodes, driven, todo, retired>>

----------------------------------------------------------------------------
(* release                                                                 *)

ReleaseOpen(p) == OpenLock(p, "holding", "leaving")

ReleaseLocked(p) == Lock(p, "leaving", "unlinking")

\* _load_fenced_record; a lease that is no longer p's is left alone.
ReleaseUnlink(p) ==
  /\ pc[p] = "unlinking"
  /\ lease' = [lease EXCEPT ![SeatOf[p]] = IF @ = p THEN Nobody ELSE @]
  /\ Unlock(p, "idle")
  /\ UNCHANGED <<lockFile, inodes, driven, todo, retired>>

\* A process, and the session a launcher became, ends anywhere; the kernel
\* closes its descriptors.
Die(p) ==
  /\ pc[p] # "dead"
  /\ Unlock(p, "dead")
  /\ UNCHANGED <<lockFile, inodes, lease, driven, todo, retired>>

----------------------------------------------------------------------------
(* seat_shared_guard                                                       *)

GuardOpen(b) == OpenLock(b, "idle", "waiting")

GuardLocked(b) == Lock(b, "waiting", "locked")

\* load_validated_lease, then the routing side effect under the guard.
GuardValidate(b) ==
  /\ pc[b] = "locked"
  /\ \E s \in Seats :
       IF Living(s)
       THEN /\ driven' = [driven EXCEPT ![b] = [seat |-> s, holder |-> lease[s]]]
            /\ pc' = [pc EXCEPT ![b] = "driving"]
            /\ UNCHANGED fd
       ELSE Unlock(b, "idle") /\ UNCHANGED driven
  /\ UNCHANGED <<lockFile, inodes, lease, todo, retired>>

GuardDone(b) ==
  /\ pc[b] = "driving"
  /\ driven' = [driven EXCEPT ![b] = NothingDriven]
  /\ Unlock(b, "idle")
  /\ UNCHANGED <<lockFile, inodes, lease, todo, retired>>

----------------------------------------------------------------------------
(* reclaim_project_runtime                                                 *)

\* Only an existing runtime directory is reclaimed.
ReclaimOpen(r) == lockFile # 0 /\ OpenLock(r, "idle", "waiting")

ReclaimLocked(r) == Lock(r, "waiting", "locked")

\* Every lease must be stale before shutil.rmtree begins.
ReclaimScan(r) ==
  /\ pc[r] = "locked"
  /\ IF \E s \in Seats : Living(s)
     THEN Unlock(r, "idle") /\ UNCHANGED todo
     ELSE /\ pc' = [pc EXCEPT ![r] = "removing"]
          /\ todo' = [todo EXCEPT ![r] = {"lock", "agents"}]
          /\ UNCHANGED fd
  /\ UNCHANGED <<lockFile, inodes, lease, driven, retired>>

RemoveLock(r) ==
  /\ pc[r] = "removing"
  /\ "lock" \in todo[r]
  /\ todo[r] \cap Seats = {}
  /\ lockFile' = 0
  /\ retired' = TRUE
  /\ todo' = [todo EXCEPT ![r] = @ \ {"lock"}]
  /\ UNCHANGED <<inodes, fd, pc, lease, driven>>

\* The seats found when the removal lists agents/.
ListAgents(r) ==
  /\ pc[r] = "removing"
  /\ "agents" \in todo[r]
  /\ todo[r] \cap Seats = {}
  /\ \E s \in Seats : lease[s] # Nobody
  /\ todo' = [todo EXCEPT ![r] = (@ \ {"agents"})
                                   \cup {s \in Seats : lease[s] # Nobody}]
  /\ UNCHANGED <<lockFile, inodes, fd, pc, lease, driven, retired>>

RemoveNoAgents(r) ==
  /\ pc[r] = "removing"
  /\ "agents" \in todo[r]
  /\ \A s \in Seats : lease[s] = Nobody
  /\ todo' = [todo EXCEPT ![r] = @ \ {"agents"}]
  /\ UNCHANGED <<lockFile, inodes, fd, pc, lease, driven, retired>>

\* Whatever lease is under that name by now goes.
RemoveSeat(r) ==
  /\ pc[r] = "removing"
  /\ \E s \in todo[r] \cap Seats :
       /\ lease' = [lease EXCEPT ![s] = Nobody]
       /\ todo' = [todo EXCEPT ![r] = @ \ {s}]
  /\ UNCHANGED <<lockFile, inodes, fd, pc, driven, retired>>

\* The removal is complete, or rmdir finds what was created meanwhile and
\* raises; either way the lock is dropped.
ReclaimDone(r) ==
  /\ pc[r] = "removing"
  /\ \/ todo[r] = {}
     \/ todo[r] \cap (Seats \cup {"agents"}) = {} /\ \E s \in Seats : lease[s] # Nobody
  /\ todo' = [todo EXCEPT ![r] = {}]
  /\ Unlock(r, "idle")
  /\ UNCHANGED <<lockFile, inodes, lease, driven, retired>>

----------------------------------------------------------------------------

LauncherStep(p) ==
  \/ ClaimOpen(p) \/ ClaimLocked(p) \/ ClaimScan(p) \/ ClaimPublish(p)
  \/ ReleaseOpen(p) \/ ReleaseLocked(p) \/ ReleaseUnlink(p)

BridgeStep(b) ==
  GuardOpen(b) \/ GuardLocked(b) \/ GuardValidate(b) \/ GuardDone(b)

ReclaimStep(r) ==
  \/ ReclaimOpen(r) \/ ReclaimLocked(r) \/ ReclaimScan(r)
  \/ RemoveLock(r) \/ ListAgents(r) \/ RemoveNoAgents(r) \/ RemoveSeat(r)
  \/ ReclaimDone(r)

Next ==
  \/ \E p \in Procs : Die(p)
  \/ \E p \in Launchers : LauncherStep(p)
  \/ \E b \in Bridges : BridgeStep(b)
  \/ \E r \in Reclaimers : ReclaimStep(r)

Spec == Init /\ [][Next]_vars

----------------------------------------------------------------------------
(* Properties.                                                             *)

\* Until a claim.lock is removed, the family has at most one living holder,
\* with every step of claim, release and the guards interleaved.
OneHolderUntilRetired ==
  ~retired =>
    \A s, t \in Seats : (Living(s) /\ Living(t)) => s = t

\* "A replacement lease can linearize only before or after that operation":
\* the seat a bridge validated keeps its lease while the bridge drives it.
DrivenSeatStable ==
  ~retired =>
    \A b \in Bridges : pc[b] = "driving" => lease[driven[b].seat] = driven[b].holder

\* The scan of the first removal stays true until it takes claim.lock away:
\* no seat of the directory being removed gets a living holder.
RetirementScanHolds ==
  ~retired =>
    \A r \in Reclaimers : pc[r] = "removing" => \A s \in Seats : ~Living(s)

=============================================================================
