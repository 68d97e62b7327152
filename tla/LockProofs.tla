----------------------------- MODULE LockProofs -----------------------------
(* Theorems about ClaimLock, for every set of processes and seats, and      *)
(* about LayoutLock, for every set of readers and writers.                   *)
EXTENDS MCLocks, TLAPS

(***************************************************************************)
(* The invariant behind the lock.  A process in its critical section has   *)
(* the lock file open; before the first retirement every open descriptor   *)
(* is the inode the path still names, so the flock really is one lock;     *)
(* and what was read under it stays true while it is held.                 *)
(***************************************************************************)
OpenWhenNeeded ==
  \A p \in Procs :
    pc[p] \in HoldsLock \cup {"waiting", "leaving"} => fd[p] # 0

OneLockFile ==
  ~retired => \A p \in Procs : fd[p] \in {0, lockFile}

Exclusion ==
  \A p, q \in Procs :
    (/\ p # q /\ fd[p] = fd[q]
     /\ pc[p] \in HoldsLock /\ pc[q] \in HoldsLock)
      => Compatible(p, q)

\* Which states the three kinds of process visit.
Roles ==
  /\ \A b \in Bridges : pc[b] = "driving" => driven[b].seat \in Seats
  /\ \A p \in Launchers : pc[p] \notin {"driving", "removing"}
  /\ \A b \in Bridges : pc[b] \in {"idle", "waiting", "locked", "driving", "dead"}
  /\ \A r \in Reclaimers : pc[r] \in {"idle", "waiting", "locked", "removing", "dead"}

ClaimScanHolds ==
  ~retired =>
    \A p \in Launchers : pc[p] = "scanned" => \A s \in Seats : ~Living(s)

LockInv ==
  /\ TypeOK
  /\ OpenWhenNeeded
  /\ OneLockFile
  /\ Exclusion
  /\ Roles
  /\ ClaimScanHolds
  /\ RetirementScanHolds
  /\ DrivenSeatStable
  /\ OneHolderUntilRetired

LEMMA TypeInit == Init => TypeOK
<1> SUFFICES ASSUME Init PROVE TypeOK
  OBVIOUS
<1>1. NothingDriven \in [seat : Seats \cup {Nobody}, holder : Launchers \cup {Nobody}]
  BY DEF NothingDriven
<1>2. driven \in [Bridges -> [seat : Seats \cup {Nobody},
                             holder : Launchers \cup {Nobody}]]
  BY <1>1 DEF Init
<1>3. pc \in [Procs -> States]
  BY DEF Init, States
<1>4. fd \in [Procs -> 0..MaxInodes]
  BY ClaimLockAssumption DEF Init, ClaimLockAssumption
<1>5. todo \in [Reclaimers -> SUBSET (Seats \cup {"lock", "agents"})]
  BY DEF Init
<1>6. lease \in [Seats -> Launchers \cup {Nobody}]
  BY DEF Init
<1>7. lockFile \in 0..MaxInodes /\ inodes \in 0..MaxInodes
  BY ClaimLockAssumption DEF Init, ClaimLockAssumption
<1>8. retired \in BOOLEAN
  BY DEF Init
<1> QED
  BY <1>2, <1>3, <1>4, <1>5, <1>6, <1>7, <1>8 DEF TypeOK

LEMMA TypeStep == ClaimLockAssumption /\ TypeOK /\ [Next]_vars => TypeOK'
<1> SUFFICES ASSUME ClaimLockAssumption, TypeOK, [Next]_vars PROVE TypeOK'
  OBVIOUS
<1> USE DEF ClaimLockAssumption, Procs, States
<1>1. ASSUME NEW p \in Procs, NEW from, NEW to \in States, OpenLock(p, from, to)
      PROVE  TypeOK'
  BY <1>1 DEF TypeOK, OpenLock
<1>2. ASSUME NEW p \in Procs, NEW from, NEW to \in States, Lock(p, from, to)
      PROVE  TypeOK'
  BY <1>2 DEF TypeOK, Lock
<1>3. ASSUME NEW p \in Launchers, ClaimScan(p) PROVE TypeOK'
  BY <1>3 DEF TypeOK, ClaimScan, Unlock
<1>4. ASSUME NEW p \in Launchers, ClaimPublish(p) PROVE TypeOK'
  BY <1>4 DEF TypeOK, ClaimPublish, Unlock
<1>5. ASSUME NEW p \in Launchers, ReleaseUnlink(p) PROVE TypeOK'
  BY <1>5 DEF TypeOK, ReleaseUnlink, Unlock
<1>6. ASSUME NEW p \in Procs, Die(p) PROVE TypeOK'
  BY <1>6 DEF TypeOK, Die, Unlock
<1>7. ASSUME NEW b \in Bridges, GuardValidate(b) PROVE TypeOK'
  BY <1>7 DEF TypeOK, GuardValidate, Unlock
<1>8. ASSUME NEW b \in Bridges, GuardDone(b) PROVE TypeOK'
  BY <1>8 DEF TypeOK, GuardDone, Unlock, NothingDriven
<1>9. ASSUME NEW r \in Reclaimers, ReclaimScan(r) PROVE TypeOK'
  BY <1>9 DEF TypeOK, ReclaimScan, Unlock
<1>10. ASSUME NEW r \in Reclaimers,
              \/ RemoveLock(r) \/ ListAgents(r) \/ RemoveNoAgents(r)
              \/ RemoveSeat(r)
       PROVE  TypeOK'
  <2>1. CASE RemoveLock(r)
    BY <2>1 DEF TypeOK, RemoveLock
  <2>2. CASE ListAgents(r)
    BY <2>2 DEF TypeOK, ListAgents
  <2>3. CASE RemoveNoAgents(r)
    BY <2>3 DEF TypeOK, RemoveNoAgents
  <2>4. CASE RemoveSeat(r)
    BY <2>4 DEF TypeOK, RemoveSeat
  <2> QED
    BY <1>10, <2>1, <2>2, <2>3, <2>4
<1>11. ASSUME NEW r \in Reclaimers, ReclaimDone(r) PROVE TypeOK'
  BY <1>11 DEF TypeOK, ReclaimDone, Unlock
<1>12. CASE UNCHANGED vars
  BY <1>12 DEF TypeOK, vars
<1> QED
  BY <1>1, <1>2, <1>3, <1>4, <1>5, <1>6, <1>7, <1>8, <1>9, <1>10, <1>11, <1>12
     DEF Next, LauncherStep, BridgeStep, ReclaimStep, ClaimOpen, ClaimLocked,
         ReleaseOpen, ReleaseLocked, GuardOpen, GuardLocked, ReclaimOpen,
         ReclaimLocked

(***************************************************************************)
(* A step that only moves processes between states keeps every living      *)
(* holder dead or alive: nobody revives, and only ClaimPublish makes one.  *)
(***************************************************************************)
LEMMA NoNewHolder ==
  ASSUME ClaimLockAssumption, TypeOK, [Next]_vars,
         ~ \E p \in Launchers : ClaimPublish(p),
         NEW s \in Seats, Living(s)'
  PROVE  Living(s) /\ lease'[s] = lease[s]
<1> USE DEF ClaimLockAssumption, TypeOK, Procs, Living
<1>1. ASSUME lease' = lease, \A p \in Procs : pc[p] = "dead" => pc'[p] = "dead"
      PROVE  Living(s) /\ lease'[s] = lease[s]
  BY <1>1
<1>2. ASSUME NEW p \in Procs, NEW from \in States \ {"dead"}, NEW to,
             OpenLock(p, from, to) \/ Lock(p, from, to)
      PROVE  lease' = lease /\ \A q \in Procs : pc[q] = "dead" => pc'[q] = "dead"
  BY <1>2 DEF OpenLock, Lock
<1>3. ASSUME NEW p \in Procs,
             \/ ClaimScan(p) \/ Die(p) \/ GuardValidate(p) \/ GuardDone(p)
             \/ ReclaimScan(p) \/ RemoveLock(p) \/ ListAgents(p)
             \/ RemoveNoAgents(p) \/ ReclaimDone(p)
      PROVE  lease' = lease /\ \A q \in Procs : pc[q] = "dead" => pc'[q] = "dead"
  BY <1>3 DEF ClaimScan, Die, GuardValidate, GuardDone, ReclaimScan,
     RemoveLock, ListAgents, RemoveNoAgents, ReclaimDone, Unlock
<1>4. ASSUME NEW p \in Launchers, ReleaseUnlink(p)
      PROVE  Living(s) /\ lease'[s] = lease[s]
  BY <1>4 DEF ReleaseUnlink, Unlock
<1>5. ASSUME NEW r \in Reclaimers, RemoveSeat(r)
      PROVE  Living(s) /\ lease'[s] = lease[s]
  BY <1>5 DEF RemoveSeat
<1>6. CASE UNCHANGED vars
  BY <1>6 DEF vars
<1> QED
  BY <1>1, <1>2, <1>3, <1>4, <1>5, <1>6
     DEF Next, LauncherStep, BridgeStep, ReclaimStep, ClaimOpen, ClaimLocked,
         ReleaseOpen, ReleaseLocked, GuardOpen, GuardLocked, ReclaimOpen,
         ReclaimLocked, States

(***************************************************************************)
(* The lock itself.                                                        *)
(***************************************************************************)
LockDiscipline == TypeOK /\ OpenWhenNeeded /\ OneLockFile /\ Exclusion

\* Steps inside a critical section: p keeps the lock it has.
Keeps(p) ==
  /\ fd' = fd
  /\ pc[p] \in HoldsLock
  /\ \E to \in HoldsLock : pc' = [pc EXCEPT ![p] = to]
  /\ UNCHANGED <<lockFile, retired>>

\* Steps that end a critical section, or a process.
Drops(p) ==
  /\ \E to \in {"idle", "holding", "dead"} : Unlock(p, to)
  /\ UNCHANGED <<lockFile, retired>>

LEMMA DisciplineStep ==
  ClaimLockAssumption /\ LockDiscipline /\ [Next]_vars => LockDiscipline'
<1> SUFFICES ASSUME ClaimLockAssumption, LockDiscipline, [Next]_vars
             PROVE  LockDiscipline'
  OBVIOUS
<1>0. TypeOK'
  BY TypeStep DEF LockDiscipline
<1> DEFINE Goal == OpenWhenNeeded' /\ OneLockFile' /\ Exclusion'
<1> USE DEF LockDiscipline, OpenWhenNeeded, OneLockFile, Exclusion, HoldsLock
<1>1. ASSUME NEW p \in Procs, NEW from, NEW to \in {"waiting", "leaving"},
             OpenLock(p, from, to)
      PROVE  Goal
  <2>1. /\ fd' = [fd EXCEPT ![p] = lockFile']
        /\ pc' = [pc EXCEPT ![p] = to]
        /\ lockFile' # 0
        /\ lockFile # 0 => lockFile' = lockFile
        /\ retired' = retired
    BY <1>1 DEF OpenLock, TypeOK, ClaimLockAssumption
  <2>2. OpenWhenNeeded'
    BY <2>1 DEF TypeOK
  <2>3. OneLockFile'
    BY <2>1 DEF TypeOK
  <2>4. Exclusion'
    BY <2>1 DEF TypeOK, Compatible, Shared
  <2> QED
    BY <2>2, <2>3, <2>4
<1>2. ASSUME NEW p \in Procs, NEW from \in {"waiting", "leaving"},
             NEW to \in HoldsLock, Lock(p, from, to)
      PROVE  Goal
  <2>1. OpenWhenNeeded' /\ OneLockFile'
    BY <1>2 DEF Lock, TypeOK
  <2>2. Exclusion'
    BY <1>2 DEF Lock, Grants, TypeOK, Compatible, Shared
  <2> QED
    BY <2>1, <2>2
<1>3. ASSUME NEW p \in Procs, Keeps(p) PROVE Goal
  BY <1>3 DEF Keeps, TypeOK, Compatible, Shared
<1>4. ASSUME NEW p \in Procs, Drops(p) PROVE Goal
  BY <1>4 DEF Drops, Unlock, TypeOK, Compatible, Shared
<1>5. ASSUME NEW r \in Reclaimers,
             \/ RemoveLock(r) \/ ListAgents(r) \/ RemoveNoAgents(r)
             \/ RemoveSeat(r)
      PROVE  Goal
  BY <1>5 DEF RemoveLock, ListAgents, RemoveNoAgents, RemoveSeat, Compatible,
              Shared
<1>6. ASSUME NEW p \in Launchers,
             ClaimScan(p) \/ ClaimPublish(p) \/ ReleaseUnlink(p)
      PROVE  Keeps(p) \/ Drops(p)
  BY <1>6 DEF ClaimScan, ClaimPublish, ReleaseUnlink, Keeps, Drops, Unlock
<1>7. ASSUME NEW b \in Bridges, GuardValidate(b) \/ GuardDone(b)
      PROVE  Keeps(b) \/ Drops(b)
  BY <1>7 DEF GuardValidate, GuardDone, Keeps, Drops, Unlock
<1>8. ASSUME NEW r \in Reclaimers, ReclaimScan(r) \/ ReclaimDone(r)
      PROVE  Keeps(r) \/ Drops(r)
  BY <1>8 DEF ReclaimScan, ReclaimDone, Keeps, Drops, Unlock
<1>9. ASSUME NEW p \in Procs, Die(p) PROVE Drops(p)
  BY <1>9 DEF Die, Drops, Unlock
<1>10. ASSUME UNCHANGED vars PROVE Goal
  BY <1>10 DEF vars, Compatible, Shared
<1> HIDE DEF Goal, LockDiscipline, OpenWhenNeeded, OneLockFile, Exclusion
<1>11. ASSUME NEW p \in Launchers, LauncherStep(p) PROVE Goal
  BY <1>1, <1>2, <1>3, <1>4, <1>6, <1>11 DEF LauncherStep, ClaimOpen,
     ClaimLocked, ReleaseOpen, ReleaseLocked, Procs
<1>12. ASSUME NEW b \in Bridges, BridgeStep(b) PROVE Goal
  BY <1>1, <1>2, <1>3, <1>4, <1>7, <1>12
     DEF BridgeStep, GuardOpen, GuardLocked, Procs
<1>13. ASSUME NEW r \in Reclaimers, ReclaimStep(r) PROVE Goal
  BY <1>1, <1>2, <1>3, <1>4, <1>5, <1>8, <1>13
     DEF ReclaimStep, ReclaimOpen, ReclaimLocked, Procs
<1>14. Goal
  BY <1>4, <1>9, <1>10, <1>11, <1>12, <1>13 DEF Next
<1> QED
  BY <1>0, <1>14 DEF Goal, LockDiscipline

(***************************************************************************)
(* What is read under the lock stays true under the lock.                  *)
(***************************************************************************)

\* Before the first retirement, two processes in critical sections are two
\* bridges.
LEMMA LockedOut ==
  ASSUME ClaimLockAssumption, LockDiscipline, ~ retired,
         NEW p \in Procs, NEW q \in Procs, p # q,
         pc[p] \in HoldsLock, pc[q] \in HoldsLock
  PROVE  p \in Bridges /\ q \in Bridges
BY DEF LockDiscipline, OpenWhenNeeded, OneLockFile, Exclusion, Compatible,
   Shared

LEMMA RolesStep ==
  ClaimLockAssumption /\ TypeOK /\ Roles /\ [Next]_vars => Roles'
<1> SUFFICES ASSUME ClaimLockAssumption, TypeOK, Roles, [Next]_vars
             PROVE  Roles'
  OBVIOUS
<1> USE DEF ClaimLockAssumption, TypeOK, Roles, Procs
<1>1. ASSUME NEW p \in Launchers, LauncherStep(p) PROVE Roles'
  <2>1. /\ driven' = driven
        /\ \E to \in States \ {"driving", "removing"} :
             pc' = [pc EXCEPT ![p] = to]
    BY <1>1 DEF LauncherStep, ClaimOpen, ClaimLocked, ClaimScan, ClaimPublish,
       ReleaseOpen, ReleaseLocked, ReleaseUnlink, OpenLock, Lock, Unlock,
       States
  <2> QED
    BY <2>1
<1>2. ASSUME NEW b \in Bridges, GuardOpen(b) \/ GuardLocked(b) PROVE Roles'
  BY <1>2 DEF GuardOpen, GuardLocked, OpenLock, Lock
<1>3. ASSUME NEW b \in Bridges, GuardValidate(b) \/ GuardDone(b) PROVE Roles'
  BY <1>3 DEF GuardValidate, GuardDone, Unlock
<1>4. ASSUME NEW r \in Reclaimers, ReclaimStep(r) PROVE Roles'
  <2>1. /\ driven' = driven
        /\ \E to \in {"idle", "waiting", "locked", "removing", "dead"} :
             pc' = [pc EXCEPT ![r] = to]
    BY <1>4 DEF ReclaimStep, ReclaimOpen, ReclaimLocked, ReclaimScan,
       RemoveLock, ListAgents, RemoveNoAgents, RemoveSeat, ReclaimDone,
       OpenLock, Lock, Unlock
  <2> QED
    BY <2>1
<1>5. ASSUME NEW p \in Procs, Die(p) PROVE Roles'
  BY <1>5 DEF Die, Unlock
<1>6. CASE UNCHANGED vars
  BY <1>6 DEF vars
<1> QED
  BY <1>1, <1>2, <1>3, <1>4, <1>5, <1>6 DEF Next, BridgeStep

\* Whoever reaches a state a step leads to was there, or took that step.
LEMMA ScanStep ==
  ASSUME ClaimLockAssumption, TypeOK, Roles, [Next]_vars
  PROVE  /\ retired => retired'
         /\ \A p \in Launchers :
              pc'[p] = "scanned" => pc[p] = "scanned" \/ ClaimScan(p)
         /\ \A r \in Reclaimers :
              pc'[r] = "removing" => pc[r] = "removing" \/ ReclaimScan(r)
         /\ \A b \in Bridges :
              pc'[b] = "driving" =>
                \/ pc[b] = "driving" /\ driven'[b] = driven[b]
                \/ GuardValidate(b)
<1> USE DEF ClaimLockAssumption, TypeOK, Roles, Procs
<1>1. ASSUME NEW p \in Launchers, LauncherStep(p)
      PROVE  /\ retired' = retired /\ driven' = driven
             /\ \A q \in Procs \ {p} : pc'[q] = pc[q]
             /\ pc'[p] # "driving" /\ pc'[p] # "removing"
             /\ pc'[p] = "scanned" => pc[p] = "scanned" \/ ClaimScan(p)
  BY <1>1 DEF LauncherStep, ClaimOpen, ClaimLocked, ClaimPublish, ClaimScan,
     ReleaseOpen, ReleaseLocked, ReleaseUnlink, OpenLock, Lock, Unlock
<1>2. ASSUME NEW b \in Bridges, BridgeStep(b)
      PROVE  /\ retired' = retired
             /\ \A q \in Procs \ {b} : pc'[q] = pc[q]
             /\ \A c \in Bridges \ {b} : driven'[c] = driven[c]
             /\ pc'[b] = "driving" => GuardValidate(b)
  BY <1>2 DEF BridgeStep, GuardOpen, GuardLocked, GuardValidate, GuardDone,
     OpenLock, Lock, Unlock
<1>3. ASSUME NEW r \in Reclaimers, ReclaimStep(r)
      PROVE  /\ retired => retired'
             /\ driven' = driven
             /\ \A q \in Procs \ {r} : pc'[q] = pc[q]
             /\ (pc'[r] = "removing" => pc[r] = "removing" \/ ReclaimScan(r))
  BY <1>3 DEF ReclaimStep, ReclaimOpen, ReclaimLocked, ReclaimScan,
     RemoveLock, ListAgents, RemoveNoAgents, RemoveSeat, ReclaimDone,
     OpenLock, Lock, Unlock
<1>4. ASSUME NEW p \in Procs, Die(p)
      PROVE  /\ retired' = retired /\ driven' = driven
             /\ \A q \in Procs : pc'[q] \in {pc[q], "dead"}
  BY <1>4 DEF Die, Unlock
<1>5. CASE UNCHANGED vars
  BY <1>5 DEF vars
<1> HIDE DEF TypeOK, Roles, ClaimLockAssumption
<1>6. CASE \E p \in Launchers : LauncherStep(p)
  BY <1>1, <1>6 DEF ClaimLockAssumption
<1>7. CASE \E b \in Bridges : BridgeStep(b)
  BY <1>2, <1>7 DEF ClaimLockAssumption
<1>8. CASE \E r \in Reclaimers : ReclaimStep(r)
  BY <1>3, <1>8 DEF ClaimLockAssumption
<1>9. CASE \E p \in Procs : Die(p)
  BY <1>4, <1>9
<1> QED
  BY <1>5, <1>6, <1>7, <1>8, <1>9 DEF Next

LEMMA InvStep == ClaimLockAssumption /\ LockInv /\ [Next]_vars => LockInv'
<1> SUFFICES ASSUME ClaimLockAssumption, LockInv, [Next]_vars PROVE LockInv'
  OBVIOUS
<1>1. LockDiscipline /\ Roles /\ TypeOK
  BY DEF LockInv, LockDiscipline
<1>2. LockDiscipline' /\ Roles'
  BY <1>1, DisciplineStep, RolesStep
<1>3. /\ Launchers \subseteq Procs /\ Bridges \subseteq Procs
      /\ Reclaimers \subseteq Procs
  BY DEF Procs
\* A publication happens under the lock, alone.
<1>4. ASSUME NEW p \in Launchers, ClaimPublish(p), ~ retired, NEW q \in Procs,
             p # q
      PROVE  pc[q] \notin HoldsLock
  BY <1>1, <1>3, <1>4, LockedOut
     DEF ClaimPublish, HoldsLock, ClaimLockAssumption
<1>5. ClaimScanHolds'
  <2> SUFFICES ASSUME ~ retired', NEW p \in Launchers, pc'[p] = "scanned",
                      NEW s \in Seats, Living(s)'
               PROVE  FALSE
    BY DEF ClaimScanHolds
  <2>1. pc[p] = "scanned" \/ ClaimScan(p)
    BY <1>1, ScanStep
  <2>2. ~ retired
    BY <1>1, ScanStep
  <2>3. CASE \E q \in Launchers : ClaimPublish(q)
    <3>1. PICK q \in Launchers : ClaimPublish(q)
      BY <2>3
    <3>2. pc'[q] # "scanned"
      BY <1>1, <3>1 DEF ClaimPublish, Unlock, TypeOK, Procs
    <3>3. pc[p] \in HoldsLock
      BY <2>1 DEF ClaimScan, HoldsLock
    <3> QED
      BY <1>3, <1>4, <2>2, <3>1, <3>2, <3>3
  <2>4. CASE ~ \E q \in Launchers : ClaimPublish(q)
    <3>1. Living(s)
      BY <1>1, <2>4, NoNewHolder
    <3>2. ~ ClaimScan(p)
      BY <1>1, <3>1 DEF ClaimScan, Unlock, TypeOK, Procs
    <3> QED
      BY <2>1, <2>2, <3>1, <3>2 DEF LockInv, ClaimScanHolds
  <2> QED
    BY <2>3, <2>4
<1>6. RetirementScanHolds'
  <2> SUFFICES ASSUME ~ retired', NEW r \in Reclaimers, pc'[r] = "removing",
                      NEW s \in Seats, Living(s)'
               PROVE  FALSE
    BY DEF RetirementScanHolds
  <2>1. pc[r] = "removing" \/ ReclaimScan(r)
    BY <1>1, ScanStep
  <2>2. ~ retired
    BY <1>1, ScanStep
  <2>3. ~ \E q \in Launchers : ClaimPublish(q)
    <3> SUFFICES ASSUME NEW q \in Launchers, ClaimPublish(q) PROVE FALSE
      OBVIOUS
    <3>1. pc[r] \in HoldsLock
      BY <2>1 DEF ReclaimScan, HoldsLock
    <3> QED
      BY <1>3, <1>4, <2>2, <3>1 DEF ClaimLockAssumption
  <2>4. Living(s)
    BY <1>1, <2>3, NoNewHolder
  <2>5. ~ ReclaimScan(r)
    BY <1>1, <2>4 DEF ReclaimScan, Unlock, TypeOK, Procs
  <2> QED
    BY <2>1, <2>2, <2>4, <2>5 DEF LockInv, RetirementScanHolds
<1>7. DrivenSeatStable'
  <2> SUFFICES ASSUME ~ retired', NEW b \in Bridges, pc'[b] = "driving"
               PROVE  lease'[driven'[b].seat] = driven'[b].holder
    BY DEF DrivenSeatStable
  <2>1. CASE GuardValidate(b)
    BY <1>1, <2>1 DEF GuardValidate, Unlock, TypeOK, Procs
  <2>2. CASE pc[b] = "driving" /\ driven'[b] = driven[b]
    <3>1. ~ retired
      BY <1>1, ScanStep
    <3>2. ASSUME NEW q \in Launchers \cup Reclaimers PROVE pc[q] \notin HoldsLock
      BY <1>1, <1>3, <2>2, <3>1, <3>2, LockedOut
         DEF HoldsLock, ClaimLockAssumption
    <3>3. lease' = lease
      BY <3>2 DEF Next, vars, LauncherStep, BridgeStep, ReclaimStep,
         ClaimOpen, ClaimLocked, ClaimScan, ClaimPublish, ReleaseOpen,
         ReleaseLocked, ReleaseUnlink, GuardOpen, GuardLocked, GuardValidate,
         GuardDone, ReclaimOpen, ReclaimLocked, ReclaimScan, RemoveLock,
         ListAgents, RemoveNoAgents, RemoveSeat, ReclaimDone, Die, OpenLock,
         Lock, HoldsLock
    <3> QED
      BY <2>2, <3>1, <3>3 DEF LockInv, DrivenSeatStable
  <2> QED
    BY <1>1, <2>1, <2>2, ScanStep
<1>8. OneHolderUntilRetired'
  <2> SUFFICES ASSUME ~ retired', NEW s \in Seats, NEW t \in Seats,
                      Living(s)', Living(t)'
               PROVE  s = t
    BY DEF OneHolderUntilRetired
  <2>1. ~ retired
    BY <1>1, ScanStep
  <2>2. CASE \E p \in Launchers : ClaimPublish(p)
    <3>1. PICK p \in Launchers : ClaimPublish(p)
      BY <2>2
    <3>2. ASSUME NEW u \in Seats PROVE ~ Living(u)
      BY <2>1, <3>1 DEF LockInv, ClaimScanHolds, ClaimPublish
    <3>3. ASSUME NEW u \in Seats, Living(u)' PROVE u = SeatOf[p]
      BY <1>1, <1>3, <3>1, <3>2, <3>3
         DEF ClaimPublish, Unlock, Living, TypeOK, ClaimLockAssumption
    <3> QED
      BY <3>3
  <2>3. CASE ~ \E p \in Launchers : ClaimPublish(p)
    <3>1. Living(s) /\ Living(t)
      BY <1>1, <2>3, NoNewHolder
    <3> QED
      BY <2>1, <3>1 DEF LockInv, OneHolderUntilRetired
  <2> QED
    BY <2>2, <2>3
<1> QED
  BY <1>2, <1>5, <1>6, <1>7, <1>8 DEF LockInv, LockDiscipline

\* LockInv is inductive, whatever the processes, seats and number of lock
\* files.
THEOREM LockInvariant == Spec => []LockInv
<1>1. Init => LockInv
  <2> SUFFICES ASSUME Init PROVE LockInv
    OBVIOUS
  <2>1. \A p \in Procs : fd[p] = 0 /\ pc[p] = "idle"
    BY DEF Init
  <2>2. \A s \in Seats : ~ Living(s)
    BY DEF Init, Living
  <2>3. Roles
    BY <2>1 DEF Roles, Procs
  <2> QED
    BY <2>1, <2>2, <2>3, TypeInit
       DEF LockInv, OpenWhenNeeded, OneLockFile, Exclusion, HoldsLock,
           ClaimScanHolds, RetirementScanHolds, DrivenSeatStable,
           OneHolderUntilRetired, Procs
<1> QED
  BY <1>1, InvStep, ClaimLockAssumption, PTL DEF Spec

\* Until a claim.lock is unlinked, claim, release, seat_shared_guard and
\* reclaim_project_runtime keep at most one living holder in a family.
THEOREM OneHolder == Spec => []OneHolderUntilRetired
BY LockInvariant, PTL DEF LockInv

\* A seat validated under the shared guard keeps its lease to the end of the
\* guarded side effect.
THEOREM DrivenStable == Spec => []DrivenSeatStable
BY LockInvariant, PTL DEF LockInv

\* The stale-lease scan of the first retirement stays true while it removes.
THEOREM RetirementScan == Spec => []RetirementScanHolds
BY LockInvariant, PTL DEF LockInv

\* Types of the processes, their lock files, the leases and the bridges' targets, for
\* every value of the constants.
THEOREM TypeCorrect == Spec => []TypeOK
BY LockInvariant, PTL DEF LockInv

-----------------------------------------------------------------------------
(* LayoutLock. *)

\* flock: per inode, holders that conflict do not hold it together.
PerInode ==
  \A p, q \in LL!Procs :
    (p # q /\ LL!Conflict(p, q) /\ layoutFd[p]["lock"] = layoutFd[q]["lock"])
      => ~(LL!HoldsLock(p) /\ LL!HoldsLock(q))

\* Verification: whoever is past it has the inode the name leads to, unless
\* the file was replaced under it.
Verified ==
  ~undermined =>
    \A p \in LL!Procs :
      layoutPc[p] \in {"verified", "inside"} => layoutFd[p]["lock"] = entry["lock"]

LayoutInv == LL!TypeOK /\ PerInode /\ Verified

LEMMA LayoutTypeInit ==
  LL!LayoutLockAssumption /\ LL!Init => LL!TypeOK
<1> SUFFICES ASSUME LL!LayoutLockAssumption, LL!Init PROVE LL!TypeOK
  OBVIOUS
<1>1. entry \in [LL!Files -> LL!Inodes] /\ replacements \in LL!Inodes
  BY DEF LL!Init, LL!Inodes, LL!LayoutLockAssumption
<1>2. layoutFd \in [LL!Procs -> [LL!Files -> LL!Inodes]] /\ layoutPc \in [LL!Procs -> LL!States]
  BY <1>1 DEF LL!Init, LL!States
<1> QED
  BY <1>1, <1>2 DEF LL!Init, LL!TypeOK

LEMMA LayoutTypeStep ==
  ASSUME LL!LayoutLockAssumption, LL!TypeOK,
         [LL!Next]_(LL!vars)
  PROVE  LL!TypeOK'
<1>1. ASSUME NEW p \in LL!Procs, LL!Step(p) PROVE LL!TypeOK'
  BY <1>1 DEF LL!Step, LL!Open, LL!AcquireGate, LL!AcquireLock, LL!Timeout,
     LL!VerifyLock, LL!VerifyGate, LL!Leave, LL!To, LL!TypeOK, LL!States
<1>2. ASSUME NEW f \in LL!Files, LL!Replace(f) PROVE LL!TypeOK'
  <2>1. replacements + 1 \in LL!Inodes
    BY <1>2 DEF LL!Replace, LL!TypeOK, LL!Inodes, LL!LayoutLockAssumption
  <2> QED
    BY <1>2, <2>1 DEF LL!Replace, LL!TypeOK
<1>3. CASE UNCHANGED LL!vars
  BY <1>3 DEF LL!vars, LL!TypeOK
<1> QED
  BY <1>1, <1>2, <1>3 DEF LL!Next

LEMMA LayoutInvStep ==
  ASSUME LL!LayoutLockAssumption, LayoutInv, [LL!Next]_(LL!vars)
  PROVE  LayoutInv'
<1>1. LL!TypeOK /\ LL!TypeOK'
  BY LayoutTypeStep DEF LayoutInv
<1> USE DEF LayoutInv, LL!Conflict, LL!HoldsLock
<1>2. PerInode'
  <2>1. ASSUME NEW p \in LL!Procs, LL!AcquireLock(p) PROVE PerInode'
    BY <1>1, <2>1 DEF LL!AcquireLock, LL!To, PerInode, LL!TypeOK
  <2>2. ASSUME NEW p \in LL!Procs, LL!Open(p) \/ LL!AcquireGate(p) \/ LL!Timeout(p)
        PROVE  PerInode'
    BY <1>1, <2>2 DEF LL!Open, LL!AcquireGate, LL!Timeout, LL!To, PerInode,
       LL!TypeOK
  <2>3. ASSUME NEW p \in LL!Procs, LL!VerifyLock(p) \/ LL!VerifyGate(p) \/ LL!Leave(p)
        PROVE  PerInode'
    BY <1>1, <2>3 DEF LL!VerifyLock, LL!VerifyGate, LL!Leave, LL!To, PerInode,
       LL!TypeOK
  <2>4. ASSUME NEW f \in LL!Files, LL!Replace(f) PROVE PerInode'
    BY <2>4 DEF LL!Replace, PerInode
  <2>5. CASE UNCHANGED LL!vars
    BY <2>5 DEF LL!vars, PerInode
  <2> QED
    BY <2>1, <2>2, <2>3, <2>4, <2>5 DEF LL!Next, LL!Step
<1>3. Verified'
  <2>1. ASSUME NEW p \in LL!Procs, LL!VerifyLock(p) PROVE Verified'
    BY <1>1, <2>1 DEF LL!VerifyLock, LL!To, Verified, LL!TypeOK
  <2>2. ASSUME NEW p \in LL!Procs,
               \/ LL!Open(p) \/ LL!AcquireGate(p) \/ LL!AcquireLock(p) \/ LL!Timeout(p)
        PROVE  Verified'
    BY <1>1, <2>2 DEF LL!Open, LL!AcquireGate, LL!AcquireLock, LL!Timeout,
       LL!To, Verified, LL!TypeOK
  <2>3. ASSUME NEW p \in LL!Procs, LL!VerifyGate(p) \/ LL!Leave(p) PROVE Verified'
    BY <1>1, <2>3 DEF LL!VerifyGate, LL!Leave, LL!To, Verified, LL!TypeOK
  <2>4. ASSUME NEW f \in LL!Files, LL!Replace(f) PROVE Verified'
    <3> SUFFICES ASSUME ~ undermined', NEW p \in LL!Procs,
                        layoutPc'[p] \in {"verified", "inside"}
                 PROVE  layoutFd'[p]["lock"] = entry'["lock"]
      BY DEF Verified
    <3>1. ~ undermined /\ f # "lock"
      BY <2>4 DEF LL!Replace
    <3> QED
      BY <1>1, <2>4, <3>1 DEF LL!Replace, Verified, LL!TypeOK, LL!Files
  <2>5. CASE UNCHANGED LL!vars
    BY <2>5 DEF LL!vars, Verified
  <2> QED
    BY <2>1, <2>2, <2>3, <2>4, <2>5 DEF LL!Next, LL!Step
<1> QED
  BY <1>1, <1>2, <1>3

LEMMA LayoutInvariant == LL!Spec => []LayoutInv
<1>1. LL!Init => LayoutInv
  BY MCLocksAssumption, LayoutTypeInit
     DEF LL!Init, LayoutInv, PerInode, Verified, LL!HoldsLock
<1> QED
  BY <1>1, LayoutInvStep, MCLocksAssumption, PTL DEF LL!Spec

\* The sum of the two locks runs LayoutLock or leaves it alone.
LEMMA LayoutPart == MCSpec => LL!Spec
<1>1. MCInit => LL!Init
  BY DEF MCInit
<1>2. [MCNext]_<<part, vars, layoutVars>> => [LL!Next]_(LL!vars)
  BY DEF MCNext, layoutVars, LL!vars
<1> QED
  BY <1>1, <1>2, PTL DEF MCSpec, LL!Spec

\* However many readers and writers, and however often the files are replaced
\* while entrants wait: a writer of _ProjectMailboxLock is inside alone.
THEOREM MutualExclusion == MCSpec => []WriterAlone
<1>1. LayoutInv => WriterAlone
  BY DEF LayoutInv, PerInode, Verified, WriterAlone, LL!Exclusive,
     LL!Conflict, LL!HoldsLock
<1> QED
  BY <1>1, LayoutInvariant, LayoutPart, PTL

\* Types of the entrants of _ProjectMailboxLock and the lock files they hold,
\* for every value of the constants.
THEOREM LayoutTypeCorrect == LL!Spec => []LL!TypeOK
BY LayoutInvariant, PTL DEF LayoutInv
=============================================================================
