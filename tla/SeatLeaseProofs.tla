-------------------------- MODULE SeatLeaseProofs --------------------------
(* Theorems about SeatLease, for every set of seats, families and pids.    *)
EXTENDS SeatLease, TLAPS

(***************************************************************************)
(* Every variable keeps its type.                                          *)
(***************************************************************************)
LEMMA FencedType ==
  ASSUME TypeOK, NEW a \in Agents, NEW r, Fenced(a, r)
  PROVE  lease[a] \in Lease /\ lease[a].rev = r
BY DEF TypeOK, Fenced, FenceMatches, NoLease

LEMMA PublishType ==
  ASSUME SeatAssumption, TypeOK, NEW p \in Pids, NEW a \in Agents,
         CanOwn(p), Publish(p, a)
  PROVE  lease' \in [Agents -> Lease \cup {NoLease}] /\ revs' \in 0..MaxRevs
<1>1. proc[p].start \in 1..MaxStarts
  BY DEF CanOwn, PidState, Running, TypeOK, SeatAssumption
<1>2. revs + 1 \in 1..MaxRevs
  BY DEF Publish, TypeOK, SeatAssumption
<1>3. NoWake \in Wake
  BY DEF NoWake, Wake
<1>4. FreshLease(p, a) \in Lease
  BY <1>1, <1>2, <1>3 DEF FreshLease, Lease, SeatAssumption
<1> QED
  BY <1>2, <1>4 DEF Publish, TypeOK

LEMMA WakeUpdateType ==
  ASSUME NEW l \in Lease, NEW w \in Wake
  PROVE  [l EXCEPT !.wake = w] \in Lease
BY DEF Lease

\* What a started write stores, and that it changes nothing before.
LEMMA StartType ==
  ASSUME TypeOK, NEW a \in Agents, NEW r, NEW q \in Pids \cup {None},
         NEW w \in Wake, StartWrite(q, a, r, w)
  PROVE  /\ lease[a] \in Lease
         /\ writing'[a].record = [lease[a] EXCEPT !.wake = w]
         /\ writing' \in [Agents -> Write \cup {NoWrite}]
         /\ \A b \in Agents \ {a} : writing'[b] = writing[b]
         /\ UNCHANGED <<proc, starts, lease, revs, capability, observed>>
<1>1. lease[a] \in Lease
  BY FencedType DEF StartWrite
<1>2. [by |-> q, record |-> [lease[a] EXCEPT !.wake = w]] \in Write
  BY <1>1, WakeUpdateType DEF Write
<1> QED
  BY <1>1, <1>2 DEF StartWrite, TypeOK

LEMMA BeatUpdateType ==
  ASSUME NEW l \in Lease, NEW b \in {"none", "fresh", "old"}
  PROVE  [l EXCEPT !.wake.beat = b] \in Lease
<1>1. [l.wake EXCEPT !.beat = b] \in Wake
  BY DEF Lease, Wake
<1> QED
  BY <1>1 DEF Lease

\* A write of the wake record of seat a begins.
Starts(a, r) ==
  \/ BridgeHeartbeat(a, r)
  \/ \E q \in Pids : \/ ArmWatcher(q, a, r)
                     \/ RenewWatcher(q, a, r)
                     \/ ClearWake(q, a, r)

\* The record to be written differs from the one on disk in its wake only.
LEMMA StartsType ==
  ASSUME TypeOK, NEW a \in Agents, NEW r, Starts(a, r)
  PROVE  /\ lease[a] \in Lease
         /\ \E w \in Wake : writing'[a].record = [lease[a] EXCEPT !.wake = w]
         /\ writing' \in [Agents -> Write \cup {NoWrite}]
         /\ \A b \in Agents \ {a} : writing'[b] = writing[b]
         /\ UNCHANGED <<proc, starts, lease, revs, capability, observed>>
         /\ writing[a] = NoWrite
         /\ Fenced(a, r)
<1>1. PICK q \in Pids \cup {None}, w \in Wake : StartWrite(q, a, r, w)
  <2>1. CASE BridgeHeartbeat(a, r)
    <3>1. lease[a] \in Lease
      BY <2>1, FencedType DEF BridgeHeartbeat, StartWrite
    <3>2. [watcher |-> lease[a].wake.watcher, beat |-> "fresh"] \in Wake
      BY <3>1 DEF Lease, Wake
    <3> QED
      BY <2>1, <3>2 DEF BridgeHeartbeat
  <2>2. ASSUME NEW p \in Pids,
               ArmWatcher(p, a, r) \/ RenewWatcher(p, a, r) \/ ClearWake(p, a, r)
        PROVE  \E q \in Pids \cup {None}, w \in Wake : StartWrite(q, a, r, w)
    <3>1. [watcher |-> p, beat |-> "fresh"] \in Wake /\ NoWake \in Wake
      BY DEF Wake, NoWake
    <3> QED
      BY <2>2, <3>1 DEF ArmWatcher, RenewWatcher, ClearWake
  <2> QED
    BY <2>1, <2>2 DEF Starts
<1>2. writing[a] = NoWrite /\ Fenced(a, r)
  BY <1>1 DEF StartWrite, Unlocked
<1>3. /\ lease[a] \in Lease
      /\ writing'[a].record = [lease[a] EXCEPT !.wake = w]
      /\ writing' \in [Agents -> Write \cup {NoWrite}]
      /\ \A b \in Agents \ {a} : writing'[b] = writing[b]
      /\ UNCHANGED <<proc, starts, lease, revs, capability, observed>>
  <2>1. TypeOK /\ q \in Pids \cup {None} /\ w \in Wake /\ StartWrite(q, a, r, w)
    BY <1>1
  <2> QED
    BY <2>1, StartType
<1> QED
  BY <1>2, <1>3

LEMMA TypeStep == SeatAssumption /\ TypeOK /\ [Next]_vars => TypeOK'
<1> SUFFICES ASSUME SeatAssumption, TypeOK, [Next]_vars PROVE TypeOK'
  OBVIOUS
<1> USE DEF NoProc
<1>1. ASSUME NEW p \in Pids, Spawn(p) PROVE TypeOK'
  BY <1>1 DEF Spawn, Running, TypeOK, SeatAssumption, NothingObserved
<1>2. ASSUME NEW p \in Pids, Exit(p) PROVE TypeOK'
  <2>1. writing' \in [Agents -> Write \cup {NoWrite}]
    BY <1>2 DEF Exit, TypeOK
  <2> QED
    BY <1>2, <2>1 DEF Exit, TypeOK, SeatAssumption, NothingObserved
<1>3. ASSUME NEW p \in Pids, ChangeVisibility(p) PROVE TypeOK'
  BY <1>3 DEF ChangeVisibility, TypeOK
<1>4. ASSUME NEW p \in Pids, NEW a \in Agents, Claim(p, a) PROVE TypeOK'
  BY <1>4, PublishType DEF Claim, TypeOK
<1>5. ASSUME NEW p \in Pids, NEW a \in Agents, Observe(p, a) PROVE TypeOK'
  BY <1>5 DEF Observe, TypeOK, Lease, NoLease, SeatAssumption
<1>6. ASSUME NEW p \in Pids, NEW a \in Agents, TakeOver(p, a) PROVE TypeOK'
  BY <1>6, PublishType DEF TakeOver, TypeOK, NothingObserved, SeatAssumption
<1>7. ASSUME NEW a \in Agents, NEW r \in 1..revs,
             Release(a, r) \/ ReleaseCrash(a, r)
      PROVE  TypeOK'
  <2>1. lease' \in [Agents -> Lease \cup {NoLease}]
    BY <1>7 DEF Release, ReleaseCrash, TypeOK
  <2>2. capability' \in [Agents -> [rev : 0..MaxRevs, thread : 0..MaxRevs]]
    BY <1>7 DEF Release, ReleaseCrash, TypeOK, NoCapability, NoThread,
                SeatAssumption
  <2> QED
    BY <1>7, <2>1, <2>2 DEF Release, ReleaseCrash, TypeOK
<1>8. ASSUME NEW a \in Agents, NEW r \in 1..revs,
             RecordThread(a, r) \/ RecordSurface(a, r)
      PROVE  TypeOK'
  <2>1. r \in 0..MaxRevs
    BY DEF TypeOK, SeatAssumption
  <2>2. Inherited(a) \in 0..MaxRevs
    BY DEF Inherited, TypeOK, NoThread, SeatAssumption
  <2>3. /\ [rev |-> r, thread |-> r] \in [rev : 0..MaxRevs, thread : 0..MaxRevs]
        /\ [rev |-> r, thread |-> Inherited(a)]
             \in [rev : 0..MaxRevs, thread : 0..MaxRevs]
    BY <2>1, <2>2
  <2> QED
    <3>1. capability' \in [Agents -> [rev : 0..MaxRevs, thread : 0..MaxRevs]]
      <4>1. CASE RecordThread(a, r)
        BY <2>3, <4>1 DEF RecordThread, TypeOK
      <4>2. CASE RecordSurface(a, r)
        BY <2>3, <4>2 DEF RecordSurface, TypeOK
      <4> QED BY <1>8, <4>1, <4>2
    <3> QED
      BY <1>8, <3>1 DEF RecordThread, RecordSurface, TypeOK
<1>9. ASSUME NEW a \in Agents, NEW r, Starts(a, r) PROVE TypeOK'
  BY <1>9, StartsType DEF TypeOK
<1>10. ASSUME NEW a \in Agents, StoreWake(a) \/ WriteFails(a) PROVE TypeOK'
  <2>1. writing[a] # NoWrite => writing[a].record \in Lease
    BY DEF TypeOK, Write
  <2>2. CASE StoreWake(a)
    BY <2>1, <2>2 DEF StoreWake, Unlocked, TypeOK
  <2>3. CASE WriteFails(a)
    BY <2>3 DEF WriteFails, TypeOK
  <2> QED
    BY <1>10, <2>2, <2>3
<1>11. ASSUME NEW a \in Agents, HeartbeatAges(a) PROVE TypeOK'
  <2>1. lease[a] \in Lease
    BY <1>11 DEF HeartbeatAges, TypeOK
  <2> QED
    BY <1>11, <2>1, BeatUpdateType DEF HeartbeatAges, TypeOK
<1>12. ASSUME NEW a \in Agents, ClearCapability(a) PROVE TypeOK'
  BY <1>12 DEF ClearCapability, TypeOK, NoCapability, NoThread, SeatAssumption
<1>13. ASSUME Reclaim PROVE TypeOK'
  BY <1>13 DEF Reclaim, TypeOK, NoCapability, NoThread, SeatAssumption
<1>14. CASE UNCHANGED vars
  BY <1>14 DEF vars, TypeOK
<1> QED
  BY <1>1, <1>2, <1>3, <1>4, <1>5, <1>6, <1>7, <1>8, <1>9, <1>10, <1>11,
     <1>12, <1>13, <1>14 DEF Next, Starts

LEMMA TypeInit == Init => TypeOK
BY SeatAssumption DEF Init, TypeOK, NoProc, NoCapability, NoThread,
   NothingObserved, SeatAssumption

\* Spec keeps every variable in its type, whatever the seats, families, pids
\* and bounds: the lease operations of bin/_rtruntime.py never publish a
\* half-formed record.
THEOREM TypeCorrect == Spec => []TypeOK
BY TypeInit, TypeStep, SeatAssumption, PTL DEF Spec

(***************************************************************************)
(* What a step does to one lease, and to the processes behind it.          *)
(***************************************************************************)

\* The identity of a lease: its owner, family and generation.
SameHolder(l, m) ==
  /\ m \in Lease
  /\ l.pid = m.pid
  /\ l.start = m.start
  /\ l.harness = m.harness
  /\ l.rev = m.rev

Published(p, a) == Claim(p, a) \/ TakeOver(p, a)

\* Births are numbered in order, so no lease names a process yet to be born.
LeasedBirths ==
  \A a \in Agents : lease[a] \in Lease => lease[a].start <= starts

ProcessBirths == \A p \in Pids : proc[p].start <= starts

\* Revisions are numbered in order, so a published fence is a new one.
LeasedRevisions == \A a \in Agents : lease[a].rev <= revs

\* What is about to be written is the lease that is there, but for its wake:
\* nothing else replaces a lease whose state lock is held.
Rewrites ==
  \A a \in Agents : writing[a] # NoWrite =>
    lease[a] \in Lease /\ SameHolder(writing[a].record, lease[a])

LeaseInv ==
  /\ TypeOK
  /\ Rewrites
  /\ LeasedBirths
  /\ ProcessBirths
  /\ LeasedRevisions
  /\ OneActivePerHarness

LEMMA LeaseOrNone ==
  ASSUME TypeOK, NEW a \in Agents
  PROVE  lease[a] # NoLease <=> lease[a] \in Lease
<1>1. NoLease \notin Lease
  BY DEF NoLease, Lease
<1> QED
  BY <1>1 DEF TypeOK

LEMMA StaleIsDead ==
  ASSUME SeatAssumption, TypeOK, NEW l \in Lease, OwnerLiveness(l) = "stale"
  PROVE  proc[l.pid].start # l.start
BY DEF OwnerLiveness, PidState, Running, TypeOK, Lease, SeatAssumption

LEMMA LeaseFate ==
  ASSUME SeatAssumption, TypeOK, Rewrites, [Next]_vars, NEW a \in Agents
  PROVE  \/ lease'[a] = NoLease
         \/ lease[a] \in Lease /\ SameHolder(lease'[a], lease[a])
         \/ \E p \in Pids : Published(p, a)
<1>1. ASSUME NEW b \in Agents, NEW r \in 1..revs,
             Release(b, r) \/ ReleaseCrash(b, r)
      PROVE  lease'[a] \in {lease[a], NoLease}
  BY <1>1 DEF Release, ReleaseCrash, TypeOK
<1>2. ASSUME NEW b \in Agents, NEW r, Starts(b, r) PROVE lease' = lease
  BY <1>2, StartsType
<1>3. ASSUME NEW b \in Agents, StoreWake(b)
      PROVE  \/ lease'[a] = lease[a]
             \/ lease[a] \in Lease /\ SameHolder(lease'[a], lease[a])
  BY <1>3 DEF StoreWake, Unlocked, Rewrites, TypeOK
<1>4. ASSUME NEW b \in Agents, WriteFails(b) PROVE lease' = lease
  BY <1>4 DEF WriteFails
<1>5. ASSUME NEW b \in Agents, HeartbeatAges(b)
      PROVE  \/ lease'[a] = lease[a]
             \/ lease[a] \in Lease /\ SameHolder(lease'[a], lease[a])
  <2>1. lease[b] \in Lease
    BY <1>5 DEF HeartbeatAges, TypeOK
  <2> QED
    BY <1>5, <2>1 DEF HeartbeatAges, TypeOK, Lease, SameHolder
<1>6. ASSUME NEW p \in Pids, NEW b \in Agents, Published(p, b)
      PROVE  a # b => lease'[a] = lease[a]
  BY <1>6 DEF Published, Claim, TakeOver, Publish, TypeOK
<1>7. ASSUME lease' = lease
      PROVE  \/ lease'[a] = NoLease
             \/ lease[a] \in Lease /\ SameHolder(lease'[a], lease[a])
  BY <1>7, LeaseOrNone DEF SameHolder
<1>8. ASSUME Reclaim PROVE lease'[a] = NoLease
  BY <1>8 DEF Reclaim
<1> QED
  BY <1>1, <1>2, <1>3, <1>4, <1>5, <1>6, <1>7, <1>8, LeaseOrNone
     DEF Next, vars, Spawn, Exit, ChangeVisibility, Observe, RecordThread,
         RecordSurface, ClearCapability, Published, Starts, SameHolder

\* A process that has ended never comes back, though its pid may.
LEMMA NoRevival ==
  ASSUME SeatAssumption, TypeOK, ProcessBirths, [Next]_vars,
         NEW l \in Lease, l.start <= starts, proc'[l.pid].start = l.start
  PROVE  proc[l.pid].start = l.start
<1>1. ASSUME NEW p \in Pids, Spawn(p)
      PROVE  proc[l.pid].start = l.start
  BY <1>1 DEF Spawn, TypeOK, Lease, SeatAssumption
<1>2. ASSUME NEW p \in Pids, Exit(p) \/ ChangeVisibility(p)
      PROVE  proc[l.pid].start = l.start
  BY <1>2 DEF Exit, ChangeVisibility, NoProc, TypeOK, Lease, SeatAssumption
<1> QED
  BY <1>1, <1>2 DEF Next, vars, Claim, Observe, TakeOver, Release,
     ReleaseCrash, ArmWatcher, RenewWatcher, BridgeHeartbeat, ClearWake,
     StartWrite, StoreWake, WriteFails, HeartbeatAges, RecordThread,
     RecordSurface, ClearCapability, Reclaim

\* What claim and a guarded takeover publish, and what they leave alone: the
\* siblings of the family have no living owner.
LEMMA PublishedLease ==
  ASSUME SeatAssumption, TypeOK, NEW p \in Pids, NEW a \in Agents,
         Published(p, a)
  PROVE  /\ lease'[a] \in Lease
         /\ lease'[a].harness = HarnessOf[a]
         /\ lease'[a].start = proc[p].start
         /\ lease'[a].rev = revs + 1 /\ revs' = revs + 1
         /\ \A b \in Agents \ {a} :
              /\ lease'[b] = lease[b]
              /\ (lease[b] \in Lease /\ lease[b].harness = HarnessOf[a])
                   => OwnerLiveness(lease[b]) = "stale"
         /\ proc' = proc /\ starts' = starts
<1>1. CanOwn(p) /\ Publish(p, a)
  BY DEF Published, Claim, TakeOver
<1>2. lease' \in [Agents -> Lease \cup {NoLease}]
  BY <1>1, PublishType
<1>3. lease'[a] = FreshLease(p, a)
  BY <1>1 DEF Publish, TypeOK
<1>4. FreshLease(p, a) # NoLease
  BY DEF FreshLease, NoLease
<1>5. ASSUME NEW b \in Agents \ {a}
      PROVE  /\ lease'[b] = lease[b]
             /\ (lease[b] \in Lease /\ lease[b].harness = HarnessOf[a])
                  => OwnerLiveness(lease[b]) = "stale"
  BY <1>1, LeaseOrNone DEF Published, Claim, TakeOver, Publish, Rivals, TypeOK
<1>6. lease'[a] \in Lease
  BY <1>2, <1>3, <1>4
<1>7. /\ lease'[a].harness = HarnessOf[a]
      /\ lease'[a].start = proc[p].start
      /\ lease'[a].rev = revs + 1 /\ revs' = revs + 1
  BY <1>1, <1>3 DEF FreshLease, Publish
<1> QED
  BY <1>5, <1>6, <1>7 DEF Published, Claim, TakeOver

LEMMA BirthStep ==
  SeatAssumption /\ LeaseInv /\ [Next]_vars => LeasedBirths' /\ ProcessBirths'
<1> SUFFICES ASSUME SeatAssumption, LeaseInv, [Next]_vars
             PROVE  LeasedBirths' /\ ProcessBirths'
  OBVIOUS
<1> USE DEF LeaseInv
<1>1. starts <= starts' /\ starts' \in Nat /\ ProcessBirths'
  <2>1. ASSUME NEW p \in Pids, Spawn(p)
        PROVE  starts <= starts' /\ starts' \in Nat /\ ProcessBirths'
    BY <2>1 DEF Spawn, TypeOK, ProcessBirths, SeatAssumption
  <2>2. ASSUME NEW p \in Pids, Exit(p) \/ ChangeVisibility(p)
        PROVE  starts <= starts' /\ starts' \in Nat /\ ProcessBirths'
    <3>1. /\ starts' = starts /\ starts \in Nat
          /\ \A q \in Pids : proc'[q].start \in {0, proc[q].start}
      BY <2>2 DEF Exit, ChangeVisibility, NoProc, TypeOK, SeatAssumption
    <3> QED
      BY <3>1 DEF ProcessBirths
  <2>3. ASSUME proc' = proc, starts' = starts
        PROVE  starts <= starts' /\ starts' \in Nat /\ ProcessBirths'
    BY <2>3 DEF TypeOK, ProcessBirths
  <2> QED
    BY <2>1, <2>2, <2>3 DEF Next, vars, Claim, Observe, TakeOver, Release,
       ReleaseCrash, ArmWatcher, RenewWatcher, BridgeHeartbeat, ClearWake,
       StartWrite, StoreWake, WriteFails, HeartbeatAges, RecordThread,
       RecordSurface, ClearCapability, Reclaim
<1>2. ASSUME NEW a \in Agents, lease'[a] \in Lease
      PROVE  lease'[a].start <= starts'
  <2>1. CASE lease[a] \in Lease /\ SameHolder(lease'[a], lease[a])
    BY <1>1, <2>1 DEF SameHolder, LeasedBirths, Lease, TypeOK, SeatAssumption
  <2>2. ASSUME NEW p \in Pids, Published(p, a)
        PROVE  lease'[a].start <= starts'
    BY <2>2, PublishedLease DEF ProcessBirths
  <2>3. NoLease \notin Lease
    BY DEF NoLease, Lease
  <2>4. \/ lease[a] \in Lease /\ SameHolder(lease'[a], lease[a])
        \/ \E p \in Pids : Published(p, a)
    BY <1>2, <2>3, LeaseFate
  <2> QED
    BY <2>1, <2>2, <2>4
<1> QED
  BY <1>1, <1>2 DEF LeasedBirths

LEMMA RevisionStep ==
  SeatAssumption /\ LeaseInv /\ [Next]_vars => LeasedRevisions'
<1> SUFFICES ASSUME SeatAssumption, LeaseInv, [Next]_vars, NEW a \in Agents
             PROVE  lease'[a].rev <= revs'
  BY DEF LeasedRevisions
<1> USE DEF LeaseInv
<1>1. CASE \E p \in Pids, b \in Agents : Published(p, b)
  <2>1. PICK p \in Pids, b \in Agents : Published(p, b)
    BY <1>1
  <2>2. CASE a = b
    BY <2>1, <2>2, PublishedLease DEF TypeOK
  <2>3. CASE a # b
    <3>1. lease'[a] = lease[a] /\ revs' = revs + 1
      BY <2>1, <2>3, PublishedLease
    <3>2. lease[a].rev \in Nat
      BY DEF TypeOK, Lease, NoLease
    <3> QED
      BY <3>1, <3>2 DEF LeasedRevisions, TypeOK
  <2> QED
    BY <2>2, <2>3
<1>2. CASE ~ \E p \in Pids, b \in Agents : Published(p, b)
  <2>1. revs' = revs
    BY <1>2 DEF Next, vars, Spawn, Exit, ChangeVisibility, Observe, Published,
       Release, ReleaseCrash, ArmWatcher, RenewWatcher, BridgeHeartbeat,
       ClearWake, StartWrite, StoreWake, WriteFails, HeartbeatAges, RecordThread, RecordSurface, ClearCapability,
       Reclaim
  <2>2. lease'[a] = NoLease \/ lease'[a].rev = lease[a].rev
    BY <1>2, LeaseFate DEF SameHolder
  <2> QED
    BY <2>1, <2>2 DEF LeasedRevisions, NoLease, TypeOK
<1> QED
  BY <1>1, <1>2

LEMMA RewritesStep ==
  SeatAssumption /\ LeaseInv /\ [Next]_vars => Rewrites'
<1> SUFFICES ASSUME SeatAssumption, LeaseInv, [Next]_vars, NEW a \in Agents,
                    writing'[a] # NoWrite
             PROVE  lease'[a] \in Lease /\ SameHolder(writing'[a].record, lease'[a])
  BY DEF Rewrites
<1> USE DEF LeaseInv
<1>1. CASE \E r : Starts(a, r)
  <2>1. PICK r : Starts(a, r)
    BY <1>1
  <2>2. PICK w \in Wake : writing'[a].record = [lease[a] EXCEPT !.wake = w]
    BY <2>1, StartsType
  <2> QED
    BY <2>1, <2>2, StartsType DEF SameHolder, Lease
\* Nobody else begins a write here, so this one was there; then the lease is.
<1>2. CASE writing'[a] = writing[a] /\ lease'[a] = lease[a]
  BY <1>2 DEF Rewrites
<1>3. ASSUME NEW b \in Agents, HeartbeatAges(b)
      PROVE  lease'[a] \in Lease /\ SameHolder(writing'[a].record, lease'[a])
  <2>1. writing' = writing /\ lease[a] \in Lease
        /\ SameHolder(writing[a].record, lease[a])
    BY <1>3 DEF HeartbeatAges, Rewrites
  <2>2. lease'[a] = lease[a] \/ lease'[a] = [lease[a] EXCEPT !.wake.beat = "old"]
    BY <1>3 DEF HeartbeatAges, TypeOK
  <2>3. [lease[a] EXCEPT !.wake.beat = "old"] \in Lease
    BY <2>1, BeatUpdateType
  <2> QED
    BY <2>1, <2>2, <2>3 DEF SameHolder, Lease
<1>4. ASSUME NEW b \in Agents, NEW r, Starts(b, r), b # a
      PROVE  writing'[a] = writing[a] /\ lease'[a] = lease[a]
  BY <1>4, StartsType
<1>5. ASSUME NEW b \in Agents, StoreWake(b) \/ WriteFails(b)
      PROVE  writing'[a] = writing[a] /\ lease'[a] = lease[a]
  BY <1>5 DEF StoreWake, WriteFails, TypeOK
<1>6. ASSUME NEW p \in Pids, Exit(p)
      PROVE  writing'[a] = writing[a] /\ lease'[a] = lease[a]
  BY <1>6 DEF Exit
<1>7. ASSUME NEW p \in Pids, NEW b \in Agents, Published(p, b)
      PROVE  writing'[a] = writing[a] /\ lease'[a] = lease[a]
  BY <1>7 DEF Published, Claim, TakeOver, Publish, Unlocked, TypeOK
<1>8. ASSUME NEW b \in Agents, NEW r, Release(b, r) \/ ReleaseCrash(b, r)
      PROVE  writing'[a] = writing[a] /\ lease'[a] = lease[a]
  BY <1>8 DEF Release, ReleaseCrash, Unlocked, TypeOK
<1>9. ~Reclaim
  BY DEF Reclaim, Unlocked
<1>10. CASE UNCHANGED <<lease, writing>>
  BY <1>2, <1>10
<1> QED
  BY <1>1, <1>2, <1>3, <1>4, <1>5, <1>6, <1>7, <1>8, <1>9, <1>10
     DEF Next, vars, Spawn, ChangeVisibility, Observe, RecordThread,
         RecordSurface, ClearCapability, Published, Starts

LEMMA OneActiveStep ==
  SeatAssumption /\ LeaseInv /\ [Next]_vars => OneActivePerHarness'
<1> SUFFICES ASSUME SeatAssumption, LeaseInv, [Next]_vars,
                    NEW a \in Agents, NEW b \in Agents, a # b,
                    OwnerAlive(lease[a])', OwnerAlive(lease[b])',
                    lease'[a].harness = lease'[b].harness
             PROVE  FALSE
  BY DEF OneActivePerHarness
<1> USE DEF LeaseInv
\* A lease that kept its holder has had a living holder all along.
<1>1. ASSUME NEW c \in Agents, lease[c] \in Lease,
             SameHolder(lease'[c], lease[c]), OwnerAlive(lease[c])'
      PROVE  OwnerAlive(lease[c])
  <2>1. proc'[lease[c].pid].start = lease[c].start
    BY <1>1 DEF OwnerAlive, SameHolder
  <2>2. proc[lease[c].pid].start = lease[c].start
    BY <1>1, <2>1, NoRevival DEF LeasedBirths
  <2> QED
    BY <1>1, <2>2, LeaseOrNone DEF OwnerAlive
\* A publication leaves no living rival.
<1>2. ASSUME NEW c \in Agents, NEW d \in Agents, c # d,
             NEW p \in Pids, Published(p, c), OwnerAlive(lease[d])',
             lease'[c].harness = lease'[d].harness
      PROVE  FALSE
  <2>1. /\ lease'[d] = lease[d]
        /\ proc' = proc
        /\ lease'[c].harness = HarnessOf[c]
    BY <1>2, PublishedLease
  <2>2. lease[d] \in Lease
    <3>1. lease[d] # NoLease
      BY <1>2, <2>1 DEF OwnerAlive
    <3> QED
      BY <3>1, LeaseOrNone
  <2>3. OwnerLiveness(lease[d]) = "stale"
    BY <1>2, <2>1, <2>2, PublishedLease
  <2> QED
    BY <1>2, <2>1, <2>2, <2>3, StaleIsDead DEF OwnerAlive
<1>3. CASE \E p \in Pids : Published(p, a) \/ Published(p, b)
  BY <1>2, <1>3
<1>4. CASE ~ \E p \in Pids : Published(p, a) \/ Published(p, b)
  <2>1. /\ lease[a] \in Lease /\ SameHolder(lease'[a], lease[a])
        /\ lease[b] \in Lease /\ SameHolder(lease'[b], lease[b])
    BY <1>4, LeaseFate DEF OwnerAlive
  <2>2. OwnerAlive(lease[a]) /\ OwnerAlive(lease[b])
    BY <1>1, <2>1
  <2> QED
    BY <2>1, <2>2 DEF SameHolder, OneActivePerHarness
<1> QED
  BY <1>3, <1>4

\* LeaseInv is inductive: births are numbered in order, hence a dead owner
\* stays dead, hence a claim that saw only stale rivals is alone.
THEOREM LeaseInvariant == Spec => []LeaseInv
<1>1. Init => LeaseInv
  <2>1. Init => /\ Rewrites
                /\ LeasedBirths
                /\ ProcessBirths
                /\ LeasedRevisions
                /\ OneActivePerHarness
    BY DEF Init, Rewrites, LeasedBirths, ProcessBirths, LeasedRevisions,
       OneActivePerHarness, OwnerAlive, NoLease, Lease, NoProc
  <2> QED
    BY TypeInit, <2>1 DEF LeaseInv
<1>2. LeaseInv /\ [Next]_vars => LeaseInv'
  BY SeatAssumption, TypeStep, RewritesStep, BirthStep, RevisionStep,
     OneActiveStep
     DEF LeaseInv
<1> QED
  BY <1>1, <1>2, PTL DEF Spec

\* No two leases of one family are held by running owners: the "zero or one
\* top-level seat" rule of claim and take_over_seat.
THEOREM OneActive == Spec => []OneActivePerHarness
BY LeaseInvariant, PTL DEF LeaseInv

----------------------------------------------------------------------------
\* A capability never carries a thread of another lease generation:
\* record_seat_capability inherits only from its own generation.
THEOREM CapabilityFresh == Spec => []CapabilityOfItsGeneration
<1>1. Init => CapabilityOfItsGeneration
  BY DEF Init, CapabilityOfItsGeneration, NoCapability, NoThread
<1>2. TypeOK /\ CapabilityOfItsGeneration /\ [Next]_vars
        => CapabilityOfItsGeneration'
  <2> SUFFICES ASSUME TypeOK, CapabilityOfItsGeneration, [Next]_vars
               PROVE  CapabilityOfItsGeneration'
    OBVIOUS
  <2> USE DEF CapabilityOfItsGeneration, NoCapability, NoThread
  <2>1. ASSUME NEW a \in Agents, NEW r \in 1..revs, RecordSurface(a, r)
        PROVE  CapabilityOfItsGeneration'
    <3>1. Inherited(a) \in {NoThread, r}
      BY <2>1 DEF RecordSurface, Fenced, FenceMatches, Inherited
    <3> QED
      BY <2>1, <3>1 DEF RecordSurface, TypeOK
  <2>2. ASSUME NEW a \in Agents, NEW r \in 1..revs, RecordThread(a, r)
        PROVE  CapabilityOfItsGeneration'
    BY <2>2 DEF RecordThread, TypeOK
  <2>3. ASSUME NEW a \in Agents, NEW r \in 1..revs, Release(a, r)
        PROVE  CapabilityOfItsGeneration'
    BY <2>3 DEF Release, TypeOK
  <2>4. ASSUME NEW a \in Agents, ClearCapability(a)
        PROVE  CapabilityOfItsGeneration'
    BY <2>4 DEF ClearCapability, TypeOK
  <2>5. CASE Reclaim
    BY <2>5 DEF Reclaim
  <2>6. CASE capability' = capability
    BY <2>6
  <2> QED
    BY <2>1, <2>2, <2>3, <2>4, <2>5, <2>6 DEF Next, vars, Spawn, Exit,
       ChangeVisibility, Claim, Observe, TakeOver, ReleaseCrash, ArmWatcher,
       RenewWatcher, BridgeHeartbeat, ClearWake, StartWrite, StoreWake,
       WriteFails, HeartbeatAges
<1> QED
  BY <1>1, <1>2, TypeCorrect, PTL DEF Spec

\* A running owner is displaced only by a process that its own card had shown
\* that very generation: a plain claim displaces nobody, and a takeover
\* presents what its process observed.
THEOREM DisplacedIfObserved == Spec => DisplacedOnlyIfObserved
<1>1. ASSUME LeaseInv, [Next]_vars, NEW a \in Agents, OwnerAlive(lease[a]),
             lease'[a] # NoLease, lease'[a].rev # lease[a].rev
      PROVE  observed[lease'[a].pid] = lease[a].rev
  <2> USE SeatAssumption DEF LeaseInv
  <2>1. lease[a] \in Lease
    BY <1>1, LeaseOrNone DEF OwnerAlive
  <2>2. PICK p \in Pids : Published(p, a)
    BY <1>1, LeaseFate DEF SameHolder
  <2>3. ~ Claim(p, a)
    <3>1. OwnerLiveness(lease[a]) # "stale"
      BY <1>1, <2>1, StaleIsDead DEF OwnerAlive
    <3>2. a \in Rivals(a)
      BY <1>1 DEF OwnerAlive, Rivals
    <3> QED
      BY <3>1, <3>2 DEF Claim
  <2>4. TakeOver(p, a)
    BY <2>2, <2>3 DEF Published
  <2>5. lease'[a].pid = p
    BY <1>1, <2>4 DEF TakeOver, Publish, FreshLease, TypeOK
  <2> QED
    BY <2>4, <2>5 DEF TakeOver, FenceMatches
<1>2. LeaseInv /\ [Next]_vars => [Displacement]_vars
  BY <1>1 DEF Displacement
<1> QED
  BY <1>2, LeaseInvariant, PTL DEF Spec, DisplacedOnlyIfObserved

\* The lease of a dead owner is written once more at most, by whoever had
\* checked the owner before its end; then its heartbeat and its watcher slot
\* stay as they are, because every later write finds the owner gone.
THEOREM DeadOwnerFrozen == Spec => DeadOwnerLeaseFrozen
<1>1. ASSUME LeaseInv, [Next]_vars, NEW a \in Agents, lease[a] # NoLease,
             lease'[a] # NoLease, lease'[a].rev = lease[a].rev,
             ~ OwnerAlive(lease[a])
      PROVE  /\ writing'[a] \in {writing[a], NoWrite}
             /\ \/ /\ lease'[a].wake.watcher = lease[a].wake.watcher
                   /\ lease'[a].wake.beat = "fresh"
                        => lease[a].wake.beat = "fresh"
                \/ writing[a] # NoWrite /\ writing'[a] = NoWrite
  <2> DEFINE Same == lease'[a] = lease[a]
             Kept == writing'[a] \in {writing[a], NoWrite}
  <2> USE SeatAssumption DEF LeaseInv
  <2>1. lease[a] \in Lease
    BY <1>1, LeaseOrNone
  <2>2. ASSUME NEW r PROVE ~ Fenced(a, r)
    <3>1. OwnerLiveness(lease[a]) # "active"
      BY <1>1 DEF OwnerAlive, OwnerLiveness
    <3> QED
      BY <3>1 DEF Fenced
  <2>3. ~ \E p \in Pids : Published(p, a)
    <3> SUFFICES ASSUME NEW p \in Pids, Published(p, a) PROVE FALSE
      OBVIOUS
    <3>1. TypeOK /\ lease[a].rev <= revs
      BY <1>1 DEF LeasedRevisions
    <3>2. lease'[a].rev = revs + 1
      BY <3>1, PublishedLease
    <3>3. revs \in Nat /\ lease[a].rev \in Nat
      BY <2>1, <3>1 DEF TypeOK, Lease
    <3> QED
      BY <1>1, <3>1, <3>2, <3>3
  <2>4. ASSUME NEW b \in Agents, HeartbeatAges(b)
        PROVE  /\ lease'[a].wake.watcher = lease[a].wake.watcher
               /\ (lease'[a].wake.beat = "fresh"
                    => lease[a].wake.beat = "fresh")
               /\ writing' = writing
    BY <1>1, <2>1, <2>4 DEF HeartbeatAges, TypeOK, Lease, Wake
  <2>5. ASSUME NEW b \in Agents, StoreWake(b)
        PROVE  \/ Same /\ Kept
               \/ writing[a] # NoWrite /\ writing'[a] = NoWrite
    BY <1>1, <2>5 DEF StoreWake, Unlocked, TypeOK
  <2>6. ASSUME NEW b \in Agents, NEW r, Starts(b, r) PROVE Same /\ Kept
    <3>1. b # a
      BY <1>1, <2>2, <2>6, StartsType
    <3> QED
      BY <1>1, <2>6, <3>1, StartsType
  <2>7. ASSUME NEW p \in Pids, NEW b \in Agents, Published(p, b)
        PROVE  Same /\ Kept
    <3>1. b # a
      BY <2>3, <2>7
    <3> QED
      BY <1>1, <2>7, <3>1 DEF Published, Claim, TakeOver, Publish, TypeOK
  <2>8. ASSUME NEW b \in Agents, NEW r, Release(b, r) \/ ReleaseCrash(b, r)
        PROVE  Same /\ Kept
    <3>1. b # a
      BY <2>2, <2>8 DEF Release, ReleaseCrash
    <3> QED
      BY <1>1, <2>8, <3>1 DEF Release, ReleaseCrash, TypeOK
  <2>9. ~Reclaim
    BY <1>1 DEF Reclaim
  <2>10. ASSUME \/ \E p \in Pids : Exit(p)
                \/ \E b \in Agents : WriteFails(b)
                \/ UNCHANGED <<lease, writing>>
         PROVE  Same /\ Kept
    BY <1>1, <2>10 DEF Exit, WriteFails, TypeOK
  <2> QED
    BY <2>4, <2>5, <2>6, <2>7, <2>8, <2>9, <2>10, <1>1
       DEF Next, vars, Spawn, ChangeVisibility, Observe, Published,
           RecordThread, RecordSurface, ClearCapability, Starts
<1>2. LeaseInv /\ [Next]_vars => [FrozenWake]_vars
  BY <1>1 DEF FrozenWake
<1> QED
  BY <1>2, LeaseInvariant, PTL DEF Spec, DeadOwnerLeaseFrozen

(***************************************************************************)
(* The refinement: the living holders of each family behave as             *)
(* SeatOwnership says.                                                     *)
(***************************************************************************)

\* A seat is only ever leased for the family it is configured for.
FamilyOfSeat ==
  \A a \in Agents : lease[a] \in Lease => lease[a].harness = HarnessOf[a]

HolderInv == LeaseInv /\ FamilyOfSeat

LEMMA FamilyStep ==
  SeatAssumption /\ HolderInv /\ [Next]_vars => FamilyOfSeat'
<1> SUFFICES ASSUME SeatAssumption, HolderInv, [Next]_vars,
                    NEW a \in Agents, lease'[a] \in Lease
             PROVE  lease'[a].harness = HarnessOf[a]
  BY DEF FamilyOfSeat
<1>1. TypeOK /\ Rewrites /\ NoLease \notin Lease
  BY DEF HolderInv, LeaseInv, NoLease, Lease
<1>2. CASE lease[a] \in Lease /\ SameHolder(lease'[a], lease[a])
  BY <1>2 DEF SameHolder, HolderInv, FamilyOfSeat
<1>3. ASSUME NEW p \in Pids, Published(p, a) PROVE lease'[a].harness = HarnessOf[a]
  BY <1>1, <1>3, PublishedLease
<1> QED
  BY <1>1, <1>2, <1>3, LeaseFate

\* Every living holder was one before, unless its lease was just published.
LEMMA HoldersBefore ==
  ASSUME SeatAssumption, HolderInv, [Next]_vars, NEW a \in Agents,
         OwnerAlive(lease[a])', \A p \in Pids : ~Published(p, a)
  PROVE  /\ OwnerAlive(lease[a])
         /\ lease'[a].start = lease[a].start
         /\ lease'[a].harness = lease[a].harness
<1>1. /\ TypeOK /\ Rewrites /\ ProcessBirths /\ LeasedBirths
      /\ lease'[a] # NoLease
  BY DEF HolderInv, LeaseInv, OwnerAlive
<1>2. lease[a] \in Lease /\ SameHolder(lease'[a], lease[a])
  BY <1>1, LeaseFate
<1>3. proc'[lease[a].pid].start = lease[a].start
  BY <1>2 DEF OwnerAlive, SameHolder
<1>4. proc[lease[a].pid].start = lease[a].start
  BY <1>1, <1>2, <1>3, NoRevival DEF LeasedBirths
<1> QED
  BY <1>1, <1>2, <1>4, LeaseOrNone DEF OwnerAlive, SameHolder

\* One living holder at most, by its seat.
LEMMA OneHolderAtMost ==
  ASSUME HolderInv, NEW a \in Agents, OwnerAlive(lease[a])
  PROVE  Holders(lease[a].harness) = {<<a, lease[a].start>>}
BY DEF HolderInv, LeaseInv, OneActivePerHarness, Holders

LEMMA HoldersInit == Init => Ownership!Init
BY DEF Init, Ownership!Init, Holders, OwnerAlive

\* Any step that publishes nothing can only end holders.
LEMMA VacateStep ==
  ASSUME SeatAssumption, HolderInv, [Next]_vars,
         \A p \in Pids, a \in Agents : ~Published(p, a)
  PROVE  Ownership!Vacate
<1> DEFINE lost == {h \in Harnesses : Holders(h)' = {}}
<1>1. ASSUME NEW h \in Harnesses, h \notin lost PROVE Holders(h)' = Holders(h)
  <2>1. PICK a \in Agents : OwnerAlive(lease[a])' /\ lease'[a].harness = h
    BY <1>1 DEF Holders
  <2>2. ASSUME NEW b \in Agents, OwnerAlive(lease[b])', lease'[b].harness = h
        PROVE  /\ OwnerAlive(lease[b]) /\ lease[b].harness = h
               /\ lease'[b].start = lease[b].start
    BY <2>2, HoldersBefore
  <2>3. Holders(h) = {<<a, lease[a].start>>}
    BY <2>1, <2>2, OneHolderAtMost
  <2>4. Holders(h)' \subseteq Holders(h)
    BY <2>2 DEF Holders
  <2> QED
    BY <1>1, <2>3, <2>4
<1>2. [h \in Harnesses |-> Holders(h)]' =
        [h \in Harnesses |-> IF h \in lost THEN {} ELSE [g \in Harnesses |-> Holders(g)][h]]
  BY <1>1
<1>3. lost \in SUBSET Harnesses
  OBVIOUS
<1> HIDE DEF lost
<1> QED
  BY <1>2, <1>3 DEF Ownership!Vacate

\* A publication on seat a acquires its family, or displaces its holder there.
LEMMA PublishStep ==
  ASSUME SeatAssumption, HolderInv, NEW p \in Pids, NEW a \in Agents, Published(p, a)
  PROVE  Ownership!Next
<1> DEFINE h == HarnessOf[a]
           new == <<a, lease'[a].start>>
           bar == [g \in Harnesses |-> Holders(g)]
<1>1. TypeOK /\ h \in Harnesses
  BY DEF HolderInv, LeaseInv, SeatAssumption
<1>2. /\ lease'[a] \in Lease /\ lease'[a].harness = h
      /\ lease'[a].start = proc[p].start /\ proc' = proc
      /\ \A b \in Agents \ {a} :
           /\ lease'[b] = lease[b]
           /\ (lease[b] \in Lease /\ lease[b].harness = h)
                => OwnerLiveness(lease[b]) = "stale"
  BY <1>1, PublishedLease
<1>3. OwnerAlive(lease[a])' /\ lease'[a].start \in 1..MaxStarts
  <2>1. lease'[a].pid = p
    BY <1>1 DEF Published, Claim, TakeOver, Publish, FreshLease, TypeOK
  <2>2. lease'[a] # NoLease
    BY <1>2 DEF NoLease, Lease
  <2> QED
    BY <1>2, <2>1, <2>2 DEF OwnerAlive, Lease
<1>4. ASSUME NEW b \in Agents \ {a}, lease[b].harness = h PROVE ~OwnerAlive(lease[b])
  <2>1. CASE lease[b] = NoLease
    BY <2>1 DEF OwnerAlive
  <2>2. CASE lease[b] # NoLease
    <3>1. lease[b] \in Lease /\ OwnerLiveness(lease[b]) = "stale"
      BY <1>1, <1>2, <1>4, <2>2, LeaseOrNone
    <3> QED
      BY <1>1, <3>1, StaleIsDead DEF OwnerAlive
  <2> QED
    BY <2>1, <2>2
<1>5. \A b \in Agents \ {a} : OwnerAlive(lease[b])' <=> OwnerAlive(lease[b])
  BY <1>2 DEF OwnerAlive
<1>6. Holders(h)' = {new}
  BY <1>2, <1>3, <1>4, <1>5 DEF Holders
<1>7. ASSUME NEW g \in Harnesses, g # h PROVE Holders(g)' = Holders(g)
  <2>1. lease'[a].harness # g
    BY <1>2, <1>7
  <2>2. OwnerAlive(lease[a]) => lease[a].harness # g
    BY <1>1, <1>7, LeaseOrNone DEF OwnerAlive, HolderInv, FamilyOfSeat
  <2> QED
    BY <1>2, <1>5, <2>1, <2>2 DEF Holders
<1>8. bar' = [bar EXCEPT ![h] = {new}]
  BY <1>1, <1>6, <1>7
<1>9. CASE OwnerAlive(lease[a])
  <2>1. lease[a] \in Lease /\ lease[a].harness = h
    BY <1>1, <1>9, LeaseOrNone DEF OwnerAlive, HolderInv, FamilyOfSeat
  <2>2. Holders(h) = {<<a, lease[a].start>>} /\ lease[a].start \in 1..MaxStarts
    BY <1>9, <2>1, OneHolderAtMost DEF Lease
  <2>3. bar[h] = {<<a, lease[a].start>>}
    BY <1>1, <2>2
  <2>4. Ownership!Displace(h)
    BY <1>3, <1>8, <2>2, <2>3 DEF Ownership!Displace
  <2> QED
    BY <1>1, <2>4 DEF Ownership!Next
<1>10. CASE ~OwnerAlive(lease[a])
  <2>1. Holders(h) = {}
    BY <1>4, <1>10 DEF Holders
  <2>2. bar[h] = {}
    BY <1>1, <2>1
  <2>3. Ownership!Acquire(h)
    BY <1>3, <1>8, <2>2 DEF Ownership!Acquire
  <2> QED
    BY <1>1, <2>3 DEF Ownership!Next
<1> QED
  BY <1>9, <1>10

\* SeatLease implements SeatOwnership: through claims, guarded takeovers,
\* releases, deaths, reused pids and reclaims each family has one living holder
\* at most, and it changes seats only through a moment with none.
THEOREM OwnershipImplemented == Spec => ImplementsOwnership
<1>1. Init => FamilyOfSeat
  BY DEF Init, FamilyOfSeat, NoLease, Lease
<1>2. LeaseInv /\ FamilyOfSeat /\ [Next]_vars => FamilyOfSeat'
  BY SeatAssumption, FamilyStep DEF HolderInv
<1>3. LeaseInv /\ FamilyOfSeat /\ [Next]_vars => Ownership!Next
  <2> SUFFICES ASSUME HolderInv, [Next]_vars PROVE Ownership!Next
    BY DEF HolderInv
  <2>1. CASE \E p \in Pids, a \in Agents : Published(p, a)
    BY <2>1, SeatAssumption, PublishStep
  <2>2. CASE ~ \E p \in Pids, a \in Agents : Published(p, a)
    BY <2>2, SeatAssumption, VacateStep DEF Ownership!Next
  <2> QED
    BY <2>1, <2>2
<1>4. Init => Ownership!Init
  BY HoldersInit
<1> QED
  BY <1>1, <1>2, <1>3, <1>4, LeaseInvariant, PTL
     DEF Spec, ImplementsOwnership, Ownership!Spec
============================================================================
