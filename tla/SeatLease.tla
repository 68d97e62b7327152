----------------------------- MODULE SeatLease -----------------------------
(***************************************************************************)
(* The host-local, fenced seat leases of one project: bin/_rtruntime.py.   *)
(*                                                                         *)
(* A seat (agent) is leased to an owner process of one harness.  Launchers *)
(* claim a seat, a guarded takeover replaces the exact lease it observed,  *)
(* hooks and watchers mutate the lease only under its fence, and a retired *)
(* project's runtime directory is reclaimed when every owner is dead.      *)
(*                                                                         *)
(* Every operation here runs under the project claim lock, the seat state  *)
(* lock, or both.  The locks exclude other operations, but not the end of  *)
(* the owner: a write of the wake record checks the owner in one step and  *)
(* writes in another.  The other operations are one action each, as they   *)
(* write nothing that depends on the owner being alive still; the steps of *)
(* claim and reclaim around the lock FILE are the subject of ClaimLock.    *)
(* The fence of a lease (session id, revision) is one fresh number, and a  *)
(* process-start fingerprint is another.                                   *)
(***************************************************************************)
EXTENDS Naturals, FiniteSets

CONSTANTS
  Agents,      \* configured seats of the project
  Harnesses,   \* harness families
  HarnessOf,   \* the family a launcher claims each seat for
  Pids,        \* process ids of the host, reused after a process ends
  None,        \* no watcher; a process that is not one of Pids (the bridge)
  MaxStarts,   \* bound: process births
  MaxRevs      \* bound: lease generations

ASSUME SeatAssumption ==
  /\ HarnessOf \in [Agents -> Harnesses]
  /\ None \notin Pids
  /\ MaxStarts \in Nat
  /\ MaxRevs \in Nat

VARIABLES
  proc,        \* proc[p]: the process now running under pid p
  starts,      \* process births so far; the latest start fingerprint
  lease,       \* lease[a]: agents/<a>/lease.json
  revs,        \* leases published so far; the latest revision
  capability,  \* capability[a]: agents/<a>/capability.json
  observed,    \* observed[p]: the revision process p's card showed as active
  writing      \* writing[a]: the lease record that the holder of the seat's
               \* state lock has checked and is about to write, and for whom

vars == <<proc, starts, lease, revs, capability, observed, writing>>

NoProc == [start |-> 0, visible |-> TRUE]
NoLease == [rev |-> 0]
NoWake == [watcher |-> None, beat |-> "none"]
Wake == [watcher : Pids \cup {None}, beat : {"none", "fresh", "old"}]
Lease == [rev : 1..MaxRevs, harness : Harnesses, pid : Pids,
          start : 1..MaxStarts, wake : Wake]

NoWrite == [by |-> None, record |-> NoLease]
Write == [by : Pids \cup {None}, record : Lease]

\* A thread is named by the lease generation that recorded it.
NoThread == 0
NoCapability == [rev |-> 0, thread |-> NoThread]

TypeOK ==
  /\ proc \in [Pids -> [start : 0..MaxStarts, visible : BOOLEAN]]
  /\ starts \in 0..MaxStarts
  /\ lease \in [Agents -> Lease \cup {NoLease}]
  /\ revs \in 0..MaxRevs
  /\ capability \in [Agents -> [rev : 0..MaxRevs, thread : 0..MaxRevs]]
  /\ observed \in [Pids -> 0..MaxRevs]
  /\ writing \in [Agents -> Write \cup {NoWrite}]

NothingObserved == 0

Init ==
  /\ proc = [p \in Pids |-> NoProc]
  /\ starts = 0
  /\ lease = [a \in Agents |-> NoLease]
  /\ revs = 0
  /\ capability = [a \in Agents |-> NoCapability]
  /\ observed = [p \in Pids |-> NothingObserved]
  /\ writing = [a \in Agents |-> NoWrite]

----------------------------------------------------------------------------
(* Processes.  A running pid is visible while kill(pid, 0) is allowed and  *)
(* its start time can be read; either may fail and recover at any time.    *)

Running(p) == proc[p].start # 0

Spawn(p) ==
  /\ ~Running(p)
  /\ starts < MaxStarts
  /\ starts' = starts + 1
  /\ proc' = [proc EXCEPT ![p] = [start |-> starts + 1, visible |-> TRUE]]
  /\ observed' = [observed EXCEPT ![p] = NothingObserved]
  /\ UNCHANGED <<lease, revs, capability, writing>>

\* What the process was writing is not written, and its locks are free.
Exit(p) ==
  /\ Running(p)
  /\ proc' = [proc EXCEPT ![p] = NoProc]
  /\ observed' = [observed EXCEPT ![p] = NothingObserved]
  /\ writing' = [a \in Agents |->
                   IF writing[a].by = p THEN NoWrite ELSE writing[a]]
  /\ UNCHANGED <<starts, lease, revs, capability>>

ChangeVisibility(p) ==
  /\ Running(p)
  /\ proc' = [proc EXCEPT ![p].visible = ~@]
  /\ UNCHANGED <<starts, lease, revs, capability, observed, writing>>

\* _pid_state: existence only, no fingerprint.
PidState(p) ==
  IF ~Running(p) THEN "dead" ELSE IF proc[p].visible THEN "live" ELSE "ambiguous"

\* _owner_liveness
OwnerLiveness(l) ==
  CASE PidState(l.pid) = "dead" -> "stale"
    [] PidState(l.pid) = "ambiguous" -> "ambiguous"
    [] OTHER -> IF proc[l.pid].start = l.start THEN "active" ELSE "stale"

\* The owner that claimed the lease is still running, whether or not the
\* code can tell.
OwnerAlive(l) == l # NoLease /\ proc[l.pid].start = l.start

\* _fence_matches against the lease now on disk.
AnyFenceMatches(a, r) == lease[a] # NoLease                        \* mutant
FenceMatches(a, r) == lease[a] # NoLease /\ lease[a].rev = r

\* Nobody holds the state lock of the seat.
Unlocked(a) == writing[a] = NoWrite

----------------------------------------------------------------------------
(* Claims.                                                                 *)

\* The lease a claim by p would publish for seat a.
FreshLease(p, a) ==
  [rev |-> revs + 1, harness |-> HarnessOf[a], pid |-> p,
   start |-> proc[p].start, wake |-> NoWake]

\* The records claim() inspects: this seat and its siblings of the family.
RivalsOnThisSeatOnly(a) == {b \in {a} : lease[b] # NoLease}         \* mutant
Rivals(a) ==
  {b \in Agents : /\ lease[b] # NoLease
                  /\ b = a \/ lease[b].harness = HarnessOf[a]}

CanOwn(p) == PidState(p) = "live"

Publish(p, a) ==
  /\ revs < MaxRevs
  /\ lease' = [lease EXCEPT ![a] = FreshLease(p, a)]
  /\ revs' = revs + 1

\* claim without a fence: replaces nothing but stale leases.
Claim(p, a) ==
  /\ CanOwn(p)
  /\ Unlocked(a)
  /\ \A b \in Rivals(a) : OwnerLiveness(lease[b]) = "stale"
  /\ Publish(p, a)
  /\ UNCHANGED <<proc, starts, capability, observed, writing>>

\* The card reads the seat: inspect_seat finds an active holder, which
\* makes it eligible for takeover by the process showing the card.
Observe(p, a) ==
  /\ CanOwn(p)
  /\ lease[a] # NoLease
  /\ OwnerLiveness(lease[a]) = "active"
  /\ observed' = [observed EXCEPT ![p] = lease[a].rev]
  /\ UNCHANGED <<proc, starts, lease, revs, capability, writing>>

\* take_over_seat: claim(replace_fence = the observed fence).  The observed
\* generation may be replaced active or stale, never ambiguous; siblings of
\* the family must be stale.  Any refusal leaves the seat alone.
TakeOver(p, a) ==
  /\ CanOwn(p)
  /\ Unlocked(a)
  /\ FenceMatches(a, observed[p])
  /\ OwnerLiveness(lease[a]) # "ambiguous"
  /\ \A b \in Rivals(a) \ {a} : OwnerLiveness(lease[b]) = "stale"
  /\ Publish(p, a)
  /\ observed' = [observed EXCEPT ![p] = NothingObserved]
  /\ UNCHANGED <<proc, starts, capability, writing>>

----------------------------------------------------------------------------
(* Fenced mutations.  A caller presents the fence r of some lease that was *)
(* once published, possibly superseded since.                              *)

\* _load_fenced_record
FencedByRevisionOnly(a, r) == FenceMatches(a, r)                   \* mutant
Fenced(a, r) ==
  /\ FenceMatches(a, r)
  /\ OwnerLiveness(lease[a]) = "active"

\* release: the lease and then its capability are unlinked.
Release(a, r) ==
  /\ Unlocked(a)
  /\ Fenced(a, r)
  /\ lease' = [lease EXCEPT ![a] = NoLease]
  /\ capability' = [capability EXCEPT ![a] = NoCapability]
  /\ UNCHANGED <<proc, starts, revs, observed, writing>>

\* The release process dies between the two unlinks.
ReleaseCrash(a, r) ==
  /\ Unlocked(a)
  /\ Fenced(a, r)
  /\ lease' = [lease EXCEPT ![a] = NoLease]
  /\ UNCHANGED <<proc, starts, revs, capability, observed, writing>>

\* _watcher_can_be_replaced
WatcherReplaceable(w) ==
  w.watcher # None => (PidState(w.watcher) # "live" \/ w.beat # "fresh")

\* The state lock is taken and the record read, fenced and its owner found
\* alive; what is going to be written is that record with the wake w.
StartWrite(q, a, r, w) ==
  /\ Unlocked(a)
  /\ Fenced(a, r)
  /\ writing' = [writing EXCEPT ![a] =
                   [by |-> q, record |-> [lease[a] EXCEPT !.wake = w]]]
  /\ UNCHANGED <<proc, starts, lease, revs, capability, observed>>

\* update_wake(watcher_pid = q): a hook arms its watcher.
ArmWatcher(q, a, r) ==
  /\ CanOwn(q)
  /\ lease[a] # NoLease
  /\ lease[a].wake.watcher # q => WatcherReplaceable(lease[a].wake)
  /\ StartWrite(q, a, r, [watcher |-> q, beat |-> "fresh"])

\* update_wake(expected_watcher_pid = q): the armed watcher renews.
RenewWatcher(q, a, r) ==
  /\ CanOwn(q)
  /\ lease[a] # NoLease
  /\ lease[a].wake.watcher = q
  /\ StartWrite(q, a, r, [watcher |-> q, beat |-> "fresh"])

\* update_wake with no watcher named: the Codex bridge notes the native
\* session, and the heartbeat is renewed whoever holds the watcher slot.
BridgeHeartbeat(a, r) ==
  /\ lease[a] # NoLease
  /\ StartWrite(None, a, r,
                [watcher |-> lease[a].wake.watcher, beat |-> "fresh"])

\* clear_wake(expected_watcher_pid = q)
ClearWake(q, a, r) ==
  /\ CanOwn(q)
  /\ lease[a] # NoLease
  /\ lease[a].wake.watcher = q
  /\ StartWrite(q, a, r, NoWake)

\* _atomic_json: the whole record is replaced, whatever became of its owner.
StoreWake(a) ==
  /\ ~Unlocked(a)
  /\ lease' = [lease EXCEPT ![a] = writing[a].record]
  /\ writing' = [writing EXCEPT ![a] = NoWrite]
  /\ UNCHANGED <<proc, starts, revs, capability, observed>>

\* The write fails, or the process is killed, before the replacement.
WriteFails(a) ==
  /\ ~Unlocked(a)
  /\ writing' = [writing EXCEPT ![a] = NoWrite]
  /\ UNCHANGED <<proc, starts, lease, revs, capability, observed>>

\* DEFAULT_HEARTBEAT_TTL passes without a renewal.
HeartbeatAges(a) ==
  /\ lease[a] # NoLease
  /\ lease[a].wake.beat = "fresh"
  /\ lease' = [lease EXCEPT ![a].wake.beat = "old"]
  /\ UNCHANGED <<proc, starts, revs, capability, observed, writing>>

----------------------------------------------------------------------------
(* Seat capability: what a lease generation may be driven through.         *)

\* The thread the previous record hands on: only within one generation.
InheritedAcrossGenerations(a) == capability[a].thread              \* mutant
Inherited(a) ==
  IF capability[a].rev = lease[a].rev THEN capability[a].thread ELSE NoThread

\* record_seat_capability naming the thread the caller runs on
RecordThread(a, r) ==
  /\ Unlocked(a)
  /\ Fenced(a, r)
  /\ capability' = [capability EXCEPT ![a] = [rev |-> r, thread |-> r]]
  /\ UNCHANGED <<proc, starts, lease, revs, observed, writing>>

\* record_seat_capability leaving the thread UNCHANGED (surface only)
RecordSurface(a, r) ==
  /\ Unlocked(a)
  /\ Fenced(a, r)
  /\ capability' = [capability EXCEPT ![a] = [rev |-> r, thread |-> Inherited(a)]]
  /\ UNCHANGED <<proc, starts, lease, revs, observed, writing>>

ClearCapability(a) ==
  /\ Unlocked(a)
  /\ capability[a] # NoCapability
  /\ capability' = [capability EXCEPT ![a] = NoCapability]
  /\ UNCHANGED <<proc, starts, lease, revs, observed, writing>>

----------------------------------------------------------------------------
\* reclaim_project_runtime: every lease is stale and the directory goes away.
\* Its lock files go with it, so what becomes of a launcher that waits for the
\* claim lock, or of a write under a state lock, which it does not take, is
\* outside this module: nobody waits and nothing is being written.
Reclaim ==
  /\ \A a \in Agents : Unlocked(a)
  /\ \A a \in Agents : lease[a] # NoLease => OwnerLiveness(lease[a]) = "stale"
  /\ lease' = [a \in Agents |-> NoLease]
  /\ capability' = [a \in Agents |-> NoCapability]
  /\ UNCHANGED <<proc, starts, revs, observed, writing>>

Next ==
  \/ \E p \in Pids : Spawn(p) \/ Exit(p) \/ ChangeVisibility(p)
  \/ \E p \in Pids, a \in Agents : Claim(p, a) \/ Observe(p, a) \/ TakeOver(p, a)
  \/ \E a \in Agents, r \in 1..revs :
       \/ Release(a, r)
       \/ ReleaseCrash(a, r)
       \/ BridgeHeartbeat(a, r)
       \/ RecordSurface(a, r)
       \/ RecordThread(a, r)
       \/ \E q \in Pids : ArmWatcher(q, a, r) \/ RenewWatcher(q, a, r)
                          \/ ClearWake(q, a, r)
  \/ \E a \in Agents : \/ StoreWake(a) \/ WriteFails(a)
                        \/ HeartbeatAges(a) \/ ClearCapability(a)
  \/ Reclaim

Spec == Init /\ [][Next]_vars

----------------------------------------------------------------------------
(* Properties.                                                             *)

\* "Zero or one top-level seat": no two leases of one harness family are
\* held by running owners, however pids die, are reused or are taken over.
OneActivePerHarness ==
  \A a, b \in Agents :
    (a # b /\ OwnerAlive(lease[a]) /\ OwnerAlive(lease[b]))
      => lease[a].harness # lease[b].harness

\* A capability names only a thread recorded under that same generation of
\* the lease: neither a thread left behind by a crashed release nor one of a
\* taken-over holder is ever inherited.
CapabilityOfItsGeneration ==
  \A a \in Agents :
    capability[a].thread \in {NoThread, capability[a].rev}

\* The seat of a running owner changes hands only by a takeover, and the
\* process that takes over is one whose own card had shown that very
\* generation, since that process was born.
Displacement ==
  \A a \in Agents :
    (/\ OwnerAlive(lease[a])
     /\ lease'[a] # NoLease
     /\ lease'[a].rev # lease[a].rev)
      => observed[lease'[a].pid] = lease[a].rev

DisplacedOnlyIfObserved == [][Displacement]_vars

\* A watcher or hook that outlives its session cannot keep the seat looking
\* healthy.  Whoever checked the owner while it lived may still write once,
\* but no write begins after the owner's end, and none is left after that
\* one: from then on the heartbeat is not renewed and the watcher slot does
\* not change hands.
FrozenWake ==
  \A a \in Agents :
    (/\ lease[a] # NoLease
     /\ lease'[a] # NoLease
     /\ lease'[a].rev = lease[a].rev
     /\ ~OwnerAlive(lease[a]))
      => /\ writing'[a] \in {writing[a], NoWrite}
         /\ \/ /\ lease'[a].wake.watcher = lease[a].wake.watcher
               /\ lease'[a].wake.beat = "fresh" => lease[a].wake.beat = "fresh"
            \/ writing[a] # NoWrite /\ writing'[a] = NoWrite

DeadOwnerLeaseFrozen == [][FrozenWake]_vars

\* The seats of a family have at most one living holder at a time, and the
\* family's holder changes seat only through a moment with no living holder.
Holders(h) ==
  {<<a, lease[a].start>> : a \in {b \in Agents : /\ OwnerAlive(lease[b])
                                                 /\ lease[b].harness = h}}

Ownership == INSTANCE SeatOwnership
               WITH holders <- [h \in Harnesses |-> Holders(h)],
                    Births <- 1..MaxStarts

\* The leases implement exclusive ownership of each family's seat.
ImplementsOwnership == Ownership!Spec
=============================================================================
