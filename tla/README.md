# A verification project for pneu

pneu ("Roundtable") lets several coding-agent sessions of one project write
mail to each other. It is a set of short-lived command-line processes over a
shared directory tree: no server owns the state, so every guarantee rests on
locks, atomic renames and fences that independent processes respect. This
project models those protocols in TLA+, checks them with TLC on small
instances and proves the most important properties with TLAPS for every
instance. Paths below are relative to the repository (`src/`).

## 1. The system

| Part | State it keeps | Operations | What makes it correct | Modelled in |
|---|---|---|---|---|
| Seat runtime (`bin/_rtruntime.py`) | host-local `agents/<a>/lease.json` (session id, revision, owner pid and start fingerprint, wake slot), `capability.json`, `reply-expectations.json`, `claim.lock` | `claim`, guarded takeover, `release`, `update_wake`, `clear_wake`, `record_seat_capability`, `seat_shared_guard`, `reclaim_project_runtime`, reply expectations | one living owner per harness family; nobody but the owner's processes changes its lease; nothing of an old generation leaks into a new one | SeatLease, ClaimLock, ReplyAlarm |
| Layout lock (`bin/_rtlib.py`, `_ProjectMailboxLock`) | two lock files per project mailbox | shared or exclusive section with a deadline | a migration or native mutation is alone; it is not starved by readers | LayoutLock |
| Mailbox (`bin/_rtmail.py`), `bin/rt-ack`, `bin/rt-say`, `bin/rt-inbox` | Maildirs `inbox/<seat>/{tmp,new,cur}` | send, acknowledge, archive, drain | durable before visible; mail leaves `new/` only after its receipt is durable | MailAck, ReplyAlarm |
| Wake watcher (`bin/rt-wait-inbox`) | the wake slot of the lease | SessionStart and Stop hooks, polling, breaker, self-healing, reply alarms | an idle session hears of mail, without endless turns; an alarm is true and raised once | WakeWatcher, ReplyAlarm |
| Registry and resolver (`bin/_rtlib.py`) | `projects.yaml`, the identity marker in each project | register, tombstone, reindex, resolve, address a sibling by name, upgrade the schema | one project per path, one identity per project, for good | Registry, ProjectAddress, RegistryUpgrade |
| Migration (`bin/_rtmigrate.py`) | backup, recovery records, central generation, the registry's layout | forward and rollback cutover, repair, legacy import, purge | a crash leaves exactly one authoritative tree; no mail is lost | Migration |
| Codex binding and bridge (`bin/rt-codex-*`, launch intents of `_rtruntime.py`) | launch intent, bind requests, binding store | claim an intent, bind, adopt, quarantine, wake, hand off | the thread that is woken is the one the user last chose, under a live lease | CodexBinding |
| Codex services (`bin/_rtcodex.py`) | launchd definition, pending marker, two jobs shared by all seats | inspect, repair, reload, publish a seat | nobody's services are pulled away; a seat is published on current ones | CodexService |
| Remote Control host (`bin/_rtrchost.py`) | settings, plist, state file, launchd job | enable, disable, register | all or nothing, and always reversible | RCHost |
| Setup (`pneu_packaging/setup.py`) | pieces in the user's files, manifest | apply, remove | owns only what it wrote; rolls back | HarnessSetup |
| Install (`pneu_packaging/cli.py`) | version directories, wrappers, links, manifest, prefix | install, upgrade, uninstall, prefix migration | a rerun is always possible; the user's files stay | Installation, PrefixMigration |
| Launcher (`bin/_rtlauncher.py`), capability resolver, native mail, worktrees | little of their own | occupancy card and takeover; lookup of a thread; native acknowledgement; removal of a worktree | displaces only what the user saw | inside SeatLease, MailAck, ClaimLock |
| Surfaces, doctor, selectors, adapters, legacy tools, scripts | little or none | – | – | – |

They interact through files only. A launcher claims a seat and becomes its
owner; the owner's hooks and watchers present the lease's fence (session id
and revision) on every write; a bridge validates a seat and drives it under the
shared claim lock; mail tools take the layout lock shared, migration and
native mutations exclusively; a watcher reads `new/` and reports through its
exit status; every tool finds its mailbox through the registry.

What is hard: many uncoordinated processes between lock sections; pids that are
reused; liveness that cannot be read; locks that are files and can be removed;
directories that users move and copy; crashes between two file operations;
partial failure that reports an error after the effect; rollbacks that fail;
hooks that overlap; deadlines and breakers. `PROJECT.json` lists these hazards
at their lines.

## 2. The modules

    SeatLease ----implements----> SeatOwnership      (SeatLeaseProofs)
    ClaimLock    the same claim, with its lock file step by step
    LayoutLock                 both in MCLocks        (LockProofs)
    MailAck ------implements----> AckedDelivery
    ReplyAlarm   alarms for receipts that do not come
                               both in MCMailAck      (MailAckProofs)
    WakeWatcher                                       (WakeWatcherProofs)
    Registry                                          (RegistryProofs)
      ^--extended by-- ProjectAddress                 (RegistryProofs)
    Migration ----implements----> OneMailbox
    RegistryUpgrade, Installation, PrefixMigration
                               all four in MCUpgrades (UpgradesProofs)
    HarnessSetup, RCHost, CodexService
                               all three in MCHarnesses (HarnessProofs)
    CodexBinding                                      (CodexBindingProofs)
    MC*          values for TLC, and runs that check several modules

Definitions marked `mutant` are faulty versions of the definition that follows
them. They are not used by any specification; substituting one shows that a
property can fail.

### SeatLease: who owns a seat

`proc` is the host's process table, with a start fingerprint per process (so
that a pid can be reused) and a flag for processes whose liveness cannot be
read. `lease`, `capability` are the files; the pair (session id, revision) is
one number from `revs`. `Claim`, `Observe`/`TakeOver` (launcher card and
confirmed takeover), `Release`, `ReleaseCrash` (killed between the two
unlinks), `ArmWatcher`, `RenewWatcher`, `BridgeHeartbeat`, `ClearWake`,
`RecordThread`, `RecordSurface`, `ClearCapability` and `Reclaim` are the
operations. Each runs under the claim lock or the seat's state lock and is one
action here, except the writes of the wake record: `ArmWatcher`, `RenewWatcher`,
`BridgeHeartbeat` and `ClearWake` take the state lock, check the fence and find
the owner alive, and `StoreWake` writes the record later (`writing`), whatever
has become of the owner meanwhile; or the writer dies, or fails.

* `OneActivePerHarness`: no two seats of a family have running owners.
* `CapabilityOfItsGeneration`: a capability names only a thread recorded in
  the generation it is filed under.
* `DisplacedOnlyIfObserved`: a running owner is replaced only by a takeover, and
  by a process that was itself shown that very generation.
* `DeadOwnerLeaseFrozen`: once its owner is gone a lease's heartbeat is renewed
  and its watcher slot moved at most once more, by a write that had checked the
  owner before its end; no write begins after it.
* `ImplementsOwnership`: the living holders behave as `SeatOwnership` says: one
  per family, changing seats only through a moment with none.

### ClaimLock: the claim lock as a file

`SeatLease` takes claims as atomic; this module justifies that and shows its
limit. `claim.lock` is an inode that a process opens, then flocks; the claim,
release, shared guard and reclaim are split at open, flock, scan and write, and
`shutil.rmtree` removes the directory's entries in any order, the lock file
among them. `OneHolderUntilRetired`, `DrivenSeatStable` and
`RetirementScanHolds` hold until a lock file is removed (`retired`); after
that a process may hold a flock on a file nobody else can find (section 5).

### LayoutLock: shared and exclusive mailbox sections

The turnstile (gate) and the lock are both flocked files. Entrants open both,
take the gate, take the lock, verify that both names still lead to the inodes
they hold, and a reader drops the gate. `Replace` is somebody deleting or
recreating a lock file. `Exclusive` holds unless the lock is replaced under
an entrant that has already verified it, which no verification can detect.
`WriterProceeds`: a writer that has the gate gets the lock or gives up. In the
run `claim_lock` the two lock modules are one sum (MCLocks), whose `WriterAlone`
is `Exclusive`.

### MailAck: acknowledging mail

Messages are names in `new` and `cur`. `rt-ack` reads the route of its refs
under the shared layout lock, runs `rt-say` (which validates and publishes in
two sections of its own and may outlive its parent), and archives by link and
unlink, message by message. A native acknowledgement does it all in one
exclusive section. `Quit` may happen at every step (an error or a kill), and
`Orphan` is an `rt-say` that goes on alone or publishes and then reports a
failure.

* `RetryDoesNotRedeliver`: nobody publishes a receipt for a message that was
  archived when it started.
* `NativeReceiptsOnce`: a native receipt never names a message that already
  has one.
* `ImplementsAckedDelivery`: a message is archived only after a durable
  receipt names it, and never comes back.

Two overlapping `rt-ack`s may both send a receipt for a message; the code
allows it and the model has it.

### ReplyAlarm: an answer that does not come

The sender's side. `rt-say --expect-reply` delivers (`Send`), and only then
records an expectation under the fence it was started with (`Record`; or
`NotRecorded`, when the fence has changed, storage fails or it is killed). A
watcher probes for expectations without a lock, lists `new/`, reads its
receipts one by one, then reads `cur/` (`ListNew`, `ReadNew`, `ReadCur`), and
in one fenced write clears what was answered and takes what is overdue out of
the file (`Reconcile`); it reports what it took in a later step. Meanwhile
`rt-inbox --archive-quiet-acks` moves receipts by link and unlink, two of them
racing (`ListReceipts`, `Examine`, `LinkReceipt`, `UnlinkReceipt`), and watchers
overlap, are superseded and are killed.

* `AlarmTrue`: no alarm is taken for a message that was answered before the
  look began, although drains move receipts during the look. This is why
  `new/` must be read before `cur/` and linking must precede unlinking.
* `AlarmKept`: every expectation ends in exactly one way: it still stands, a
  receipt is in the mailbox, one watcher has it, it was reported once, or the
  watcher that had taken it died (`lost`; the code chooses at most once).

### WakeWatcher: how mail wakes an idle session

The SessionStart and Stop hooks each start a watcher in the background. The
module models one lease generation of one seat, the session (idle, or in a turn
begun by the user or by a hook), and every hook process from its first look at
the slot to its exit: the two checks for a live watcher, the breaker before and
after the claim, the polling loop, the record of the wake, the `finally` that
clears the slot, signals, kills, crashes and self-healing. `Arrive` and `Drain`
are the mailbox; `UserTurn`, `HookTurn`, `StopHook`, `SessionHook` and
`Interrupt` are Claude Code as the installed hooks rely on it.

* `SlotNotStolen`: the slot leaves a live watcher only when it is itself
  clearing it.
* `BoundedRetries`: without a turn of the user's, one generation is retried at
  most once per overlapping hook.
* `Notified`: an idle session with mail begins a turn, unless the breaker has
  paused, the watcher or turn was killed, a watcher could not clear its slot,
  or the lease is lost (`excuse`).

`excuse` and `retries` are history variables that no action reads.

### Registry: which UUID owns which directory

`at` says which directory (inode) is visible at each path, `mark` the UUID in
its marker, `reg` the rows of `projects.yaml`. `add`, `rm` and a resolution
(with its reindex) are split at every point where something else may happen:
opening the directory, waiting for the lock, reading the registry again,
writing the marker, proving it once more, the last guard, the rename, the
directory sync and the final look. A lookup under the layout lock (`"locked"`)
does not reindex: it takes the directory it opened for the project, in memory
only (`ServeStray`). The user moves, copies, deletes and restores directories
and loses markers; commands fail or are killed at each step.

* `OnePathOneProject`: no two active rows claim one path.
* `IdentityKept`: a tombstoned UUID is never active again, and no command
  overwrites the marker of a project that is not tombstoned.
* `ReportedTrue`: a command that reports success has its row active and alone
  at its root, and the directory there is the one it opened.
* `OneToOne`: as long as the user changes directories only between commands, a
  UUID's row leads lookups to one directory only (a copy is never served by it
  beside its original); once it has done so, no other directory with that marker
  is served under the layout lock; and a directory with a live identity is never marked with a
  second one, unless a copy stands where its row says. `owner` remembers which
  directory a row was written for, until that directory is marked with another
  UUID: what the copy has taken, the next mint may ignore.

### ProjectAddress: mail to a sibling project

Extends Registry with senders. A sender takes one snapshot of the registry,
proves its own row and group (with one reconciling resolution), selects the
target by name, looks its mailbox up anew (`LookUp`, with the comparison of
UUIDs), and writes to the path that lookup gave (`Publish`), whatever is there
by then. Mailboxes are in their directories here, the local layout, where that
matters; a central one is found by UUID.

* `DeliveredAsAddressed`: what other commands do between the lookup and the
  write does not turn the mail over to another project. The directory written
  to carries the UUID addressed, unless that project was removed meanwhile (and
  perhaps registered anew, under another UUID) or the user changed directories.
* `AddressKept`: mail stays in the sender's Git group, and a name that stood for
  one project never silently becomes another's.

### RegistryUpgrade: from rows by root to rows by UUID

Plan, backup, markers one by one, replacement, sync, under the lock; killed
anywhere and rerun, while an older release adds rows and roots come and go.
`UpgradeExact`: the new file lists exactly the old roots, each under its
marker's UUID, none twice, and the backup is the file it replaced.
`MarkersFinal`: a marker keeps its UUID.

### Migration: local and central mailbox

`layout` (the registry row) says which of `local` and `central` is
authoritative. `migrate` and `rollback` are split at each durable step: backup,
record, setting aside what is in the way, staging copy, publication, the proof
that source and candidate are equal, the flip of the registry (`Flip`, and
`FlipErrs`: the error that comes before or after the effect), clean-up,
retirement part by part, bookmark, and the detached purge after the lock. Every
step can fail or be killed; reruns find what is there (repair, reuse of a
pristine candidate, import of a legacy generation).

* `AuthorityWhole`: the registry names a complete mailbox.
* `NothingHalfDone`: a command that gets to its end leaves the mailbox wholly
  central or wholly local.
* `ReportsTrue`: "failed" only if the layout was left alone, "committed" only
  if it is the one asked for.
* `ImplementsOneMailbox`: to its users the two trees are one mailbox; mail is
  delivered, then read, and never lost, repeated or taken back.
* `SettledSpared`: mail written by hand into the local tree of a central project
  while no command had the lock is never in a tree that a command decides to
  purge. A hand takes no lock, so it may also write during a command
  (`WriteByHand`, marked "during" in `stray`): such mail may be purged (section
  5). So may settled mail, by a purge that the run `migration_race` delays.

### Installation and PrefixMigration

`Installation`: every managed path, the version directories with their degrees
of completeness, the manifest; `install` and `uninstall` first check every
path, then change one after the other without a lock. `NothingLeft`,
`RerunAccepted`, `FirstInstallRepeatable`, `UsersKept`, `CurrentWhole`,
`AgentKept`. `PrefixMigration`: the rename of `~/.roundtable` to `~/.pneu` with
the rewrites that follow it. `InOnePlace`: the data are in one directory;
`Arrived`: a completed install leaves all links under the new name, any number
of failed ones before it; `UsersKept`: links the user replaced stay.

### HarnessSetup

`apply` and `remove` as transactions over the user's files: preview, lock,
plan, snapshot, writes in order, manifest, and restores on failure, some of
which fail too. A piece has a generation per release; the user may have put one
there himself, may remove setup's, may edit the text. `OwnedExactly`: between
two commands what is in the files is the user's plus what the manifest records.
`UsersKept`, `RerunAccepted`, `ReportedFiles` (what is reported as rolled back
is as it was). The list of steps is put together harness by harness from steps
that are there or not, without recursion, so that proofs can follow it.

### RCHost

`enable`, `disable` and the self-registration of a spawned session under the
state guard, with their hand-written rollbacks; launchd retires a job after
`bootout` has returned and loads every definition at login; `uninstall` checks
without the guard and removes later. `AllOrNothing`, `HostReversible` (a loaded
job can be disabled), `ContentKept`, `NotOrphaned`.

### CodexService

The launch preflight: look, ask, take the repair lock, inspect, repair or
reload, try again up to six times, publish under the locks of the last
inspection; setups, upgrades and crashes in between. A setup writes marker,
definition and manifest; it may be killed anywhere, or fail (`SetupFails`) and
take back what it `saved` in reverse order, going on where a restore fails
(`SetupBack`); `leftover` records the definition that it could not take back.
`SeatsUndisturbed`, `NeverSilently`, `PendingIsMarked`, `ClaimedOnCurrent`,
`Converges` (a preflight gives up only after something came in its way three
times, however many launchers are under way: a crash, an upgrade, a setup, a seat
that ended).

### CodexBinding

Which Codex thread a project's mail wakes. A launch arms an intent, the
SessionStart hook of a thread takes it and leaves a bind request, the bridge
lists requests, reads one, binds its thread, removes the request by identity,
quarantines, adopts and wakes; `/clear`, forks, binds and unbinds by hand, and
hooks and bridge killed between any two writes. `Guarded` is `claim.lock` held
shared by the bridge (`BindGuard`, `AdoptGuard`) or by a bind by hand
(`HandGuard`): the lease is found alive as the lock is taken, the app-server is
asked, and the binding is written after that (`Bind`, `Adopt`, `BindByHand`);
then `Mark` looks again. Claims, releases and changes of the intent wait for the
lock; the death of the owner does not, so `lease`, the live lease, and `record`,
the one on disk, are two variables. Threads are roots, children (ephemeral or
forked) or of a source that is no TUI (`exec`), which `Reject` refuses without
handing the intent back.

* `NeverWakeSuperseded`: a clear that was there when the bridge came to its
  lease is never followed by a wake of a thread it replaced. Two history
  variables say so: `current`, the threads requested for a lease since its last
  clear, and `late`, the leases whose last request this iteration of the bridge
  leaves to the next one. `current` is a set because a killed hook may have left
  its clear and an older hook then its resume: both threads were asked for.
* `HandBindingKept`: a bind by hand gives way to another, a clear or a launch
  only. `NeverBindsReplacedLease`: nothing is bound to a lease that was released
  or replaced. To one whose owner has died since the check it may be: the binding
  then stays, and `Mark` refuses the request.
* `QueueFollowsIntent`: the waiting request is of the thread that owns the
  intent. `HandedBack`: what a child took is handed back, if nothing is killed.
  `ManualBindRoutes`: mail for a thread bound by hand to the live lease wakes it,
  also when the bridge itself has the project in quarantine since an earlier
  request of that lease (`held`); a quarantine from an earlier lease is exempt.

## 3. The runs

Where several modules are checked in one run (`claim_lock`, `mail_ack`,
`upgrades`, `harnesses`), the MC module is their sum: `part` says which of them runs, `Init`
chooses it, and the parts share no state, so the run explores each part's
states as a run of its own would. Invariants of such a run are conjunctions of
the modules' own (section 2 lists the parts): `CutoverWhole`, `InstallWhole`,
`SetupExact`, `HostWhole`, `ServicesSafe`, and, for action properties,
`OthersKept`, `ServicesAsked`. Type invariants are conjuncts there.

| Run | Instance | Distinct states | Shows |
|---|---|---|---|
| `seat_lease` | 2 seats of one family, 2 pids, 3 births, 3 generations | 710 000 | the properties of SeatLease |
| `claim_lock` | 3 launchers on 2 seats, 1 bridge, 1 remover, 3 lock files; 2 readers, 2 writers, 2 replacements | 2.0 million | claims step by step; exclusion of the layout lock |
| `layout_lock` | 2 readers, 2 writers, 2 replacements | 152 000 | the writer's progress |
| `mail_ack` | receiver: 3 messages of a local and a remote sender, 2 rt-acks, 1 native; sender: 2 expectations, 2 watchers, 2 drains, 2 generations, 1 fault | 837 000 | acknowledgement; alarms |
| `wake_watcher` | 1 message, 2 hook pids, 1 fault, the runtime directory may fail | 570 000 | slot, breaker, notification |
| `registry` | 2 commands, 3 paths, 2 directories, 2 UUIDs, 4 changes by the user | 1.6 million | the properties of Registry |
| `address` | 1 sender, 1 command, 3 paths, 3 directories of 2 groups, 1 change (3 from one start) | 2.9 million | addressing |
| `upgrades` | mailbox: 2 commands, 1 message, 1 stray, 2 operations, 2 faults; registry: 2 upgrades, 3 roots, 2 faults, 2 edits; package: 2 commands, 2 releases; prefix: 2 installs, 2 failures, 1 interrupt | 497 000 | Migration, RegistryUpgrade, Installation, PrefixMigration |
| `harnesses` | setup: 2 commands, 2 harnesses, 2 releases, 2 faults, 1 edit; host: 3 commands, 3 faults; service: 2 launchers, 2 releases of package and CLI, 3 disturbances | 1.7 million | HarnessSetup, RCHost, CodexService |
| `codex_binding` | 2 launches, 3 threads, 1 change by hand, 1 kill; threads opened, hooks that wait and kills at most 3 at a time | 510 000 | CodexBinding, with liveness |
| `codex_fresh_thread_refused` | 2 launches, 2 threads | violation | section 5 |
| `migration_race` | 2 commands, mail by hand, no faults | violation | section 5 |

Why the bounds are enough. Conflicts here are between two parties, with a third
state each way: two seats with three births give reuse of a pid by a stranger
and by a new owner; three generations give a takeover of a takeover and a
stale fence two behind. Three launchers give two on one seat and one on the
other; three lock files give a removal, a second file and a third opener. Two
messages of one sender and one of another make both group orders of a batch.
Two hook pids are the predecessor and successor of every hand-over, and pids
return to use after exit; one fault is a single failure anywhere in a run of
any length. `MaxAttempts` saturates where the breaker can no longer tell.
`MaxRestarts` is 1 for the code's 5: with one fault a second restart never
happens. Four changes by the user are a copy, a move of the original, a lost
marker and a return. Two faults are an interrupted command and an interrupted
repair of it; two operations are a cutover and the next one that meets its
remains; three disturbances are what it takes to make a preflight give up. The user of
the setup part may own settings fragments and links, not launchd definitions:
`SetupExact` needs that (section 4).

Five runs have a state constraint, `Bounded`; what it cuts off is not checked by
TLC (the theorems of section 4 do not depend on it):

* `seat_lease`: a wake record is written only while no capability is recorded.
* `mail_ack`: once both messages with an expectation are sent, no second
  generation, no fault and at most one drain; with one message all of these
  occur together.
* `address`: the registry commands beside the sender add and remove; the
  resolver runs in the sender. The run starts from three states that
  registrations and moves lead to; from the third the user has three changes
  left, all between a selection and the end of its send.
* `upgrades`: after a fault or hand-written mail one migration command at a
  time; the second fault falls in the first operation or its reruns; faults and
  operations together at most two once there is hand-written mail; a user's
  edits of an installation and its faults together at most two.
* `harnesses`: one setup command at a time after the first fault, and no second
  fault after an edit by the user.

`CHECK_DEADLOCK FALSE` appears where the bounded instance really ends: births,
generations, operations or changes used up, all commands ended.

### Fairness

`LayoutLock` (`FairSpec`): an entrant inside its section leaves it and one that
has a lock granted continues; entering is not fair. The kernel grants flocks
that are free and every section in the code is a `with` block without waits.
`WakeWatcher` (`FairSpec`): a running hook goes on (`Proceed`, weakly fair
per process) and Claude Code heeds status 2 (`HookTurn`). Mail arriving,
turns ending, draining, lifetimes and all failures are not fair.
`CodexBinding` (`FairSpec`): a hook or a bind by hand that has its lock goes on,
the bridge's loop goes on (weak fairness of its steps), and the steps for which
it needs an answer of the app-server (`Bind` or `Ephemeral`, `Wake`) are strongly
fair: the server may be away, but answers for ever again. Launches, clears, binds
by hand, hooks that wait for a lock, adoption and kills are not fair.

## 4. What is proved

The proofs hold for every value of the constants that satisfies the modules'
assumptions (disjoint process sets, finite bounds as naturals): the bounds on
births, generations, faults, moves and so on are arbitrary numbers, so nothing
rests on the sizes of section 3.

* **SeatLeaseProofs.** `LeaseInv` adds to the type invariant that processes and
  leases name no birth, and leases no revision, from the future. Without it
  `OneActivePerHarness` is not inductive: a process born later could bring a
  dead lease back to life (`NoRevival`). `OneActive`, `CapabilityFresh`,
  `DisplacedIfObserved` follows, and `DeadOwnerFrozen` from `Rewrites`: what is
  about to be written is the lease that is there but for its wake, because
  nothing else replaces a lease whose state lock is held. For the refinement,
  `HolderInv` adds that a lease is filed under its seat's family; then the
  living holders of a family change by one step of `SeatOwnership` or not at
  all (`OwnershipImplemented`).
* **LockProofs.** Of ClaimLock, `LockInv`: two processes that hold the flock of
  one inode are compatible (`Exclusion`); until retirement every descriptor is
  of the one file (`OneLockFile`); and what a launcher or a remover scanned is
  still true while it holds the lock. Gives `OneHolder`, `DrivenStable`,
  `RetirementScan`. Of LayoutLock: exclusion per inode, and verified entrants
  hold the current inode; together `MutualExclusion`.
* **MailAckProofs.** `AckInv` says what each process still plans relates to
  what was archived when it started, that every ref a process archives has a
  receipt, and that a native in its section is alone. Frame lemmas
  (`StepIsLocal`, `OthersKeepPlans`) say what the steps of others leave alone.
  Gives `RetriesAreSafe`, `NativeReceiptsFirst` and the refinement
  `KeepsPromise`. Of ReplyAlarm, `AlarmInv`: a drain unlinks only what has its
  second name (`Moving`); every receipt that was there when a watcher began is
  seen, or still in `new/` and on its list, or in `cur/`, which it reads later
  (`Reading`); a message is recorded once (`Asking`), and where an expectation
  has gone is told by one place only (`Apart`, `Accounted`). Gives `AlarmsTrue`
  and `AlarmsKept`.
* **WakeWatcherProofs.** `SlotSafe` follows from who may write the slot.
  `RetriesBounded` needs an argument about numbers: once a generation was
  retried, the lease counts two attempts, so a hook that sees the generation in
  its first scan stops at the breaker; only hooks past their first scan
  (`LateOnes`) can retry it, each once, and none joins them, because a first
  scan that finds nothing proves the generation drained and names are not used
  again. The invariant counts `retries` plus the late hooks against the hooks
  there are.
* **RegistryProofs.** A document that is about to be written was computed from
  the registry that is still there, because its command has held the lock ever
  since (`RegistryInv`); a UUID about to be written into a marker has no row
  yet (`Fresh`). Gives `RegistryUnambiguous` and `IdentityForGood`. For
  `SuccessIsTrue`, `Carried` follows a command from the marker it read to its
  report: others replace that marker only after its project was tombstoned,
  and then the decision under the lock refuses. `OneToOneInv` adds what holds
  while the user leaves the directories alone under running commands: a
  document leads no row away from a directory that is there, so all that a
  UUID's mailbox was or will be handed to is one directory (`HandedOnce`); the
  directory an active row was written for carries that UUID or nothing
  (`OwnerMarked`); and a command about to mark an unmarked directory found a
  witness for every active row. Gives `IdentitiesOneToOne`. ProjectAddress: a
  sender's steps on the registry are a command's, so `RegistryInv` holds beside
  senders too; `Addressed` says what a send knows in each of its states (its
  group, while the user moves nothing; after the lookup, which UUID is at its
  path or that it is dead, because commands replace dead markers only). Gives
  `DeliveredRight` and
  `AddressIsKept`: the project a name stood for is a candidate, and if it is no
  match it spoils the name for the others.
* **UpgradesProofs**, four parts.
  * Migration. `CutoverInv`: the layout lock lets one command at a time write
    what the registry's layout names; the phase of that command says which tree
    that is, so it only fills or clears the other one; and a command that may
    flip has just proven the two trees equal. Gives `AuthoritySafe` and the
    refinement `OneMailboxKept`: the flip moves between equal trees, all other
    steps write the tree nobody reads. `DoneInv` adds what lies behind each step
    of a finishing command and that a command that flipped is past the flip; it
    gives `NothingLeftHalfDone` and `ReportsAreTrue`. `StrayInv`: nothing that
    commands copy, record, publish or, up to the release of the lock, have
    retired to be purged was written by a hand between commands (`CleanStore`,
    `HandsOff`), so a retirement moves such mail to a tree that no purge is for.
    Gives `CutoverIsWhole`, the run's `CutoverWhole`, for overlapping commands
    and hands that write at any moment.
  * RegistryUpgrade. The plan names every old root once; a root no longer left
    to mark carries the planned marker; and once the new file is there nothing
    it was made of changes (`Exact`, `MarkersKept`).
  * PrefixMigration. `PrefixInv` says for every place in the code what has been
    moved when an install is there (`PrefixPlace`), and, while nobody was
    interrupted or had company, that the links taken out are listed as pending
    or made again (`PrefixSmooth`). That failures do not matter follows: each
    clause is about what is on the disk, not about which install put it there.
  * Installation. `InstInv`: what is still on a command's list, and in what
    order, says what it has made or removed (`Course`); a command that has
    checked the paths found nothing of the user's there, and the user acts
    between commands only; an uninstall is alone (`Company`). Where no command
    was killed or at work beside another one, its manifest is the present one
    (`Calm`); where none has failed either, the manifest says what is at every
    path and which versions are there (`Flawless`). The lists are made from sets
    of paths of any finite size (`InstallPlan`, `UninstallPlan`).
  * `InstalledWhole` is `InstallWhole` from the last two, `NothingOfOthers` is
    `OthersKept` from the last three.
* **HarnessProofs**, three parts.
  * HarnessSetup. `HarnessInv` relates the files to the manifest a command is
    going to publish. Between commands the files are the user's pieces and what
    the manifest records (`Wholly`, in `Calm`). Of a plan that is left: each path
    is written once (`Once`); each step leaves at its path what the manifest to
    publish says, and never less than the user's (`Planned`); and what it does not
    write is there already (`LeadTo`). That is why publishing last makes the
    manifest exact. Of a rollback: the snapshots are the files at the start, and
    what has no snapshot has not changed (`Started`), so a command that says it
    wrote nothing or rolled all back has the files and the manifest it began with
    (`Back`). While a command writes the user does not, so what `apply` computed
    when it planned is still what it should write. Gives `SetupIsExact` for any
    number of commands, edits, faults and releases, and for Hermes too.
  * The theorem has a hypothesis, `"plist" \notin OwnParts`, and it is necessary:
    a user who had the very launchd definition himself before onboarding loses
    it to the next upgrade, which writes every changed definition although its
    record says `added: false` (`setup.py:1570`; section 5). With `"plist"` in
    `OwnParts` TLC finds `UsersKept` violated. The fragments and links of the
    user's own, for which setup does ask `added` or has one payload, are covered.
  * RCHost. `HostInv`: a command in the middle of an enable or a disable is at one
    of the points of that change, each with what is then on the disk
    (`HostEnabling`, `HostDisabling`); otherwise hooks, definition and state
    agree, unless a rollback was cut short. Gives `HostIsWhole`.
  * CodexService. `ServiceInv`: the two locks are held exactly where a launcher or
    setup holds them (`Locks`); setup leaves its marker before it changes
    anything (`Marked`), and what it saved would be marked as well if it were put
    back, until a rollback has missed the definition (`Undoable`); and each place
    relies on what its locks keep still (`Relies`). `ConvergeInv` counts setup's
    files as it found them until it is over (`PlistFound` and the others): nobody
    reads them before, and it may take back what it wrote. It adds a number to
    each launcher, `Left`: the attempts it still needs if nothing comes in its
    way, read off where it stands and what the services lack. A newcomer needs at most three; its own attempt lowers the
    number; a step of another launcher never raises it, because every repair,
    whoever makes it, is one the others need not make; a disturbance raises it
    by at most one. So attempts used and left are at most three and the number of
    disturbances (`Paid`), and six attempts are used up by the third at the
    earliest. Gives `ServicesAreAsked` and `ServicesAreSafe`, for any number of
    launchers.
* **CodexBindingProofs.** `BindingInv`, each part with its lemma per actor: threads
  that are spoken of were born (`Mentioned`); a child has one hook and that
  leaves one request (`Children`), so a child's request is gone when its intent
  is handed back; what waits is of the thread that owns the intent, except
  between the hook's two writes (`Following`); a request in hand is still the
  one on disk or has become a clear, and what was bound from it is bound unless
  a hand has been there (`Reading`); who holds `claim.lock` shared is about the
  lease of the record (in `BindingTypes`); and a thread bound by request is current,
  or a clear is due that this or the next iteration meets before it wakes
  (`Superseding`). Gives `QueueInOrder`, `SupersededNotWoken`, `HandKept`,
  `ReplacedNotBound`.

The assumptions on constants are named in the modules and are conjuncts of the
sums' `ASSUME`s. Beyond bounds that are naturals and disjoint sets they say that
the sets of wrappers and links an installation manages are finite (they are lists
in the code), and that the model values for "nothing there" and "the user's own"
are none of the values the code writes.

Type invariants: `TypeCorrect` where a module is proved alone, and as conjuncts of
`UpgradeExact`, `InstallWhole`, `SetupExact`, `HostWhole` and `ServicesSafe` where
several are. Those of ProjectAddress (`ATypeOK`) and CodexBinding (`TypeOK`) are
theorems and no properties of the runs.

Only model-checked:

* Liveness (`WriterProceeds`, `Notified`, `HandedBack`, `ManualBindRoutes`): out of
  the prover's reach.

Every invariant and every safety property of a step that a passing run checks is
a theorem. One has a hypothesis, because the code does not ensure it (section
5): `SetupExact` that `"plist" \notin OwnParts`.

## 5. Where the code and its texts disagree

Two disagreements have a run that shows them:

1. `codex_fresh_thread_refused`: after a relaunch with a fresh thread the bridge
   adopts the dead lease's thread onto the new lease before the fresh thread's
   first turn; the request of that turn is then rejected and consumed, and mail
   wakes the old thread. The installation guide says that a fresh thread binds
   on its first turn even if it is delayed.
2. `migration_race`: a migrate delayed between the layout lock and its purge
   deletes whatever then has the name of its retired directory, which a later
   migrate may have made again to preserve mail that somebody wrote by hand.

Others were met while modelling. No listed run states the text that is
contradicted; the models contain the behaviour unless the item says otherwise:

* `_rtruntime.py:1069` says removal and claim are serialised; `rmtree` deletes
  `claim.lock` itself, and a launcher that opens a new file publishes a lease
  into the directory being removed (ClaimLock's properties hold up to there).
  The removal does not take the seats' state locks either: a wake record checked
  while the owner lived can be written after the removal, over the lease of a
  new launcher (`Reclaim` in SeatLease waits until nothing is being written).
* Self-healing is said to leave no seat deaf (`rt-wait-inbox:500`). When
  clearing the slot fails as well, the restarted watcher finds its own live pid
  and stands down as a duplicate of itself (`excuse = "uncleared"`).
* A changed generation is said to receive a fresh set of attempts
  (`docs/compatibility.md:262`); the paused breaker leaves no watcher to notice
  the change. "At most one Stop-hook retry": a hook that scanned before the mail
  came finds it while polling and retries again; `BoundedRetries` is what holds.
* A cleanup is to preserve changed local mail (`_rtmigrate.py:2586`), but the
  tree is not read again before it is renamed (`_rtmigrate.py:2525`): mail
  written by hand after the look at `_rtmigrate.py:3193`, or at
  `_rtmigrate.py:2571` in a repair, is retired as unchanged and purged.
* Lookups under the layout lock do not reconcile (`_rtlib.py:584`): a moved
  project and a copy of it may both be served until a command reindexes, or a
  lookup without that lock does (`ServeStray` in Registry).
* Mail is written to the path its lookup found (`rt-say:1312`): a directory that
  the user puts there in between receives it (`Publish` in ProjectAddress).
* The rollback of a failed `apply` goes on when the new launchd definition cannot
  be taken back, and takes the marker away that says it is not loaded
  (`setup.py:539`); if the manifest cannot be taken back either, a seat is
  published on it (`leftover` in CodexService).
* A killed `apply` leaves pieces without a record, and a leftover reload marker
  refuses the next one (`setup.py:2811`); an edit between planning and writing
  is lost (`setup.py:2021`; not in the model, whose users edit between
  commands); a Codex definition the user had himself is
  rewritten by an upgrade (`setup.py:1570`), where `docs/install.md:232` says
  that apply preserves configuration that was there (the hypothesis of
  `SetupIsExact`); a failed apply reports itself
  rolled back although the launchd variable stays (`setup.py:2801`).
* A failed or killed upgrade of the package cannot be repeated when it replaced
  a wrapper before publishing the manifest (`cli.py:1310`); paths are checked
  before the build and not again (`cli.py:1307`).
* An install killed between the rename of `~/.roundtable` and its link never
  makes the link (`cli.py:668`); one killed among the command links refuses its
  rerun (`cli.py:579`).
* An `enable` killed before the state file leaves hooks and a definition
  without an owner, which a login loads (`_rtrchost.py:828`); a host enabled
  during an uninstall is orphaned (`cli.py:1497`). `stray` and `Races` in RCHost
  exempt exactly these.
* A bridge killed between the removal of a child's request and the release of
  the intent leaves the intent with the child (`rt-codex-wake:1444`), where the
  comment hands it back. The same comment names sub-agent threads: one whose
  source is no TUI is refused before the check for children (`rt-codex-wake:1215`),
  its request is consumed, and the intent stays with it, without any kill
  (`Reject` in CodexBinding; `HandedBack` is about children).
* A bind by hand does not lift a quarantine that the bridge itself remembers
  (`rt-codex-wake:2578`): when the lease of the replaced request ends before the
  replacement is consumed, mail wakes nobody until the next request is
  (`ManualBindRoutes` exempts a quarantine of an earlier lease).
* A thread is bound although the owner of its lease died while the app-server
  was asked (`rt-codex-wake:1388`): the binding stays when the request is refused
  (`rt-codex-wake:1394`), and the next launch adopts it.

## 6. What is not modelled

See `components` in `PROJECT.json`. Left out of all modules: contents, names
and permissions of files, symlink and ownership checks (a refused file is a
process that quits), the JSON formats, logging, wall clock values (a heartbeat
is fresh or old; a deadline may pass at any wait), fsync ordering, and what
belongs to other programs (Claude Code's turns, kernel, launchd). By module:

* WakeWatcher: the layout lock's waits, which only repeat a step; plain terminal
  watchers, `--wait-last-wake-drained`, adoption of unmanaged sessions.
* ReplyAlarm: an answer that arrives between the look and the write may still
  be alarmed, as in the code; durations and their parsing.
* Registry: markers are lost only while no command runs; rows damaged by hand,
  the handling of Git's ignore files. Resolution when the registry is missing.
* RegistryUpgrade: hand-edited old files that the parser refuses.
* Installation: the build of a version directory is one step with the check
  before it; digest and onboarding refusals; a killed first install leaves
  wrappers that uninstall calls already uninstalled; a failed upgrade's
  directory is orphaned; uninstall does not overlap installs.
* PrefixMigration: a kill between its last two publications, which loses the
  list of links to restore; uninstall's removal of the legacy link; old tools
  that recreate `~/.roundtable`.
* HarnessSetup: a failing `launchctl unsetenv`, edits by the user while a command
  writes. Hermes is in the module and in the proof, but in no run.
* RCHost: edits of the settings only while the guard is free.
* CodexService: the low-level service commands, `setup remove --unload-codex`, and
  an app-server that runs outside launchd; a release number stands for a
  definition.
* CodexBinding: one project; the wake state machine of the bridge (busy threads,
  backoff, breaker, needs human) is one step; `discover` and bindings without a
  lease.
* Whole components: surface selection, diagnostics, project tools, legacy cmux
  tools, stop gate and advisory, adapters, release and lab scripts. They read
  state and report, call other programs in sequence, or belong to other hosts.

The hazards of PROJECT.json without a property carry a note that says why.
Others that were seen and are left to the code's own judgement: two rt-acks of
one message both send a receipt; every Stop hook of a session whose lease was
lost ends with status 2 and begins a turn, outside the breaker
(`rt-wait-inbox:1276`); `rt-worktree` reads the blocking seats before its
confirmation and not again (`rt-worktree:997`); two drains of one receipt race
between link and unlink and one reports a failure (ReplyAlarm has this).

## 7. What could follow

1. The wake state machine of `rt-codex-wake` per thread, composed with the
   lease of SeatLease and the binding of CodexBinding.
2. Association of native roots with leases (`_rtnative.py`), and the removal of
   a worktree from confirmation to `git worktree remove`.
