------------------------------ MODULE Registry ------------------------------
(***************************************************************************)
(* The project registry: which UUID owns which directory.  A project keeps *)
(* its UUID in .roundtable/project.json (the marker); projects.yaml holds  *)
(* a row per UUID.  Directories are moved, copied, deleted and restored by *)
(* the user, markers get lost, and commands register, tombstone, reindex   *)
(* and resolve projects, serialised only where they hold the registry lock *)
(* and checked only by the guards on the directory they opened.            *)
(* Source: _rtlib.py.                                                      *)
(***************************************************************************)
EXTENDS Naturals, FiniteSets

CONSTANTS
  Procs,        \* commands that may run at the same time
  Paths,        \* places a project directory can be at
  Dirs,         \* project directories, as the file system knows them (inodes)
  Groups,       \* Git repositories, by their common directory
  GroupOf,      \* [Dirs -> Groups]
  Ops,          \* the operations this instance runs
  MaxUuid,      \* how many UUIDs may be minted
  MaxMoves,     \* how often the user changes the directories
  none

ASSUME RegistryAssumption ==
  /\ GroupOf \in [Dirs -> Groups]
  /\ Ops \subseteq {"add", "rm", "resolve", "locked"}
  /\ MaxUuid \in Nat /\ MaxMoves \in Nat
  /\ none \notin Procs \cup Paths \cup Dirs \cup Groups

VARIABLES
  reg,          \* projects.yaml: the row of each UUID
  at,           \* which directory is visible at each path
  mark,         \* the UUID in each directory's identity marker (0: no marker)
  lock,         \* who holds projects.yaml.lock
  minted,       \* UUIDs minted so far, 1..minted
  pr,           \* the commands
  moves,        \* the user's changes so far
  served,       \* per UUID, the directory its row last led a lookup to, since
                \* the user changed the tree
  owner,        \* per UUID, the directory its row was last written for, until
                \* that directory is marked with another UUID
  raced         \* history: did the user do so while a command ran?

vars == <<reg, at, mark, lock, minted, pr, moves, served, owner, raced>>
History == <<owner, raced>>

Uuids == 1..MaxUuid
Rows == {r \in [st: {"none", "active", "tomb"}, path: Paths \cup {none},
                group: Groups \cup {none}]:
           r.st = "active" => r.path \in Paths}
NoRow == [st |-> "none", path |-> none, group |-> none]
Idle == [pc |-> "idle", op |-> none, root |-> none, dir |-> none, uuid |-> 0,
         old |-> 0, doc |-> [u \in Uuids |-> NoRow]]

Init ==
  /\ reg = [u \in Uuids |-> NoRow]
  /\ at \in [Paths -> Dirs \cup {none}]
  /\ \A p, q \in Paths: at[p] = at[q] /\ at[p] # none => p = q
  /\ mark = [d \in Dirs |-> 0]
  /\ lock = none
  /\ minted = 0
  /\ pr = [c \in Procs |-> Idle]
  /\ moves = 0
  /\ served = [u \in Uuids |-> none]
  /\ owner = [u \in Uuids |-> none]
  /\ raced = FALSE

-----------------------------------------------------------------------------
(* What a command sees of the directories and of a parsed registry.        *)

Available(path) == at[path] # none

Active(u) == reg[u].st = "active"

ActiveAt(path) == {u \in Uuids: Active(u) /\ reg[u].path = path}

\* The row's path shows a directory that carries the row's UUID.
Witnessed(u) == Available(reg[u].path) /\ mark[at[reg[u].path]] = u

\* A project without a marker may be a moved one, so nothing may be minted or
\* guessed for it while an active row has no witness.
AllWitnessed == \A u \in Uuids: Active(u) => Witnessed(u)

\* The directory a command opened is still the one visible at its root.
Guarded(c) == pr[c].dir = none \/ at[pr[c].root] = pr[c].dir

RowFor(c, u) == [st |-> "active", path |-> pr[c].root, group |-> GroupOf[pr[c].dir]]

Quiet == \A c \in Procs: pr[c].pc = "idle"

-----------------------------------------------------------------------------
(* The user.                                                               *)

UserChange ==
  /\ moves < MaxMoves
  /\ moves' = moves + 1
  /\ raced' = (raced \/ ~Quiet)
  /\ served' = [u \in Uuids |-> none]
  /\ UNCHANGED <<reg, lock, minted, pr, owner>>

\* A directory is moved away, deleted or unmounted.
TakeAway(p) ==
  /\ UserChange
  /\ Available(p)
  /\ at' = [at EXCEPT ![p] = none]
  /\ UNCHANGED mark

\* A directory appears at a path: moved there, restored, unpacked.
PutAt(d, p) ==
  /\ UserChange
  /\ ~Available(p)
  /\ \A q \in Paths: at[q] # d
  /\ at' = [at EXCEPT ![p] = d]
  /\ UNCHANGED mark

\* A project is copied, marker and all, to a new directory.
Copy(d, e, p) ==
  /\ UserChange
  /\ mark[d] # 0
  /\ mark[e] = 0
  /\ \A q \in Paths: at[q] # e
  /\ \A c \in Procs: pr[c].dir # e
  /\ \A u \in Uuids: owner[u] # e
  /\ ~Available(p)
  /\ mark' = [mark EXCEPT ![e] = mark[d]]
  /\ at' = [at EXCEPT ![p] = e]

\* The marker, which Git ignores, is cleaned away.  Never under a running
\* command: guards re-check the directory, not a marker read before the lock.
LoseMarker(d) ==
  /\ UserChange
  /\ Quiet
  /\ mark[d] # 0
  /\ mark' = [mark EXCEPT ![d] = 0]
  /\ UNCHANGED at

User ==
  \/ \E p \in Paths: TakeAway(p)
  \/ \E d \in Dirs, p \in Paths: PutAt(d, p)
  \/ \E d, e \in Dirs, p \in Paths: Copy(d, e, p)
  \/ \E d \in Dirs: LoseMarker(d)

-----------------------------------------------------------------------------
(* Opening.  add reads the marker under the lock, the others before it.    *)

\* Any command opens and holds its project's directory.
OpenDir(c, op, p) ==
  /\ pr[c].pc = "idle"
  /\ op \in Ops
  /\ Available(p)
  /\ op \in {"resolve", "locked"} => mark[at[p]] # 0
  /\ pr' = [pr EXCEPT ![c] =
       [Idle EXCEPT !.op = op, !.root = p, !.dir = at[p],
                    !.pc = IF op \in {"add", "rm"} THEN "wait" ELSE "look",
                    !.uuid = IF op = "add" THEN 0 ELSE mark[at[p]]]]
  /\ UNCHANGED <<reg, at, mark, lock, minted, moves, served, History>>

\* rm alone also accepts a root that is gone: the recovery path for projects
\* deleted from disk.
OpenMissing(c, p) ==
  /\ pr[c].pc = "idle"
  /\ "rm" \in Ops
  /\ ~Available(p)
  /\ pr' = [pr EXCEPT ![c] = [Idle EXCEPT !.op = "rm", !.root = p, !.pc = "wait"]]
  /\ UNCHANGED <<reg, at, mark, lock, minted, moves, served, History>>


\* Mutant: the registry is updated without waiting for its lock.
AcquireUnlocked(c) ==
  /\ pr[c].pc = "wait"
  /\ lock' = c
  /\ pr' = [pr EXCEPT ![c].pc = "decide"]
  /\ UNCHANGED <<reg, at, mark, minted, moves, served, History>>

Acquire(c) ==
  /\ pr[c].pc = "wait"
  /\ lock = none
  /\ lock' = c
  /\ pr' = [pr EXCEPT ![c].pc = "decide"]
  /\ UNCHANGED <<reg, at, mark, minted, moves, served, History>>

\* A refusal, a lock timeout, an I/O error or a kill: the command ends where
\* it stands, its flock is released, and whatever it had written stays.
Stop(c) ==
  /\ pr[c].pc # "idle"
  /\ pr' = [pr EXCEPT ![c] = Idle]
  /\ lock' = IF lock = c THEN none ELSE lock
  /\ UNCHANGED <<reg, at, mark, minted, moves, served, History>>

-----------------------------------------------------------------------------
(* The mutators of the registry document, run under its lock.              *)

Plan(c, pc, u, old, doc) ==
  /\ pr' = [pr EXCEPT ![c].pc = pc, ![c].uuid = u, ![c].old = old, ![c].doc = doc]
  /\ UNCHANGED <<reg, at, mark, lock, moves, served, History>>

Deciding(c, op) == pr[c].pc = "decide" /\ pr[c].op = op

\* The project is registered here already.
AddNothing(c) ==
  LET m == mark[pr[c].dir] IN
  /\ Deciding(c, "add")
  /\ ActiveAt(pr[c].root) = {m}
  /\ Plan(c, "sync", m, 0, reg)
  /\ UNCHANGED minted

AddMoveOccupied(m) == Available(reg[m].path)

\* The marker's UUID is active at a path where nothing is any more: a move.
AddMoved(c) ==
  LET m == mark[pr[c].dir] IN
  /\ Deciding(c, "add")
  /\ ActiveAt(pr[c].root) = {}
  /\ m # 0 /\ Active(m)
  /\ ~AddMoveOccupied(m)
  /\ Plan(c, "write", m, 0, [reg EXCEPT ![m] = RowFor(c, m)])
  /\ UNCHANGED minted


\* Mutant: a tombstoned marker is taken up again as well.
AddLeftoverOrTombstoned(c) ==
  LET m == mark[pr[c].dir] IN
  /\ Deciding(c, "add")
  /\ ActiveAt(pr[c].root) = {}
  /\ m # 0 /\ reg[m].st \in {"none", "tomb"}
  /\ Plan(c, "mark", m, 0, reg)
  /\ UNCHANGED minted

\* A marker no row knows, left by a registration that died, is taken up again.
AddLeftover(c) ==
  LET m == mark[pr[c].dir] IN
  /\ Deciding(c, "add")
  /\ ActiveAt(pr[c].root) = {}
  /\ m # 0 /\ reg[m].st = "none"
  /\ Plan(c, "mark", m, 0, reg)
  /\ UNCHANGED minted


\* Mutant: a missing marker is taken for a new project.
MayMintUnwitnessed(c) ==
  LET m == mark[pr[c].dir] IN m # 0 => reg[m].st = "tomb"

MayMintFor(c) ==
  LET m == mark[pr[c].dir] IN
  IF m = 0 THEN AllWitnessed ELSE reg[m].st = "tomb"


\* A new UUID, for a project without a marker or with a tombstoned one.
AddMinted(c) ==
  /\ Deciding(c, "add")
  /\ ActiveAt(pr[c].root) = {}
  /\ MayMintFor(c)
  /\ minted < MaxUuid
  /\ minted' = minted + 1
  /\ Plan(c, "mark", minted + 1, mark[pr[c].dir], reg)

MarkAllowed(c) == mark[pr[c].dir] \in {0, pr[c].old, pr[c].uuid}

\* _write_project_identity: guard, re-read, link or replace the marker.
WriteMarker(c) ==
  /\ pr[c].pc = "mark"
  /\ Guarded(c)
  /\ MarkAllowed(c)
  /\ mark' = [mark EXCEPT ![pr[c].dir] = pr[c].uuid]
  /\ owner' = [u \in Uuids |->
                 IF u # pr[c].uuid /\ owner[u] = pr[c].dir THEN none ELSE owner[u]]
  /\ pr' = [pr EXCEPT ![c].pc = "marked"]
  /\ UNCHANGED <<reg, at, lock, minted, moves, served, raced>>

\* The guard and the marker are read once more before the row is added.
ProveMarker(c) ==
  /\ pr[c].pc = "marked"
  /\ Guarded(c)
  /\ mark[pr[c].dir] = pr[c].uuid
  /\ Plan(c, "write", pr[c].uuid, 0, [reg EXCEPT ![pr[c].uuid] = RowFor(c, pr[c].uuid)])
  /\ UNCHANGED minted

\* The row a removal may tombstone: the marker's own, unless that project is
\* live elsewhere; or, for a path without a project, the one at the path.
Removable(c) ==
  IF pr[c].uuid # 0
  THEN {u \in {pr[c].uuid}: Active(u) /\ (reg[u].path # pr[c].root => ~Available(reg[u].path))}
  ELSE IF pr[c].dir = none THEN ActiveAt(pr[c].root) ELSE {}

Tombstone(c) ==
  /\ Deciding(c, "rm")
  /\ \E u \in Removable(c):
       Plan(c, "write", u, 0,
            [reg EXCEPT ![u].st = "tomb", ![u].path = pr[c].root])
  /\ UNCHANGED minted

\* Removing what is tombstoned already, or a path no active row names.
TombstoneNothing(c) ==
  /\ Deciding(c, "rm")
  /\ IF pr[c].uuid # 0 THEN reg[pr[c].uuid].st = "tomb"
     ELSE /\ ActiveAt(pr[c].root) = {}
          /\ pr[c].dir = none \/ AllWitnessed
  /\ Plan(c, "sync", pr[c].uuid, 0, reg)
  /\ UNCHANGED minted

ReindexConflict(c) ==
  LET u == pr[c].uuid IN
  /\ reg[u].path # pr[c].root
  /\ Available(reg[u].path) \/ ActiveAt(pr[c].root) # {}

\* _reindex_project_identity: the row follows the directory that carries it.
Reindex(c) ==
  LET u == pr[c].uuid IN
  /\ Deciding(c, "resolve")
  /\ Active(u)
  /\ ~ReindexConflict(c)
  /\ LET doc == [reg EXCEPT ![u] = RowFor(c, u)] IN
     Plan(c, IF doc = reg THEN "sync" ELSE "write", u, 0, doc)
  /\ UNCHANGED minted

-----------------------------------------------------------------------------
(* _write_projects_doc and the end of _update_project_registry.            *)

\* The last guard before the rename.
PassGuard(c) ==
  /\ pr[c].pc = "write"
  /\ Guarded(c)
  /\ pr' = [pr EXCEPT ![c].pc = "rename"]
  /\ UNCHANGED <<reg, at, mark, lock, minted, moves, served, History>>

\* os.replace: the new document is the registry.
Rename(c) ==
  /\ pr[c].pc = "rename"
  /\ reg' = pr[c].doc
  /\ owner' = [owner EXCEPT ![pr[c].uuid] =
                 IF pr[c].op = "rm" THEN none ELSE pr[c].dir]
  /\ pr' = [pr EXCEPT ![c].pc = "sync"]
  /\ UNCHANGED <<at, mark, lock, minted, moves, served, raced>>


\* Mutant: success is reported without the last guard.
ReportUnguarded(c) ==
  /\ pr[c].pc = "sync"
  /\ lock' = none
  /\ pr' = [pr EXCEPT ![c] =
       IF pr[c].op = "resolve"
       THEN [@ EXCEPT !.pc = "again", !.doc = Idle.doc]
       ELSE Idle]
  /\ UNCHANGED <<reg, at, mark, minted, moves, served, History>>

\* The directory is synced and the guard has the last word: add and rm report
\* success, a resolution looks at the registry again.
Report(c) ==
  /\ pr[c].pc = "sync"
  /\ Guarded(c)
  /\ lock' = none
  /\ pr' = [pr EXCEPT ![c] =
       IF pr[c].op = "resolve"
       THEN [@ EXCEPT !.pc = "again", !.doc = Idle.doc]
       ELSE Idle]
  /\ UNCHANGED <<reg, at, mark, minted, moves, served, History>>

-----------------------------------------------------------------------------
(* resolve_project_mailbox_checked.                                        *)


\* The marker's row is the one active claim on this directory.
Resolvable(c) ==
  LET u == pr[c].uuid IN
  /\ Active(u)
  /\ reg[u].path # pr[c].root => ~Available(reg[u].path)
  /\ \A v \in Uuids \ {u}: Active(v) => reg[v].path \notin {reg[u].path, pr[c].root}

Drifted(c) ==
  \/ reg[pr[c].uuid].path # pr[c].root
  \/ reg[pr[c].uuid].group # GroupOf[pr[c].dir]

\* A row that leads elsewhere is reindexed first; a lookup under the layout
\* lock ("locked") takes its own directory for the project, in memory only.
Look(c) ==
  /\ pr[c].pc \in {"look", "again"}
  /\ Resolvable(c)
  /\ Drifted(c) => pr[c].pc = "look"
  /\ pr' = [pr EXCEPT ![c].pc =
       IF ~Drifted(c) THEN "serve"
       ELSE IF pr[c].op = "locked" THEN "stray" ELSE "wait"]
  /\ UNCHANGED <<reg, at, mark, lock, minted, moves, served, History>>

\* The mailbox of the UUID is handed out if the directory is still in place.
Serve(c) ==
  /\ pr[c].pc = "serve"
  /\ Guarded(c)
  /\ served' = [served EXCEPT ![pr[c].uuid] = pr[c].dir]
  /\ pr' = [pr EXCEPT ![c] = Idle]
  /\ UNCHANGED <<reg, at, mark, lock, minted, moves, History>>

\* The same for a directory the row does not lead to.
ServeStray(c) ==
  /\ pr[c].pc = "stray"
  /\ Guarded(c)
  /\ pr' = [pr EXCEPT ![c] = Idle]
  /\ UNCHANGED <<reg, at, mark, lock, minted, moves, served, History>>

Command(c) ==
  \/ \E op \in Ops, p \in Paths: OpenDir(c, op, p)
  \/ \E p \in Paths: OpenMissing(c, p)
  \/ Acquire(c) \/ Stop(c)
  \/ AddNothing(c) \/ AddMoved(c) \/ AddLeftover(c) \/ AddMinted(c)
  \/ WriteMarker(c) \/ ProveMarker(c)
  \/ Tombstone(c) \/ TombstoneNothing(c) \/ Reindex(c)
  \/ PassGuard(c) \/ Rename(c) \/ Report(c)
  \/ Look(c) \/ Serve(c) \/ ServeStray(c)

Next == User \/ \E c \in Procs: Command(c)

Spec == Init /\ [][Next]_vars

-----------------------------------------------------------------------------
(* Properties.                                                             *)

TypeOK ==
  /\ reg \in [Uuids -> Rows]
  /\ at \in [Paths -> Dirs \cup {none}]
  /\ mark \in [Dirs -> 0..MaxUuid]
  /\ lock \in Procs \cup {none}
  /\ minted \in 0..MaxUuid
  /\ pr \in [Procs ->
       [pc: {"idle", "wait", "decide", "mark", "marked", "write", "rename",
             "sync", "look", "again", "serve", "stray"},
        op: Ops \cup {none}, root: Paths \cup {none}, dir: Dirs \cup {none},
        uuid: 0..MaxUuid, old: 0..MaxUuid, doc: [Uuids -> Rows]]]
  /\ moves \in 0..MaxMoves
  /\ served \in [Uuids -> Dirs \cup {none}]
  /\ owner \in [Uuids -> Dirs \cup {none}]
  /\ raced \in BOOLEAN

\* However commands, kills and moved directories interleave, no two active
\* rows claim one path (the strict parser would refuse such a registry to
\* every later writer).
OnePathOneProject ==
  \A u, v \in Uuids: Active(u) /\ Active(v) /\ reg[u].path = reg[v].path => u = v

\* A tombstoned UUID is never active again, by any route: a leftover marker, a
\* copy, a command that decided before the removal.
NeverReborn == \A u \in Uuids: reg[u].st = "tomb" => reg'[u].st = "tomb"

\* No command overwrites an identity that is not tombstoned.
MarkerKept ==
  \A d \in Dirs: mark[d] # 0 /\ mark'[d] \notin {0, mark[d]} /\ moves' = moves
    => reg[mark[d]].st = "tomb"

\* An identity is for good: a dead one stays dead, a living one is never
\* replaced.
IdentityKept == [][NeverReborn /\ MarkerKept]_vars

\* A registration or reindex that reports success has its row active at its
\* root, alone there, and the directory now at that root is the one it opened
\* and carries no other project's identity - although the user may move
\* directories at any moment.
ReportedTrue ==
  [][\A c \in Procs:
       (pr[c].op # "rm" /\ Report(c)) =>
         /\ ActiveAt(pr[c].root) = {pr[c].uuid}
         /\ at[pr[c].root] = pr[c].dir
         /\ mark[pr[c].dir] \in {0, pr[c].uuid}]_vars

\* A row leads lookups to one directory only between two changes of the user:
\* a copy is never served by it beside its original.
ServesOne ==
  \A c \in Procs:
    Serve(c) /\ ~raced => served[pr[c].uuid] \in {none, pr[c].dir}

\* A directory the row does not lead to is taken for the project only while the
\* row has led to no other: of two that were moved, or copied, the one that is
\* looked up by its row shuts the other out.
StraysFirst ==
  \A c \in Procs:
    Look(c) /\ pr[c].op = "locked" /\ Drifted(c) /\ ~raced =>
      served[pr[c].uuid] \in {none, pr[c].dir}

\* A directory whose identity is active is never marked with a second one, not
\* even when its marker was lost and it was moved - unless a copy has taken the
\* first.
MintsOne ==
  \A c \in Procs:
    WriteMarker(c) /\ ~raced =>
      \A v \in Uuids \ {pr[c].uuid}:
        Active(v) /\ owner[v] = pr[c].dir => Witnessed(v)

\* As long as the user changes directories only between commands, a project's
\* row and its directory belong together one to one.  (Before any lookup by the
\* row, lookups under the layout lock may serve a moved project and its copy.)
OneToOne == [][ServesOne /\ StraysFirst /\ MintsOne]_vars

-----------------------------------------------------------------------------
=============================================================================
