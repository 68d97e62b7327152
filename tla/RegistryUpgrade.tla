-------------------------- MODULE RegistryUpgrade --------------------------
(***************************************************************************)
(* rt-projects upgrade: the root-only registry of the first schema becomes *)
(* the one keyed by UUID.  One command, under the registry lock: parse all *)
(* rows, plan a UUID for each (its marker's, or a new one), back the old   *)
(* file up, write the markers one by one, replace the registry.  It may be *)
(* killed or fail anywhere and is simply run again.                        *)
(* Source: upgrade_project_registry in _rtlib.py.                          *)
(***************************************************************************)
EXTENDS Naturals, FiniteSets

CONSTANTS
  Procs,        \* upgrades that may run at the same time
  Roots,        \* project roots
  MaxFaults,    \* kills and errors
  MaxEdits,     \* rows an older release may still add to the old file
  Uuids,        \* UUIDs, as many as can be in use at a time
  none

UpgradeAssumption ==
  /\ MaxFaults \in Nat /\ MaxEdits \in Nat
  /\ none \notin Procs \cup Uuids /\ Uuids # {}

VARIABLES
  schema,       \* of projects.yaml
  legacy,       \* the roots the old file lists
  rows,         \* the new file: the UUID of each root (none: no row)
  backup,       \* projects.yaml.v1.backup: {} until it is published
  mark,         \* the marker in each root (none: no marker)
  present,      \* the roots that are there
  lock, up, faults, edits

vars == <<schema, legacy, rows, backup, mark, present, lock, up, faults, edits>>

NoRows == [r \in Roots |-> none]
Idle == [pc |-> "idle", plan |-> NoRows, left |-> {}]

\* Markers may be there already: of an earlier attempt, or copied along with
\* a directory.
Init ==
  /\ schema = "v1"
  /\ legacy \in SUBSET Roots \ {{}}
  /\ rows = NoRows
  /\ backup = {}
  /\ mark \in [Roots -> {none, CHOOSE u \in Uuids: TRUE}]
  /\ present = Roots
  /\ lock = none
  /\ up = [c \in Procs |-> Idle]
  /\ faults = 0
  /\ edits = 0

-----------------------------------------------------------------------------
(* Others.                                                                 *)

\* An older release registers one more root while the file is of its schema.
LegacyAdd(r) ==
  /\ edits < MaxEdits /\ edits' = edits + 1
  /\ schema = "v1" /\ lock = none
  /\ r \notin legacy
  /\ legacy' = legacy \cup {r}
  /\ UNCHANGED <<schema, rows, backup, mark, present, lock, up, faults>>

\* A root is taken away, or comes back.
Unmount(r) ==
  /\ edits < MaxEdits /\ edits' = edits + 1
  /\ r \in present
  /\ present' = present \ {r}
  /\ UNCHANGED <<schema, legacy, rows, backup, mark, lock, up, faults>>

Mount(r) ==
  /\ r \notin present
  /\ present' = present \cup {r}
  /\ UNCHANGED <<schema, legacy, rows, backup, mark, lock, up, faults, edits>>

-----------------------------------------------------------------------------
(* The upgrade.                                                            *)

Kept == <<schema, legacy, rows, backup, mark, present, faults, edits>>

Acquire(c) ==
  /\ up[c].pc = "idle" /\ schema = "v1"
  /\ lock = none
  /\ lock' = c
  /\ up' = [up EXCEPT ![c].pc = "plan"]
  /\ UNCHANGED Kept

\* The plan: each root keeps the UUID its marker has, the others get new ones;
\* two roots with one identity are refused, and so is a missing root.
Plans ==
  LET new == {r \in legacy: mark[r] = none}
      used == {mark[r]: r \in Roots}
      whole(f) == [r \in Roots |->
                    IF r \notin legacy THEN none ELSE IF r \in new THEN f[r] ELSE mark[r]]
  IN {p \in {whole(f): f \in [new -> Uuids \ used]}:
        \A q, r \in legacy: p[q] = p[r] => q = r}

Plan(c) ==
  /\ up[c].pc = "plan"
  /\ legacy \subseteq present
  /\ \E p \in Plans:
       up' = [up EXCEPT ![c] = [pc |-> "backup", plan |-> p, left |-> legacy]]
  /\ UNCHANGED <<schema, legacy, rows, backup, mark, present, lock, faults, edits>>

\* The exact old file is published beside the registry, or found there.
Backup(c) ==
  /\ up[c].pc = "backup"
  /\ backup \in {{}, legacy}
  /\ backup' = legacy
  /\ up' = [up EXCEPT ![c].pc = "mark"]
  /\ UNCHANGED <<schema, legacy, rows, mark, present, lock, faults, edits>>

MarksLeft(c) == up[c].left # {}

\* One marker is written, or found as planned.
Mark(c) ==
  /\ up[c].pc = "mark"
  /\ \E r \in up[c].left \cap present:
       /\ mark[r] \in {none, up[c].plan[r]}
       /\ mark' = [mark EXCEPT ![r] = up[c].plan[r]]
       /\ up' = [up EXCEPT ![c].left = @ \ {r}]
  /\ UNCHANGED <<schema, legacy, rows, backup, present, lock, faults, edits>>

\* Mutant: the registry is replaced as soon as one marker is written.
FlipEarly(c) ==
  /\ up[c].pc = "mark"
  /\ up[c].left # legacy
  /\ legacy \subseteq present
  /\ schema' = "v2"
  /\ rows' = up[c].plan
  /\ up' = [up EXCEPT ![c].pc = "sync"]
  /\ UNCHANGED <<legacy, backup, mark, present, lock, faults, edits>>

\* All guards hold: the registry is replaced.
Flip(c) ==
  /\ up[c].pc = "mark"
  /\ ~MarksLeft(c)
  /\ legacy \subseteq present
  /\ schema' = "v2"
  /\ rows' = up[c].plan
  /\ up' = [up EXCEPT ![c].pc = "sync"]
  /\ UNCHANGED <<legacy, backup, mark, present, lock, faults, edits>>

\* The directory is synced, the guards are looked at once more.
Finish(c) ==
  /\ up[c].pc = "sync"
  /\ legacy \subseteq present
  /\ lock' = none
  /\ up' = [up EXCEPT ![c] = Idle]
  /\ UNCHANGED Kept

\* The upgrade cannot go on: identities collide, a root is away, the backup
\* is of another file.
Refuse(c) ==
  /\ \/ up[c].pc = "plan" /\ (~legacy \subseteq present \/ Plans = {})
     \/ up[c].pc = "backup" /\ backup \notin {{}, legacy}
     \/ up[c].pc = "mark" /\ ~legacy \subseteq present
     \/ up[c].pc = "sync" /\ ~legacy \subseteq present
  /\ lock' = none
  /\ up' = [up EXCEPT ![c] = Idle]
  /\ UNCHANGED Kept

\* A kill or an I/O error, at any step.
Die(c) ==
  /\ up[c].pc # "idle"
  /\ faults < MaxFaults /\ faults' = faults + 1
  /\ lock' = none
  /\ up' = [up EXCEPT ![c] = Idle]
  /\ UNCHANGED <<schema, legacy, rows, backup, mark, present, edits>>

Step(c) ==
  Acquire(c) \/ Plan(c) \/ Backup(c) \/ Mark(c) \/ Flip(c) \/ Finish(c) \/ Refuse(c)

Next ==
  \/ \E r \in Roots: LegacyAdd(r) \/ Unmount(r) \/ Mount(r)
  \/ \E c \in Procs: Step(c) \/ Die(c)

Spec == Init /\ [][Next]_vars

-----------------------------------------------------------------------------

TypeOK ==
  /\ schema \in {"v1", "v2"}
  /\ legacy \in SUBSET Roots
  /\ rows \in [Roots -> Uuids \cup {none}]
  /\ backup \in SUBSET Roots
  /\ mark \in [Roots -> Uuids \cup {none}]
  /\ present \in SUBSET Roots
  /\ lock \in Procs \cup {none}
  /\ up \in [Procs -> [pc: {"idle", "plan", "backup", "mark", "sync"},
                       plan: [Roots -> Uuids \cup {none}], left: SUBSET Roots]]
  /\ faults \in 0..MaxFaults /\ edits \in 0..MaxEdits

\* However often the upgrade was killed and rerun, the new registry lists
\* exactly the old roots, each under the UUID in its own marker, no UUID twice,
\* and the backup is exactly the file it replaced.
UpgradeExact ==
  schema = "v2" =>
    /\ backup = legacy
    /\ \A r \in Roots: (rows[r] # none) <=> (r \in legacy)
    /\ \A r \in legacy: rows[r] = mark[r]
    /\ \A q, r \in legacy: rows[q] = rows[r] => q = r

\* A marker, once there, keeps its UUID through every attempt.
MarkersFinal ==
  [][\A r \in Roots: mark[r] # none => mark'[r] = mark[r]]_vars

=============================================================================
