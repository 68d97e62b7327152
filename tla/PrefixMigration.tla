--------------------------- MODULE PrefixMigration --------------------------
(***************************************************************************)
(* The first install of a release that lives in ~/.pneu over one that      *)
(* lives in ~/.roundtable.  The directory is renamed and a link left in    *)
(* its place; then the install manifest and the command links, the harness *)
(* configuration, the service definition, the harness links and the setup  *)
(* manifest are rewritten to the new name one by one, and at the end of    *)
(* the install the harness links are made anew.  Two installs may run at a *)
(* time, and any step may be the last one of its command.                  *)
(* Source: pneu_packaging/cli.py.                                          *)
(***************************************************************************)
EXTENDS Naturals, FiniteSets

CONSTANTS
  Procs,           \* installs that may run at the same time
  Commands,        \* links to the commands, recorded by the install manifest
  HLinks,          \* links in the harnesses' directories
  Added,           \* those of them that setup made itself
  MaxEdits,        \* changes by the user
  MaxFailures,     \* installs that fail after the migration
  MaxInterrupts,   \* installs that end in the middle of it
  none, mine       \* nothing there, something of the user's

PrefixAssumption ==
  /\ Added \subseteq HLinks
  /\ MaxEdits \in Nat /\ MaxFailures \in Nat /\ MaxInterrupts \in Nat
  /\ none # mine /\ {none, mine} \cap {"old", "new"} = {}

VARIABLES
  legacy,        \* ~/.roundtable: "none", "dir" or "link"
  prefix,        \* is there a ~/.pneu?
  install,       \* the prefix the install manifest names: none, "old", "new"
  setup,         \* the same for the setup manifest
  command,       \* what each command link is: "old", "new", none, mine
  oldLink,       \* what is at the old path of each harness link
  newLink,       \* and at its new path
  pending,       \* _migrated_links of the setup manifest
  config,        \* the prefix in the harness settings and the definition
  complete,      \* prefix-migration.json
  pr,            \* the installs
  moved,         \* did an install rename the directory?
  installed,     \* has an install completed?
  user,          \* links the user replaced
  edits, failures, interrupts,
  smooth         \* no install was interrupted or ran beside another so far

vars == <<legacy, prefix, install, setup, command, oldLink, newLink, pending,
          config, complete, pr, moved, installed, user, edits, failures,
          interrupts, smooth>>

Idle == [pc |-> "idle", todo |-> {}, links |-> {}]

\* A legacy install with or without onboarded harnesses, a legacy directory
\* with data only, or nothing at all.
Init ==
  /\ \E there \in BOOLEAN, i \in {none, "old"}, s \in {none, "old"}:
        /\ there \/ (i = none /\ s = none)
        /\ s = "old" => i = "old"
        /\ legacy = (IF there THEN "dir" ELSE "none")
        /\ install = i /\ setup = s
        /\ command = [k \in Commands |-> i]
        /\ oldLink = [h \in HLinks |-> s]
        /\ config = s
  /\ prefix = FALSE
  /\ newLink = [h \in HLinks |-> none]
  /\ pending = {} /\ complete = FALSE
  /\ pr = [c \in Procs |-> Idle]
  /\ moved = FALSE /\ installed = FALSE
  /\ user = {} /\ edits = 0 /\ failures = 0 /\ interrupts = 0
  /\ smooth = TRUE

Quiet == \A c \in Procs: pr[c].pc = "idle"

\* The user replaces or removes a link, between two installs.
UserChange ==
  /\ Quiet /\ edits < MaxEdits /\ edits' = edits + 1
  /\ \/ \E k \in Commands, v \in {none, mine}:
          /\ command' = [command EXCEPT ![k] = v]
          /\ user' = user \cup {k}
          /\ UNCHANGED oldLink
     \/ \E h \in HLinks, v \in {none, mine}:
          /\ oldLink' = [oldLink EXCEPT ![h] = v]
          /\ user' = user \cup {h}
          /\ UNCHANGED command
  /\ UNCHANGED <<legacy, prefix, install, setup, newLink, pending, config,
                 complete, pr, moved, installed, failures, interrupts, smooth>>

-----------------------------------------------------------------------------
(* The directory.                                                          *)

Past == <<moved, installed, user, edits, failures, interrupts>>
Ghosts == <<Past, smooth>>
Dirs == <<legacy, prefix>>
OfInstall == <<install, command>>
OfSetup == <<setup, oldLink, newLink, pending, config>>
Goto(c, pc, todo) == pr' = [pr EXCEPT ![c].pc = pc, ![c].todo = todo]
At(c, pc) == pr[c].pc = pc

\* Both directories: refused.  Neither: nothing to migrate.
Look(c) ==
  /\ At(c, "idle")
  /\ ~(legacy = "dir" /\ prefix)
  /\ Goto(c, CASE legacy = "dir" -> "rename"
               [] legacy # "dir" /\ prefix -> "install"
               [] OTHER -> "rest", {})
  /\ smooth' = (smooth /\ Quiet)
  /\ UNCHANGED <<Dirs, OfInstall, OfSetup, complete, Past>>

\* The rename fails when another install was faster.
Rename(c) ==
  /\ At(c, "rename")
  /\ IF legacy = "dir" /\ ~prefix
     THEN /\ legacy' = "none" /\ prefix' = TRUE /\ moved' = TRUE
          /\ Goto(c, "symlink", {})
     ELSE /\ pr' = [pr EXCEPT ![c] = Idle]
          /\ UNCHANGED <<Dirs, moved>>
  /\ UNCHANGED <<OfInstall, OfSetup, complete, installed, user, edits,
                 failures, interrupts, smooth>>

Symlink(c) ==
  /\ At(c, "symlink")
  /\ legacy' = "link"
  /\ Goto(c, "install", {})
  /\ UNCHANGED <<prefix, OfInstall, OfSetup, complete, Ghosts>>

-----------------------------------------------------------------------------
(* The install manifest and its command links.                             *)

LoadInstall(c) ==
  /\ At(c, "install")
  /\ IF install = "old" THEN Goto(c, "commands", Commands)
     ELSE Goto(c, "setup", {})
  /\ UNCHANGED <<Dirs, OfInstall, OfSetup, complete, Ghosts>>

\* A link that is not the recorded one is not touched, and ends the install.
Relink(c, k) ==
  /\ At(c, "commands") /\ k \in pr[c].todo
  /\ command[k] \in {none, "old"}
  /\ command' = [command EXCEPT ![k] = IF @ = none THEN none ELSE "new"]
  /\ pr' = [pr EXCEPT ![c].todo = @ \ {k}]
  /\ UNCHANGED <<Dirs, install, OfSetup, complete, Ghosts>>

Refuse(c) ==
  /\ \/ At(c, "commands") /\ \E k \in pr[c].todo: command[k] \in {"new", mine}
     \/ At(c, "links") /\ \E h \in pr[c].todo:
          oldLink[h] = mine \/ (oldLink[h] = none /\ h \in Added)
     \/ At(c, "rest") /\ \E k \in Commands: command[k] \in {"old", mine}
  /\ pr' = [pr EXCEPT ![c] = Idle]
  /\ UNCHANGED <<Dirs, OfInstall, OfSetup, complete, Ghosts>>

PublishInstall(c) ==
  /\ At(c, "commands") /\ pr[c].todo = {}
  /\ install' = "new"
  /\ Goto(c, "setup", {})
  /\ UNCHANGED <<Dirs, command, OfSetup, complete, Ghosts>>

-----------------------------------------------------------------------------
(* The setup manifest and what it lists.                                   *)

LoadSetup(c) ==
  /\ At(c, "setup")
  /\ IF setup = "old" THEN Goto(c, "config", {}) ELSE Goto(c, "mark", {})
  /\ UNCHANGED <<Dirs, OfInstall, OfSetup, complete, Ghosts>>

\* The old name is replaced wherever it is, as often as wanted.
Rewrite(c) ==
  /\ At(c, "config")
  /\ config' = "new"
  /\ pr' = [pr EXCEPT ![c].pc = "links", ![c].todo = HLinks, ![c].links = {}]
  /\ UNCHANGED <<Dirs, OfInstall, setup, oldLink, newLink, pending, complete,
                 Ghosts>>

\* Mutant: any link at the old path is taken out.
TakeAnyOut(c, h) ==
  /\ At(c, "links") /\ h \in pr[c].todo
  /\ oldLink' = [oldLink EXCEPT ![h] = none]
  /\ pr' = [pr EXCEPT ![c].todo = @ \ {h}, ![c].links = @ \cup {h}]
  /\ UNCHANGED <<Dirs, OfInstall, setup, newLink, pending, config, complete,
                 Ghosts>>

\* A link setup made must be there as it was recorded.
TakeOut(c, h) ==
  /\ At(c, "links") /\ h \in pr[c].todo
  /\ oldLink[h] = "old" \/ (oldLink[h] = none /\ h \notin Added)
  /\ oldLink' = [oldLink EXCEPT ![h] = none]
  /\ pr' = [pr EXCEPT ![c].todo = @ \ {h}, ![c].links = @ \cup {h}]
  /\ UNCHANGED <<Dirs, OfInstall, setup, newLink, pending, config, complete,
                 Ghosts>>

PublishSetup(c) ==
  /\ At(c, "links") /\ pr[c].todo = {}
  /\ setup' = "new"
  /\ Goto(c, "pending", {})
  /\ UNCHANGED <<Dirs, OfInstall, oldLink, newLink, pending, config, complete,
                 Ghosts>>

PublishPending(c) ==
  /\ At(c, "pending")
  /\ pending' = pr[c].links
  /\ Goto(c, "mark", {})
  /\ UNCHANGED <<Dirs, OfInstall, setup, oldLink, newLink, config, complete,
                 Ghosts>>

Mark(c) ==
  /\ At(c, "mark")
  /\ complete' = TRUE
  /\ Goto(c, "rest", {})
  /\ UNCHANGED <<Dirs, OfInstall, OfSetup, Ghosts>>

-----------------------------------------------------------------------------
(* The rest of the install.                                                *)

\* A command link of the user's, or anything else, ends it before or after
\* the version was built.
RestFails(c) ==
  /\ At(c, "rest")
  /\ failures < MaxFailures /\ failures' = failures + 1
  /\ pr' = [pr EXCEPT ![c] = Idle]
  /\ UNCHANGED <<Dirs, OfInstall, OfSetup, complete, moved, installed, user,
                 edits, interrupts, smooth>>

Rest(c) ==
  /\ At(c, "rest")
  /\ \A k \in Commands: command[k] \in {none, "new"}
  /\ Goto(c, IF prefix THEN "ensure" ELSE "finish",
          IF setup = "new" THEN pending ELSE {})
  /\ UNCHANGED <<Dirs, OfInstall, OfSetup, complete, Ghosts>>

Ensure(c, h) ==
  /\ At(c, "ensure") /\ h \in pr[c].todo
  /\ newLink[h] \in {none, "new"}
  /\ newLink' = [newLink EXCEPT ![h] = "new"]
  /\ pr' = [pr EXCEPT ![c].todo = @ \ {h}]
  /\ UNCHANGED <<Dirs, OfInstall, setup, oldLink, pending, config, complete,
                 Ghosts>>

EnsureDone(c) ==
  /\ At(c, "ensure") /\ pr[c].todo = {}
  /\ pending' = {}
  /\ Goto(c, "finish", {})
  /\ UNCHANGED <<Dirs, OfInstall, setup, oldLink, newLink, config, complete,
                 Ghosts>>

Finish(c) ==
  /\ At(c, "finish")
  /\ prefix' = TRUE /\ install' = "new"
  /\ command' = [k \in Commands |-> "new"]
  /\ installed' = TRUE
  /\ pr' = [pr EXCEPT ![c] = Idle]
  /\ UNCHANGED <<legacy, OfSetup, complete, moved, user, edits, failures,
                 interrupts, smooth>>

\* A step fails, or the install is killed.
Interrupt(c) ==
  /\ ~At(c, "idle")
  /\ interrupts < MaxInterrupts /\ interrupts' = interrupts + 1
  /\ smooth' = FALSE
  /\ pr' = [pr EXCEPT ![c] = Idle]
  /\ UNCHANGED <<Dirs, OfInstall, OfSetup, complete, moved, installed, user,
                 edits, failures>>

Step(c) ==
  \/ Look(c) \/ Rename(c) \/ Symlink(c)
  \/ LoadInstall(c) \/ (\E k \in Commands: Relink(c, k)) \/ PublishInstall(c)
  \/ LoadSetup(c) \/ Rewrite(c) \/ (\E h \in HLinks: TakeOut(c, h))
  \/ PublishSetup(c) \/ PublishPending(c) \/ Mark(c)
  \/ RestFails(c) \/ Rest(c) \/ (\E h \in HLinks: Ensure(c, h))
  \/ EnsureDone(c) \/ Finish(c) \/ Refuse(c) \/ Interrupt(c)

Next == (\E c \in Procs: Step(c)) \/ UserChange

Spec == Init /\ [][Next]_vars
-----------------------------------------------------------------------------
(* Properties.                                                             *)

\* Every variable has its type, and only links are made again that were
\* taken out.
TypeOK ==
  /\ legacy \in {"none", "dir", "link"}
  /\ install \in {none, "old", "new"} /\ setup \in {none, "old", "new"}
  /\ \A k \in Commands: command[k] \in {none, mine, "old", "new"}
  /\ \A h \in HLinks: oldLink[h] \in {none, mine, "old"}
                      /\ newLink[h] \in {none, "new"}
  /\ pending \subseteq {h \in HLinks: oldLink[h] # "old"}

\* The data are in one directory, whatever is interrupted and whoever else
\* installs: never in both, and the link never hangs in the air.
InOnePlace ==
  /\ ~(legacy = "dir" /\ prefix)
  /\ legacy = "link" => prefix

\* What the user put at a command's or a harness's link stays, in every step
\* of every install.
UsersKept == [][
  edits' = edits =>
    /\ \A k \in Commands: command[k] = mine => command'[k] = mine
    /\ \A h \in HLinks: oldLink[h] = mine => oldLink'[h] = mine]_vars

\* Where no install was interrupted or ran beside another, though any number
\* of them failed: a completed one leaves the old name as a link and every
\* harness link that was taken out in place under its new name.
Arrived ==
  smooth /\ Quiet /\ moved /\ installed =>
    /\ legacy = "link"
    /\ \A k \in Commands: command[k] \in {none, mine, "new"}
    /\ setup = "new" => \A h \in HLinks: newLink[h] = "new"

=============================================================================
