------------------------------- MODULE RCHost -------------------------------
(***************************************************************************)
(* The phone host of one project.  Enabling it merges hooks into the       *)
(* project's Claude settings, writes a launchd definition and a state file *)
(* that owns both, and loads the job; disabling undoes that in the         *)
(* opposite order.  A session the host spawned registers itself in the     *)
(* state file.  Each holds the state guard; steps fail and are undone by   *)
(* hand-written rollbacks whose own steps may fail, commands are killed,   *)
(* launchd retires a job after bootout has returned and loads every        *)
(* definition it finds at login.                                           *)
(* Source: _rtrchost.py; uninstall of pneu_packaging/cli.py.               *)
(***************************************************************************)
EXTENDS Naturals, Sequences, SequencesExt

CONSTANTS
  Procs,        \* enables, disables and registrations at the same time
  MaxEdits,     \* edits of the settings file by the user
  MaxRegs,      \* registrations
  MaxFaults,    \* failing writes and launchctl calls, killed commands
  none

RCHostAssumption ==
  /\ MaxEdits \in Nat /\ MaxRegs \in Nat /\ MaxFaults \in Nat
  /\ none \notin Procs

VARIABLES
  settings,     \* .claude/settings.local.json: the user's text, and the hooks
  plist,        \* is the launchd definition there?
  state,        \* the state file: there or not, and the last registration
  job,          \* the launchd job: "out", "in", or "leaving" after bootout
  guard,        \* who holds rc-hosts/.lock
  pr,           \* the commands
  uninstall,    \* the package's own removal: "no", "checked" or "gone"; or
                \* "raced" and "gone anyway", where an enable overlapped it
  text,         \* what the user last wrote in the settings file
  regs,         \* registrations so far
  kept,         \* the last registration made while the host was enabled
  faults,
  broken,       \* was a command killed half-way, or a rollback cut short?
  stray         \* has launchd loaded at a login what such a command left?

vars == <<settings, plist, state, job, guard, pr, uninstall, text, regs, kept,
          faults, broken, stray>>
Others == <<uninstall, text, regs, stray>>
Commands == {"enable", "disable", "register"}
Removed == uninstall \in {"gone", "gone anyway"}

Off == [on |-> FALSE, reg |-> 0]
Idle == [pc |-> "idle", todo |-> <<>>, undo |-> <<>>, before |-> <<>>,
         new |-> <<>>, loaded |-> FALSE]

Init ==
  /\ settings = [text |-> 0, hook |-> FALSE]
  /\ plist = FALSE /\ state = Off /\ job = "out"
  /\ guard = none
  /\ pr = [c \in Procs |-> Idle]
  /\ uninstall = "no"
  /\ text = 0 /\ regs = 0 /\ kept = 0 /\ faults = 0
  /\ broken = FALSE /\ stray = FALSE

-----------------------------------------------------------------------------
(* The user, launchd, and the package.                                     *)

\* The user edits his settings, but not while a command works on them.
Edit ==
  /\ text < MaxEdits /\ guard = none
  /\ text' = text + 1
  /\ settings' = [settings EXCEPT !.text = text + 1]
  /\ UNCHANGED <<plist, state, job, guard, pr, uninstall, regs, kept, faults,
                 broken, stray>>

Retire ==
  /\ job = "leaving" /\ job' = "out"
  /\ UNCHANGED <<settings, plist, state, guard, pr, Others, kept, faults,
                 broken>>

\* launchd loads every definition it finds; commands do not survive a logout.
Login ==
  /\ guard = none
  /\ job' = IF plist THEN "in" ELSE "out"
  /\ stray' = (stray \/ (broken /\ plist))
  /\ UNCHANGED <<settings, plist, state, guard, pr, uninstall, text, regs, kept,
                 faults, broken>>

\* uninstall looks for state files of enabled hosts, and removes the commands
\* later; it takes no lock the host's commands take.
OtherThanUninstall ==
  UNCHANGED <<settings, plist, state, job, guard, pr, text, regs, kept, faults,
              broken, stray>>

UninstallCheck ==
  /\ uninstall = "no" /\ ~state.on
  /\ uninstall' = IF guard = none THEN "checked" ELSE "raced"
  /\ OtherThanUninstall

UninstallRemove ==
  /\ uninstall \in {"checked", "raced"}
  /\ uninstall' = IF uninstall = "checked" THEN "gone" ELSE "gone anyway"
  /\ OtherThanUninstall

-----------------------------------------------------------------------------
(* Commands.                                                               *)

Holds(c, pc) == guard = c /\ pr[c].pc = pc
Release(c) == guard' = none /\ pr' = [pr EXCEPT ![c] = Idle]

Races == uninstall' = IF uninstall = "checked" THEN "raced" ELSE uninstall

\* enable and disable run the installed command; a registration is made by a
\* session the host spawned.
Start(c, op) ==
  /\ pr[c].pc = "idle" /\ guard = none /\ ~Removed
  /\ op = "register" => regs < MaxRegs
  /\ guard' = c
  /\ pr' = [pr EXCEPT ![c].pc = op]
  /\ Races
  /\ UNCHANGED <<settings, plist, state, job, text, regs, stray, kept, faults,
                 broken>>

\* What is configured: the hooks are in the settings and the definition is the
\* recorded one.
Configured == settings.hook /\ plist
Loaded == job # "out"

Do(what) == [do |-> what]

\* Mutant: the job is loaded before the state is published.
LoadFirst == <<Do("hook"), Do("plist"), Do("load"), Do("state")>>

\* The files of an enabled host, the one that owns the others last; then the
\* job.
EnableSteps == <<Do("hook"), Do("plist"), Do("state"), Do("load")>>
DisableSteps == <<Do("unhook"), Do("unplist"), Do("unstate")>>

\* A first enable: nothing of the host's is there, and nothing unowned.
PlanEnable(c) ==
  /\ Holds(c, "enable") /\ ~state.on
  /\ ~Loaded /\ ~plist /\ ~settings.hook
  /\ pr' = [pr EXCEPT ![c].pc = "write", ![c].todo = EnableSteps,
       ![c].undo = <<Do("settings"), Do("unplist"), Do("unstate")>>,
       ![c].before = [settings |-> settings, plist |-> plist, state |-> state],
       ![c].new = [settings EXCEPT !.hook = TRUE]]
  /\ UNCHANGED <<settings, plist, state, job, guard, Others, kept, faults,
                 broken>>

\* Enabled already: at most the job is loaded again.
ReEnable(c) ==
  /\ Holds(c, "enable") /\ state.on /\ Configured
  /\ job' = IF Loaded THEN job ELSE "in"
  /\ Release(c)
  /\ UNCHANGED <<settings, plist, state, Others, kept, faults, broken>>

\* disable unloads the job and waits for it to be gone before it touches a
\* file.
PlanDisable(c) ==
  /\ Holds(c, "disable") /\ state.on /\ Configured
  /\ pr' = [pr EXCEPT ![c].pc = IF Loaded THEN "retiring" ELSE "write",
       ![c].todo = DisableSteps, ![c].loaded = Loaded,
       ![c].undo = <<Do("settings"), Do("replist"), Do("restate"), Do("reload")>>,
       ![c].before = [settings |-> settings, plist |-> plist, state |-> state],
       ![c].new = [settings EXCEPT !.hook = FALSE]]
  /\ job' = IF Loaded THEN "leaving" ELSE job
  /\ UNCHANGED <<settings, plist, state, guard, Others, kept, faults, broken>>

Retired(c) ==
  /\ Holds(c, "retiring") /\ ~Loaded
  /\ pr' = [pr EXCEPT ![c].pc = "write"]
  /\ UNCHANGED <<settings, plist, state, job, guard, Others, kept, faults,
                 broken>>

\* Nothing to do, refused, launchctl failed, or the wait timed out: the files
\* are as they were.
Decline(c) ==
  /\ guard = c /\ pr[c].pc \in {"enable", "disable", "retiring", "register"}
  /\ Release(c)
  /\ UNCHANGED <<settings, plist, state, job, Others, kept, faults, broken>>

\* A registration reads the state and writes it back, while a state is there.
Register(c) ==
  /\ Holds(c, "register") /\ state.on /\ regs < MaxRegs
  /\ regs' = regs + 1 /\ kept' = regs + 1
  /\ state' = [state EXCEPT !.reg = regs + 1]
  /\ Release(c)
  /\ UNCHANGED <<settings, plist, job, uninstall, text, faults, broken, stray>>

\* What one step, forward or back, does.
Effect(c, what) ==
  /\ settings' = CASE what \in {"hook", "unhook"} -> pr[c].new
                   [] what = "settings" -> pr[c].before.settings
                   [] OTHER -> settings
  /\ plist' = CASE what \in {"plist", "replist"} -> TRUE
                [] what = "unplist" -> FALSE
                [] OTHER -> plist
  /\ state' = CASE what = "state" -> [on |-> TRUE, reg |-> 0]
                [] what = "unstate" -> Off
                [] what = "restate" -> pr[c].before.state
                [] OTHER -> state
  /\ job' = IF what = "load" \/ (what = "reload" /\ pr[c].loaded)
            THEN "in" ELSE job
  /\ kept' = IF what \in {"state", "unstate"} THEN 0
             ELSE IF what = "restate" THEN pr[c].before.state.reg ELSE kept

Write(c) ==
  /\ Holds(c, "write") /\ pr[c].todo # <<>>
  /\ Effect(c, Head(pr[c].todo).do)
  /\ pr' = [pr EXCEPT ![c].todo = Tail(@)]
  /\ UNCHANGED <<guard, Others, faults, broken>>

Succeed(c) ==
  /\ pr[c].pc \in {"write", "undo"} /\ guard = c
  /\ pr[c].todo = <<>>
  /\ Release(c)
  /\ UNCHANGED <<settings, plist, state, job, Others, kept, faults, broken>>

\* A step fails, with or without its effect on a file: every file is put back
\* to what it was before the command, whether it was reached or not.
Fail(c) ==
  /\ Holds(c, "write") /\ pr[c].todo # <<>>
  /\ faults < MaxFaults /\ faults' = faults + 1
  /\ \/ /\ Head(pr[c].todo).do \in {"hook", "plist", "state", "unhook"}
        /\ Effect(c, Head(pr[c].todo).do)
     \/ UNCHANGED <<settings, plist, state, job, kept>>
  /\ pr' = [pr EXCEPT ![c].pc = "undo", ![c].todo = pr[c].undo]
  /\ UNCHANGED <<guard, Others, broken>>

Undo(c) ==
  /\ Holds(c, "undo") /\ pr[c].todo # <<>>
  /\ Effect(c, Head(pr[c].todo).do)
  /\ pr' = [pr EXCEPT ![c].todo = Tail(@)]
  /\ UNCHANGED <<guard, Others, faults, broken>>

\* A step of the rollback fails: the rest of it is not done.  Only the reload
\* at its end may fail without a word.
UndoFails(c) ==
  /\ Holds(c, "undo") /\ pr[c].todo # <<>>
  /\ faults < MaxFaults /\ faults' = faults + 1
  /\ broken' = (broken \/ Head(pr[c].todo).do # "reload")
  /\ Release(c)
  /\ UNCHANGED <<settings, plist, state, job, Others, kept>>

Kill(c) ==
  /\ guard = c
  /\ faults < MaxFaults /\ faults' = faults + 1
  /\ broken' = (broken \/ pr[c].pc \in {"write", "undo"})
  /\ Release(c)
  /\ UNCHANGED <<settings, plist, state, job, Others, kept>>

Command(c) ==
  \/ \E op \in Commands: Start(c, op)
  \/ PlanEnable(c) \/ ReEnable(c) \/ PlanDisable(c) \/ Retired(c)
  \/ Decline(c) \/ Register(c) \/ Write(c) \/ Succeed(c) \/ Fail(c)
  \/ Undo(c) \/ UndoFails(c) \/ Kill(c)

Next ==
  \/ \E c \in Procs: Command(c)
  \/ Edit \/ Retire \/ Login \/ UninstallCheck \/ UninstallRemove

Spec == Init /\ [][Next]_vars
-----------------------------------------------------------------------------
(* Properties.                                                             *)

\* Only the holder of the guard is in a command.
TypeOK ==
  /\ settings \in [text: 0..MaxEdits, hook: BOOLEAN]
  /\ plist \in BOOLEAN /\ state \in [on: BOOLEAN, reg: 0..MaxRegs]
  /\ job \in {"out", "in", "leaving"} /\ broken \in BOOLEAN /\ stray \in BOOLEAN
  /\ \A c \in Procs: (guard = c) <=> pr[c].pc # "idle"

\* Between two commands the hooks, the definition and the state file are there
\* together or not at all, whatever failed, as long as no rollback was cut
\* short: a registration never brings back a state that disable removed.
AllOrNothing ==
  guard = none /\ ~broken =>
    settings.hook = plist /\ plist = state.on

\* A loaded job always has its state file, so that it can be disabled, with
\* commands killed and rollbacks cut short anywhere: only what such a command
\* left behind and a later login loads has none.
HostReversible == job = "in" /\ ~stray => state.on

\* The text of the user's settings survives every command and every rollback,
\* and so does the last registration while the host stays enabled.
ContentKept ==
  /\ settings.text = text
  /\ state.on => state.reg = kept

\* The package is not removed under an enabled host, whatever failed or was
\* killed before, unless a command of the host's overlaps the removal.
NotOrphaned == uninstall = "gone" => ~state.on

=============================================================================
