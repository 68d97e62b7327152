----------------------------- MODULE MCUpgrades -----------------------------
(* The four ways an installation moves to a newer form, checked in one run: *)
(* the mailbox of a project (Migration), the project registry, the package  *)
(* and its prefix.  They share no state; Init chooses the one that runs.    *)
EXTENDS Migration, TLC

CONSTANTS
  none, mine,
  Roots, Uuids, UpFaults, UpEdits,                        \* RegistryUpgrade
  Wrappers, Links, MaxGen, InstEdits, MaxInstFaults,      \* Installation
  CmdLinks, HLinks, Added, PrefixEdits, MaxFailures,      \* PrefixMigration
  MaxInterrupts

VARIABLES
  part,
  \* RegistryUpgrade
  schema, legacy, rows, backup, mark, present, lock, up, upFaults, upEdits,
  \* Installation
  path, ver, man, agent, pr, user, tried, edits, instFaults, upset,
  \* PrefixMigration
  home, prefix, install, setup, command, oldLink, newLink, pending, config,
  complete, prefixPr, moved, installed, kept, prefixEdits, failures,
  interrupts, smooth

registryVars == <<schema, legacy, rows, backup, mark, present, lock, up,
                  upFaults, upEdits>>
installVars == <<path, ver, man, agent, pr, user, tried, edits, instFaults,
                 upset>>
prefixVars == <<home, prefix, install, setup, command, oldLink, newLink,
                pending, config, complete, prefixPr, moved, installed, kept,
                prefixEdits, failures, interrupts, smooth>>

Up == INSTANCE RegistryUpgrade WITH
        MaxFaults <- UpFaults, MaxEdits <- UpEdits, faults <- upFaults,
        edits <- upEdits
Inst == INSTANCE Installation WITH
        MaxEdits <- InstEdits, MaxFaults <- MaxInstFaults,
        faults <- instFaults
Pre == INSTANCE PrefixMigration WITH
        Commands <- CmdLinks, MaxEdits <- PrefixEdits, legacy <- home,
        pr <- prefixPr, user <- kept, edits <- prefixEdits

ASSUME MCUpgradesAssumption ==
  Up!UpgradeAssumption /\ Inst!InstallationAssumption /\ Pre!PrefixAssumption

MCInit ==
  /\ part \in {"mailbox", "registry", "package", "prefix"}
  /\ Init /\ Up!Init /\ Inst!Init /\ Pre!Init
  \* what does not run starts in one state
  /\ part # "mailbox" => layout = "local"
  /\ part # "registry" => legacy = Roots /\ mark = [r \in Roots |-> none]
  /\ part # "prefix" => ~prefix /\ home = "none"

MCNext ==
  \/ part = "mailbox" /\ Next
     /\ UNCHANGED <<part, registryVars, installVars, prefixVars>>
  \/ part = "registry" /\ Up!Next
     /\ UNCHANGED <<part, vars, installVars, prefixVars>>
  \/ part = "package" /\ Inst!Next
     /\ UNCHANGED <<part, vars, registryVars, prefixVars>>
  \/ part = "prefix" /\ Pre!Next
     /\ UNCHANGED <<part, vars, registryVars, installVars>>

MCSpec == MCInit /\ [][MCNext]_<<part, vars, registryVars, installVars,
                                 prefixVars>>

Symmetry == Permutations(Procs)

\* A bound on the states explored: after a fault, or mail written by hand, one
\* migration command runs at a time; the second fault falls in the first
\* transaction or its reruns, and mail written by hand meets two faults and new
\* transactions together at most.  The user's edits of an installation and its
\* faults are two together.
Bounded ==
  /\ stray # {} \/ faults > 0 =>
       Cardinality({p \in Procs : op[p].pc # "idle"}) <= 1
  /\ faults = 2 => lastId <= 1
  /\ stray # {} => faults + lastId <= 2
  /\ edits + instFaults <= 2

\* Of a mailbox, whatever is interrupted and rerun: the registry names a whole
\* one, a command that gets to the end leaves nothing half done, and what it is
\* then about to purge holds no mail that a hand wrote while no command had the
\* lock.
CutoverWhole == TypeOK /\ AuthorityWhole /\ NothingHalfDone /\ SettledSpared

\* Of the registry: the new file lists exactly the old roots, under the UUIDs of
\* their markers, and the backup is the file it replaced.
UpgradeExact == Up!TypeOK /\ Up!UpgradeExact

\* Of the package and its prefix: the current version is whole, the user's own
\* files stay, what failed or was removed leaves nothing in the way of the next
\* install or uninstall, and the data are in one directory that both names lead
\* to.
InstallWhole ==
  /\ Inst!TypeOK /\ Inst!NothingLeft /\ Inst!RerunAccepted
  /\ Inst!FirstInstallRepeatable /\ Inst!UsersKept /\ Inst!CurrentWhole
  /\ Pre!TypeOK /\ Pre!InOnePlace /\ Pre!Arrived

\* In every step of every upgrade: a marker keeps its UUID, a foreign launch
\* agent outlives an uninstall, and a link the user replaced is not touched.
OthersKept == Up!MarkersFinal /\ Inst!AgentKept /\ Pre!UsersKept
=============================================================================
