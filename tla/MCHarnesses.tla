---------------------------- MODULE MCHarnesses ----------------------------
(* What pneu sets up for the harnesses of a host, checked in one run: their *)
(* settings (HarnessSetup), the phone host of a project (RCHost) and the    *)
(* services of Codex (CodexService).  They share no state here; Init        *)
(* chooses the one that runs.                                               *)
EXTENDS HarnessSetup, FiniteSets, TLC

CONSTANTS
  HostProcs, HostEdits, HostRegs, HostFaults,   \* the phone host
  MaxRelease, MaxCli, MaxNoise                  \* the Codex services

VARIABLES
  part,
  \* RCHost
  settings, hostPlist, hostState, job, guard, hostPr, uninstall, text, regs,
  kept, hostFaults, hostBroken, stray,
  \* CodexService
  installed, cli, plist, owned, marker, app, bridge, repair, state, seats,
  launch, setup, saved, leftover, noise

hostVars == <<settings, hostPlist, hostState, job, guard, hostPr, uninstall,
              text, regs, kept, hostFaults, hostBroken, stray>>
serviceVars == <<installed, cli, plist, owned, marker, app, bridge, repair,
                 state, seats, launch, setup, saved, leftover, noise>>

Host == INSTANCE RCHost WITH
          Procs <- HostProcs, MaxEdits <- HostEdits, MaxRegs <- HostRegs,
          MaxFaults <- HostFaults, plist <- hostPlist, state <- hostState,
          pr <- hostPr, faults <- hostFaults, broken <- hostBroken
Service == INSTANCE CodexService WITH
             Launchers <- Procs, release <- installed, pr <- launch

ASSUME MCHarnessesAssumption ==
  Host!RCHostAssumption /\ Service!ServiceAssumption

MCInit == part \in {"setup", "host", "service"}
          /\ Init /\ Host!Init /\ Service!Init

MCNext ==
  \/ part = "setup" /\ Next /\ UNCHANGED <<part, hostVars, serviceVars>>
  \/ part = "host" /\ Host!Next /\ UNCHANGED <<part, vars, serviceVars>>
  \/ part = "service" /\ Service!Next /\ UNCHANGED <<part, vars, hostVars>>

MCSpec == MCInit /\ [][MCNext]_<<part, vars, hostVars, serviceVars>>

Symmetry == Permutations(Procs)

\* One setup command at a time after the first fault, and no second fault
\* after an edit by the user.
Bounded ==
  /\ faults > 0 => Cardinality({c \in Procs : pr[c].pc # "idle"}) <= 1
  /\ edits > 0 => faults <= 1

\* Of setup: the user's own text stays in his files, the manifest is exact
\* between two commands, a rollback is reported as it was, and a rerun is
\* accepted.
SetupExact ==
  TypeOK /\ UsersKept /\ OwnedExactly /\ RerunAccepted /\ ReportedFiles

\* Of the phone host: hooks, definition and state come and go together, a
\* loaded job can be disabled, registrations and the user's text survive every
\* rollback, and the package is not removed under an enabled host.
HostWhole ==
  /\ Host!TypeOK /\ Host!ContentKept /\ Host!AllOrNothing
  /\ Host!HostReversible /\ Host!NotOrphaned

\* Of the Codex services: nobody unloads them under a published seat, a
\* definition that is not loaded yet is marked unless a failed setup could not
\* take it back, and a preflight gives up only where it was disturbed.
ServicesSafe ==
  /\ Service!TypeOK /\ Service!SeatsUndisturbed /\ Service!PendingIsMarked
  /\ Service!Converges

\* In every step: a live app-server is unloaded only after its user was asked,
\* and a seat is published only on the definition that is on disk, owned and
\* loaded, or on one that a failed setup left behind with its manifest.
ServicesAsked == Service!NeverSilently /\ Service!ClaimedOnCurrent
=============================================================================
