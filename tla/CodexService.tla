---------------------------- MODULE CodexService ----------------------------
(***************************************************************************)
(* The launch preflight of a Codex seat.  All seats of the host share one  *)
(* app-server and one wake bridge, both jobs of launchd.  A launcher       *)
(* classifies them, repairs or reloads what it may, tries again, and       *)
(* publishes its seat only under the locks of its last inspection.  Setup  *)
(* writes a new definition and a marker that says it is not loaded yet;    *)
(* processes crash, launchd restarts them, packages are upgraded.          *)
(* Source: _rtcodex.py.                                                    *)
(***************************************************************************)
EXTENDS Naturals, FiniteSets

CONSTANTS
  Launchers,
  MaxRelease,     \* releases of the package
  MaxCli,         \* releases of the Codex CLI
  MaxNoise,       \* crashes, upgrades and setups, all together
  none

ServiceAssumption ==
  /\ MaxRelease \in Nat \ {0} /\ MaxCli \in Nat \ {0} /\ MaxNoise \in Nat
  /\ {none, "setup"} \cap Launchers = {} /\ none # "setup"

Attempts == 6

VARIABLES
  release, cli,   \* what is installed
  plist,          \* the definition on disk, by release (0: none)
  owned,          \* the definition the setup manifest owns
  marker,         \* the pending reload, by release (0: none)
  app,            \* the app-server: is the job loaded, does it answer, the
                  \* definition it was loaded with, the CLI it runs
  bridge,         \* the wake bridge: alive, and of which release
  repair,         \* who holds codex-service-repair.lock
  state,          \* who holds harness-setup.lock: a launcher or "setup"
  seats,          \* launchers whose seat is published
  pr,             \* the launchers
  setup,          \* where setup is
  saved,          \* what setup found, to be restored should it fail
  leftover,       \* history: the definition a failed setup could not take back
  noise

vars == <<release, cli, plist, owned, marker, app, bridge, repair, state,
          seats, pr, setup, saved, leftover, noise>>
Files == <<plist, owned, marker, saved, leftover>>
Packages == <<release, cli>>

Idle == [pc |-> "idle", rel |-> 0, approved |-> FALSE, tries |-> 0,
         jolts |-> 0]
Unsaved == [owned |-> 0, marker |-> 0]

Init ==
  /\ release = 1 /\ cli = 1
  /\ plist = 0 /\ owned = 0 /\ marker = 0
  /\ app = [loaded |-> FALSE, alive |-> FALSE, gen |-> 0, cli |-> 0]
  /\ bridge = [alive |-> FALSE, build |-> 0]
  /\ repair = none /\ state = none
  /\ seats = {}
  /\ pr = [c \in Launchers |-> Idle]
  /\ setup = "idle" /\ saved = Unsaved /\ leftover = 0
  /\ noise = 0

-----------------------------------------------------------------------------
(* What goes on around the launchers.                                      *)

\* History: how often something came in a launcher's way, up to 3.
Jolted(r) == [r EXCEPT !.jolts = IF r.pc = "idle" THEN 0
                                 ELSE IF @ < 3 THEN @ + 1 ELSE 3]

Disturb ==
  /\ noise < MaxNoise /\ noise' = noise + 1
  /\ pr' = [c \in Launchers |-> Jolted(pr[c])]

Install ==
  /\ release < MaxRelease /\ release' = release + 1
  /\ Disturb
  /\ UNCHANGED <<cli, Files, app, bridge, repair, state, seats, setup>>

UpgradeCli ==
  /\ cli < MaxCli /\ cli' = cli + 1
  /\ Disturb
  /\ UNCHANGED <<release, Files, app, bridge, repair, state, seats, setup>>

Crash ==
  /\ \/ app.alive /\ app' = [app EXCEPT !.alive = FALSE] /\ UNCHANGED bridge
     \/ /\ bridge.alive /\ bridge' = [bridge EXCEPT !.alive = FALSE]
        /\ UNCHANGED app
  /\ Disturb
  /\ UNCHANGED <<Packages, Files, repair, state, seats, setup>>

\* launchd restarts a loaded job as it was defined when it was loaded; the
\* program behind the definition is whatever is installed now.
KeepAlive ==
  /\ \/ /\ app.loaded /\ ~app.alive
        /\ app' = [app EXCEPT !.alive = TRUE, !.cli = cli]
        /\ UNCHANGED bridge
     \/ /\ bridge.build # 0 /\ ~bridge.alive
        /\ bridge' = [alive |-> TRUE, build |-> release]
        /\ UNCHANGED app
  /\ UNCHANGED <<Packages, Files, repair, state, seats, pr, setup, noise>>

\* At login the definition on disk is loaded.
Login ==
  /\ seats = {} /\ setup = "idle" /\ \A c \in Launchers: pr[c].pc = "idle"
  /\ app' = IF plist = 0 THEN [loaded |-> FALSE, alive |-> FALSE, gen |-> 0,
                               cli |-> 0]
            ELSE [loaded |-> TRUE, alive |-> TRUE, gen |-> plist, cli |-> cli]
  /\ bridge' = IF plist = 0 THEN [alive |-> FALSE, build |-> 0]
               ELSE [alive |-> TRUE, build |-> release]
  /\ UNCHANGED <<Packages, Files, repair, state, seats, pr, setup, noise>>

\* setup apply: the marker, the definition, the manifest.
SetupBegin ==
  /\ setup = "idle" /\ state = none
  /\ plist = owned /\ marker \in {0, owned} /\ owned # release
  /\ state' = "setup" /\ setup' = "marker"
  /\ saved' = [owned |-> owned, marker |-> marker]
  /\ Disturb
  /\ UNCHANGED <<Packages, plist, owned, marker, leftover, app, bridge, repair,
                 seats>>

SetupOver == setup' = "idle" /\ state' = none /\ saved' = Unsaved
SetupGoes(pc) == setup' = pc /\ UNCHANGED <<state, saved>>
SetupOnly == UNCHANGED <<Packages, app, bridge, repair, seats, pr, noise>>

SetupStep ==
  /\ \/ /\ setup = "marker" /\ marker' = release /\ SetupGoes("plist")
        /\ UNCHANGED <<plist, owned>>
     \/ /\ setup = "plist" /\ plist' = marker /\ SetupGoes("manifest")
        /\ UNCHANGED <<marker, owned>>
     \/ /\ setup = "manifest" /\ owned' = plist /\ SetupGoes("written")
        /\ UNCHANGED <<marker, plist>>
     \/ /\ setup = "written" /\ SetupOver
        /\ UNCHANGED <<marker, plist, owned>>
  /\ UNCHANGED leftover
  /\ SetupOnly

\* A write fails, before or after it took effect.
SetupFails ==
  /\ setup \in {"marker", "plist", "manifest", "written"}
  /\ SetupGoes("back manifest")
  /\ UNCHANGED <<plist, owned, marker, leftover>>
  /\ SetupOnly

\* The rollback, in reverse order; it goes on when a restore fails.
SetupBack ==
  /\ \/ /\ setup = "back manifest" /\ SetupGoes("back plist")
        /\ owned' \in {owned, saved.owned}
        /\ UNCHANGED <<plist, marker, leftover>>
     \/ /\ setup = "back plist" /\ SetupGoes("back marker")
        /\ plist' \in {plist, saved.owned}
        /\ leftover' = IF plist' = saved.owned THEN leftover ELSE plist
        /\ UNCHANGED <<owned, marker>>
     \/ /\ setup = "back marker" /\ SetupOver
        /\ marker' \in {marker, saved.marker}
        /\ UNCHANGED <<plist, owned, leftover>>
  /\ SetupOnly

SetupKilled ==
  /\ setup # "idle" /\ SetupOver
  /\ UNCHANGED <<plist, owned, marker, leftover>>
  /\ SetupOnly

\* A Codex session ends.
Close(c) ==
  /\ c \in seats /\ seats' = seats \ {c}
  /\ UNCHANGED <<Packages, Files, app, bridge, repair, state, pr, setup, noise>>

-----------------------------------------------------------------------------
(* The classification.                                                     *)

\* A reload that nobody uses the service for needs the user's consent; one
\* that somebody may use it for is refused.
Reload == IF seats = {} THEN "reload_required_idle" ELSE "reload_deferred_busy"

\* Is the definition on disk the one a launcher of release r writes, and
\* owned?
PlistState(r) == IF plist = r THEN IF owned = r THEN "current" ELSE "unowned"
                 ELSE IF plist = 0 THEN "missing"
                 ELSE IF plist = owned THEN "drift" ELSE "foreign"

Unsafe(r) == marker \notin {0, r} \/ PlistState(r) = "foreign"

Healthy(r) == bridge.alive /\ bridge.build = r

\* Mutant: an answering app-server of the right version will do.
InspectAnswer(r) ==
  CASE Unsafe(r) -> "unsafe"
    [] ~Unsafe(r) /\ PlistState(r) # "current" -> "setup_required"
    [] OTHER ->
         IF ~app.alive THEN IF app.loaded THEN Reload ELSE "cold"
         ELSE IF app.cli # cli THEN Reload
         ELSE IF ~Healthy(r) THEN "bridge_down" ELSE "ready"

Inspect(r) ==
  CASE Unsafe(r) -> "unsafe"
    [] ~Unsafe(r) /\ PlistState(r) # "current" -> "setup_required"
    [] OTHER ->
         IF ~app.alive THEN IF app.loaded THEN Reload ELSE "cold"
         ELSE IF app.cli # cli \/ marker # 0 THEN Reload
         ELSE IF ~Healthy(r) THEN "bridge_down" ELSE "ready"

Final == {"unsafe", "setup_required", "reload_deferred_busy"}

-----------------------------------------------------------------------------
(* A launcher.                                                             *)

World == <<Packages, Files, app, bridge, seats, setup, noise>>
Goto(c, pc) == pr' = [pr EXCEPT ![c].pc = pc]
At(c, pc) == pr[c].pc = pc
Locked(c, pc) == At(c, pc) /\ repair = c /\ state = c
End(c) ==
  /\ pr' = [d \in Launchers |-> IF d = c THEN Idle ELSE Jolted(pr[d])]
  /\ repair' = IF repair = c THEN none ELSE repair
  /\ state' = IF state = c THEN none ELSE state
Free(c, pc) ==
  /\ pr' = [pr EXCEPT ![c].pc = pc, ![c].tries = @ + 1]
  /\ repair' = none /\ state' = none

Launch(c) ==
  /\ At(c, "idle") /\ c \notin seats
  /\ pr' = [pr EXCEPT ![c] = [Idle EXCEPT !.pc = "look", !.rel = release]]
  /\ UNCHANGED <<World, repair, state>>

\* The advisory look, under the setup lock: refuse, ask, or go on.
Look(c) ==
  /\ At(c, "look") /\ pr[c].tries < Attempts /\ state = none
  /\ LET s == Inspect(pr[c].rel)
     IN /\ s \notin Final
        /\ Goto(c, IF s = "reload_required_idle" /\ ~pr[c].approved
                   THEN "ask" ELSE "repair")
  /\ UNCHANGED <<World, repair, state>>

Approve(c) ==
  /\ At(c, "ask")
  /\ pr' = [pr EXCEPT ![c].pc = "repair", ![c].approved = TRUE]
  /\ UNCHANGED <<World, repair, state>>

LockRepair(c) ==
  /\ At(c, "repair") /\ repair = none
  /\ repair' = c /\ Goto(c, "state")
  /\ UNCHANGED <<World, state>>

LockState(c) ==
  /\ At(c, "state") /\ state = none
  /\ state' = c /\ Goto(c, "decide")
  /\ UNCHANGED <<World, repair>>

\* The decision is made anew on what is there now.  A reload that was not
\* asked for yet is left to the next attempt.
Decide(c) ==
  /\ Locked(c, "decide")
  /\ LET s == Inspect(pr[c].rel)
     IN /\ s \notin Final
        /\ IF s = "reload_required_idle" /\ ~pr[c].approved
           THEN Free(c, "look")
           ELSE /\ Goto(c, CASE s = "ready" -> "claim"
                             [] s = "bridge_down" -> "bridge"
                             [] s = "cold" /\ marker = 0 -> "start"
                             [] OTHER -> "unload")
                /\ UNCHANGED <<repair, state>>
  /\ UNCHANGED World

\* ready_action: the seat's lease is published before the locks are released.
Claim(c) ==
  /\ Locked(c, "claim")
  /\ seats' = seats \cup {c}
  /\ End(c)
  /\ UNCHANGED <<Packages, Files, app, bridge, setup, noise>>

\* ensure_daemon: a job that answers by now is left alone.
Start(c) ==
  /\ Locked(c, "start")
  /\ app' = IF app.alive THEN app
            ELSE [loaded |-> TRUE, alive |-> TRUE, gen |-> plist, cli |-> cli]
  /\ Free(c, "look")
  /\ UNCHANGED <<Packages, Files, bridge, seats, setup, noise>>

\* The coordinated reload: the job is unloaded, loaded from the definition on
\* disk, and waited for; then the marker goes, then the bridge is restarted.
Unload(c) ==
  /\ Locked(c, "unload")
  /\ app' = [app EXCEPT !.loaded = FALSE, !.alive = FALSE]
  /\ Goto(c, "load")
  /\ UNCHANGED <<Packages, Files, bridge, repair, state, seats, setup, noise>>

Load(c) ==
  /\ Locked(c, "load")
  /\ app' = [loaded |-> TRUE, alive |-> TRUE, gen |-> plist, cli |-> cli]
  /\ Goto(c, "wait")
  /\ UNCHANGED <<Packages, Files, bridge, repair, state, seats, setup, noise>>

Wait(c) ==
  /\ Locked(c, "wait") /\ app.alive /\ app.cli = cli
  /\ Goto(c, "clear")
  /\ UNCHANGED <<World, repair, state>>

\* Mutant: the marker of a reload that is done stays.
ClearNever(c) ==
  /\ Locked(c, "clear") /\ Goto(c, "bridge")
  /\ UNCHANGED <<Packages, Files, app, bridge, repair, state, seats, setup,
                 noise>>

Clear(c) ==
  /\ Locked(c, "clear")
  /\ marker' = 0
  /\ Goto(c, "bridge")
  /\ UNCHANGED <<Packages, plist, owned, saved, leftover, app, bridge, repair,
                 state, seats, setup, noise>>

RestartBridge(c) ==
  /\ Locked(c, "bridge") /\ app.alive /\ app.cli = cli
  /\ bridge' = [alive |-> FALSE, build |-> 0]
  /\ Goto(c, "bridge load")
  /\ UNCHANGED <<Packages, Files, app, repair, state, seats, setup, noise>>

LoadBridge(c) ==
  /\ Locked(c, "bridge load")
  /\ bridge' = [alive |-> TRUE, build |-> release]
  /\ Goto(c, "takeover")
  /\ UNCHANGED <<Packages, Files, app, repair, state, seats, setup, noise>>

TakeOver(c) ==
  /\ Locked(c, "takeover") /\ Healthy(pr[c].rel)
  /\ Free(c, "look")
  /\ UNCHANGED World

\* Six attempts.
NotConverged(c) ==
  /\ At(c, "look") /\ pr[c].tries = Attempts
  /\ Goto(c, "gave up")
  /\ UNCHANGED <<World, repair, state>>

\* Refused, declined, timed out, failed or killed: the locks are released and
\* what is done is done.
Stop(c) ==
  /\ ~At(c, "idle")
  /\ End(c)
  /\ UNCHANGED World

Step(c) ==
  \/ Launch(c) \/ Look(c) \/ Approve(c) \/ LockRepair(c) \/ LockState(c)
  \/ Decide(c) \/ Claim(c) \/ Start(c) \/ Unload(c) \/ Load(c) \/ Wait(c)
  \/ Clear(c) \/ RestartBridge(c) \/ LoadBridge(c) \/ TakeOver(c)
  \/ NotConverged(c) \/ Stop(c)

Next ==
  \/ \E c \in Launchers: Step(c) \/ Close(c)
  \/ Install \/ UpgradeCli \/ Crash \/ KeepAlive \/ Login
  \/ SetupBegin \/ SetupStep \/ SetupFails \/ SetupBack \/ SetupKilled

Spec == Init /\ [][Next]_vars
-----------------------------------------------------------------------------
(* Properties.                                                             *)

\* The locks are held exactly where the preflight holds them.
TypeOK ==
  /\ plist \in 0..MaxRelease /\ owned \in 0..MaxRelease
  /\ marker \in 0..MaxRelease
  /\ app \in [loaded: BOOLEAN, alive: BOOLEAN, gen: 0..MaxRelease,
              cli: 0..MaxCli]
  /\ bridge \in [alive: BOOLEAN, build: 0..MaxRelease]
  /\ state = "setup" <=> setup # "idle"
  /\ \A c \in Launchers:
        (state = c) <=> pr[c].pc \notin {"idle", "look", "ask", "repair",
                                         "state", "gave up"}

\* No launcher unloads the shared app-server under a published seat, whatever
\* it saw before it took the locks and whoever launches at the same time.
SeatsUndisturbed ==
  \A c \in Launchers: pr[c].pc \in {"unload", "load"} => seats = {}

\* A live app-server is only taken from launchd by a launcher whose user was
\* asked, though the state that asked for it is not the one it is done in.
NeverSilently ==
  [][\A c \in Launchers:
        app.alive /\ app.loaded /\ ~app'.loaded /\ pr[c].pc = "unload"
          /\ pr'[c].pc = "load"
        => pr[c].approved]_vars

\* A definition that is not the loaded one is marked, from before it is
\* written until it is loaded, whatever fails or is killed when; but the
\* rollback of a failed setup takes the marker away also when it could not take
\* the definition back.
PendingIsMarked ==
  app.loaded /\ app.gen # plist =>
    marker # 0 \/ plist = 0 \/ plist = leftover

\* A seat is published only while the app-server was loaded from the very
\* definition on disk that the manifest owns, with no reload pending; or on a
\* definition that a failed setup left behind, together with its manifest.
ClaimedOnCurrent ==
  [][\A c \in seats' \ seats:
        /\ app.gen = plist \/ plist = leftover
        /\ plist = owned /\ marker = 0]_vars

\* A preflight gives up after six attempts only when crashes, upgrades, setups
\* or launchers that ended came in its way three times at least, however many
\* launchers are under way: every repair that is made, by it or by another,
\* brings the services closer to ready.
Converges ==
  \A c \in Launchers: pr[c].pc = "gave up" => pr[c].jolts = 3

=============================================================================
