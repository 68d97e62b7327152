---------------------------- MODULE Installation ----------------------------
(***************************************************************************)
(* The installer and the uninstaller of the package.  A release is a       *)
(* virtual environment in a directory of its own; wrappers, command links  *)
(* and the link current point into it; a manifest lists all of them and is *)
(* what uninstall goes by.  Every command first checks each path, then     *)
(* changes one after the other.  No lock keeps two commands apart, steps   *)
(* fail, commands are killed, and the paths are the user's to change.      *)
(* Source: pneu_packaging/cli.py.                                          *)
(***************************************************************************)
EXTENDS Naturals, Sequences, FiniteSets, SequencesExt

CONSTANTS
  Procs,          \* commands that may run at the same time
  Wrappers,       \* files whose content follows the release
  Links,          \* links whose target does not
  MaxGen,         \* releases
  MaxEdits,       \* changes by the user
  MaxFaults,      \* steps that fail, commands killed
  none, mine      \* no content, the user's own content

InstallationAssumption ==
  /\ MaxGen \in Nat \ {0} /\ MaxEdits \in Nat /\ MaxFaults \in Nat
  /\ IsFiniteSet(Wrappers) /\ IsFiniteSet(Links)
  /\ Wrappers \cap Links = {} /\ "current" \notin Wrappers \cup Links
  /\ none # mine /\ {none, mine} \cap 1..MaxGen = {}
  /\ none \notin {"install", "uninstall"}

VARIABLES
  path,       \* what is at each managed path
  ver,        \* the version directories: "none", "partial" (no marker),
              \* "torn" (a marker, but files are missing), "whole"
  man,        \* install-manifest.json
  agent,      \* a launch agent under one of the package's labels
  pr,         \* the commands
  user,       \* where the user put something of his own
  tried,      \* the release whose first install failed
  edits, faults,
  upset       \* was a command killed, or at work beside another one?

vars == <<path, ver, man, agent, pr, user, tried, edits, faults, upset>>

Gens == 1..MaxGen
Paths == Wrappers \cup Links \cup {"current"}
Payload(p, g) == IF p \in Links THEN 1 ELSE g

NoManifest == [has |-> FALSE, gen |-> 0, vers |-> {}]
Idle == [pc |-> "idle", cmd |-> none, gen |-> 0, prev |-> NoManifest,
         todo |-> <<>>]

Init ==
  /\ path = [p \in Paths |-> none]
  /\ ver = [g \in Gens |-> "none"]
  /\ man = NoManifest
  /\ agent = none
  /\ pr = [c \in Procs |-> Idle]
  /\ user = {}
  /\ tried = 0 /\ edits = 0 /\ faults = 0 /\ upset = FALSE

Quiet == \A c \in Procs: pr[c].pc = "idle"
-----------------------------------------------------------------------------
(* The user.                                                               *)

UserMay == edits < MaxEdits /\ Quiet

UserChange ==
  /\ UserMay /\ edits' = edits + 1
  /\ UNCHANGED <<ver, man, pr, tried, faults, upset>>

\* The user puts something of his own at a managed path, or takes away what
\* is there.
ChangePath(p) ==
  /\ UserChange
  /\ \/ path' = [path EXCEPT ![p] = mine] /\ user' = user \cup {p}
     \/ path' = [path EXCEPT ![p] = none] /\ user' = user \ {p}
  /\ UNCHANGED agent

\* A launch agent under the package's label, that runs the package or not.
ChangeAgent ==
  /\ UserChange
  /\ agent' \in {1, mine}
  /\ UNCHANGED <<path, user>>

-----------------------------------------------------------------------------
(* What a command checks before its first change.                          *)

Recorded(m, p) == IF m.has THEN {Payload(p, m.gen)} ELSE {}

\* A wrapper or a link may be absent, as wanted, or as recorded.  The link
\* current must be the recorded one; without a record any version will do.
Accepts(p, g, m) ==
  IF p = "current"
  THEN path[p] \in {none} \cup (IF m.has THEN {m.gen} ELSE Gens)
  ELSE path[p] \in {none, Payload(p, g)} \cup Recorded(m, p)

CanInstall(g, m) ==
  /\ \A p \in Paths: Accepts(p, g, m)
  /\ ver[g] \in {"none", "whole"}

CanUninstall(m) ==
  /\ \A p \in Paths: path[p] \in {none} \cup Recorded(m, p)
  /\ \A v \in m.vers: ver[v] # "partial"

-----------------------------------------------------------------------------
(* Commands.                                                               *)

World == <<path, ver, man, agent, user, tried, edits, faults, upset>>
Scene == <<man, agent, user, tried, edits, faults, upset>>

\* A command loads the manifest.  uninstall without one has nothing to do.
\* The instance lets installs overlap, but keeps uninstall to itself.
Begin(c, cmd, g) ==
  /\ pr[c].pc = "idle"
  /\ IF cmd = "uninstall" THEN man.has /\ Quiet
     ELSE \A d \in Procs: pr[d].cmd # "uninstall"
  /\ pr' = [pr EXCEPT ![c] = [pc |-> "check", cmd |-> cmd, gen |-> g,
                              prev |-> man, todo |-> <<>>]]
  /\ upset' = (upset \/ ~Quiet)
  /\ UNCHANGED <<path, ver, man, agent, user, tried, edits, faults>>

Do(what, at) == [do |-> what, at |-> at]
Each(what, S) == LET s == SetToSeq(S)
                 IN [i \in DOMAIN s |-> Do(what, s[i])]

\* The version is built and marked, then wrappers, current and links are
\* replaced one by one, and the manifest comes last.
InstallSteps(c) ==
  <<Do("build", pr[c].gen)>> \o Each("write", Wrappers)
  \o <<Do("write", "current")>> \o Each("write", Links)
  \o <<Do("publish", none)>>

UninstallSteps(c) ==
  <<Do("agent", none)>> \o Each("unlink", Links) \o Each("unlink", Wrappers)
  \o <<Do("unlink", "current")>> \o Each("rmtree", pr[c].prev.vers)
  \o <<Do("forget", none)>>

Check(c) ==
  /\ pr[c].pc = "check"
  /\ pr' = [pr EXCEPT ![c] =
       IF pr[c].cmd = "install"
       THEN IF CanInstall(pr[c].gen, pr[c].prev)
            THEN [@ EXCEPT !.pc = "go", !.todo = InstallSteps(c)] ELSE Idle
       ELSE IF CanUninstall(pr[c].prev)
            THEN [@ EXCEPT !.pc = "go", !.todo = UninstallSteps(c)] ELSE Idle]
  /\ UNCHANGED World

Doing(c, do) == pr[c].pc = "go" /\ Head(pr[c].todo).do = do
At(c) == Head(pr[c].todo).at
Done(c) == pr' = [pr EXCEPT ![c].todo = Tail(@)]
End(c) == pr' = [pr EXCEPT ![c] = Idle]

\* A version that is there and whole is used as it is.
Reuse(c) ==
  /\ Doing(c, "build") /\ ver[At(c)] = "whole"
  /\ Done(c)
  /\ UNCHANGED World

BuildBegin(c) ==
  /\ Doing(c, "build") /\ ver[At(c)] = "none"
  /\ ver' = [ver EXCEPT ![At(c)] = "partial"]
  /\ pr' = [pr EXCEPT ![c].pc = "building"]
  /\ UNCHANGED <<path, Scene>>

BuildDone(c) ==
  /\ pr[c].pc = "building"
  /\ ver' = [ver EXCEPT ![At(c)] = "whole"]
  /\ pr' = [pr EXCEPT ![c].pc = "go", ![c].todo = Tail(@)]
  /\ UNCHANGED <<path, Scene>>

\* A directory without a marker, or another installer's half-built one.
BuildRefused(c) ==
  /\ Doing(c, "build") /\ ver[At(c)] \in {"partial", "torn"}
  /\ End(c)
  /\ UNCHANGED World

\* Whatever is at the path now is replaced.
Write(c) ==
  /\ Doing(c, "write")
  /\ path' = [path EXCEPT ![At(c)] = Payload(At(c), pr[c].gen)]
  /\ Done(c)
  /\ UNCHANGED <<ver, Scene>>

\* Mutant: the versions of earlier releases are no longer listed.
PublishAlone(c) ==
  /\ Doing(c, "publish")
  /\ man' = [has |-> TRUE, gen |-> pr[c].gen, vers |-> {pr[c].gen}]
  /\ tried' = 0
  /\ End(c)
  /\ UNCHANGED <<path, ver, agent, user, edits, faults, upset>>

Publish(c) ==
  /\ Doing(c, "publish")
  /\ man' = [has |-> TRUE, gen |-> pr[c].gen,
             vers |-> pr[c].prev.vers \cup {pr[c].gen}]
  /\ tried' = 0
  /\ End(c)
  /\ UNCHANGED <<path, ver, agent, user, edits, faults, upset>>

\* Only an agent that runs the package is unloaded and removed.
RemoveAgent(c) ==
  /\ Doing(c, "agent")
  /\ agent' = IF agent = mine THEN mine ELSE none
  /\ Done(c)
  /\ UNCHANGED <<path, ver, man, user, tried, edits, faults, upset>>

\* Each path is looked at once more before it is removed.
Unlink(c) ==
  /\ Doing(c, "unlink")
  /\ path' = IF path[At(c)] \in Recorded(pr[c].prev, At(c))
             THEN [path EXCEPT ![At(c)] = none] ELSE path
  /\ Done(c)
  /\ UNCHANGED <<ver, Scene>>

RemoveTree(c) ==
  /\ Doing(c, "rmtree")
  /\ ver' = [ver EXCEPT ![At(c)] = IF @ = "partial" THEN @ ELSE "none"]
  /\ Done(c)
  /\ UNCHANGED <<path, Scene>>

Forget(c) ==
  /\ Doing(c, "forget")
  /\ man' = NoManifest
  /\ End(c)
  /\ UNCHANGED <<path, ver, agent, user, tried, edits, faults, upset>>

\* The removal of a tree stops half-way, before its marker or after.
HalfRemoved(c) ==
  IF Doing(c, "rmtree") /\ ver[At(c)] \in {"torn", "whole"}
  THEN \E v \in {"partial", "torn"}: ver' = [ver EXCEPT ![At(c)] = v]
  ELSE ver' = ver

Failed(c) ==
  tried' = IF pr[c].cmd = "install" /\ ~pr[c].prev.has THEN pr[c].gen
           ELSE tried

\* A failed build takes its unmarked directory with it.
FailBuild(c) ==
  /\ pr[c].pc = "building"
  /\ faults < MaxFaults /\ faults' = faults + 1
  /\ ver' = [ver EXCEPT ![At(c)] = "none"]
  /\ Failed(c) /\ End(c)
  /\ UNCHANGED <<path, man, agent, user, edits, upset>>

\* Any other step that fails ends the command; nothing is undone.
Fail(c) ==
  /\ pr[c].pc = "go"
  /\ faults < MaxFaults /\ faults' = faults + 1
  /\ HalfRemoved(c) /\ Failed(c) /\ End(c)
  /\ UNCHANGED <<path, man, agent, user, edits, upset>>

Kill(c) ==
  /\ pr[c].pc \in {"go", "building"}
  /\ faults < MaxFaults /\ faults' = faults + 1
  /\ upset' = TRUE
  /\ HalfRemoved(c) /\ End(c)
  /\ UNCHANGED <<path, man, agent, user, tried, edits>>

Command(c) ==
  \/ Begin(c, "uninstall", 0)
  \/ \E g \in Gens: Begin(c, "install", g)
  \/ Check(c) \/ Reuse(c) \/ BuildBegin(c) \/ BuildDone(c) \/ BuildRefused(c)
  \/ Write(c) \/ Publish(c) \/ RemoveAgent(c) \/ Unlink(c) \/ RemoveTree(c)
  \/ Forget(c) \/ FailBuild(c) \/ Fail(c) \/ Kill(c)

Next ==
  \/ \E c \in Procs: Command(c)
  \/ \E p \in Paths: ChangePath(p)
  \/ ChangeAgent

Spec == Init /\ [][Next]_vars
-----------------------------------------------------------------------------
(* Properties.                                                             *)

\* Every variable has its type; a manifest lists the release it is of.
TypeOK ==
  /\ \A p \in Paths: path[p] \in Gens \cup {none, mine}
  /\ \A g \in Gens: ver[g] \in {"none", "partial", "torn", "whole"}
  /\ man.has => man.gen \in Gens /\ man.gen \in man.vers /\ man.vers \subseteq Gens
  /\ agent \in {none, mine, 1}
  /\ user \subseteq Paths

\* What the user put at a managed path stays there: install and uninstall
\* stop before they overwrite or remove it.
UsersKept == \A p \in user: path[p] = mine

\* The link current never leads into a version that is not whole.
CurrentWhole == path["current"] \in Gens => ver[path["current"]] = "whole"

\* The foreign launch agent outlives every uninstall.
AgentKept == [][agent = mine => agent' = mine \/ edits' > edits]_vars

\* When nothing has failed and no two commands overlapped, whatever releases
\* came and went: an uninstall leaves no wrapper, link or version behind.
NothingLeft ==
  Quiet /\ faults = 0 /\ ~upset /\ ~man.has =>
    /\ \A p \in Paths: path[p] \in {none, mine}
    /\ \A g \in Gens: ver[g] = "none"

\* ... and where the user has nothing in the way, every release can be
\* installed over the present one, and the present one removed.
Undisturbed == Quiet /\ user = {}
RerunAccepted ==
  Undisturbed /\ faults = 0 /\ ~upset =>
    /\ \A g \in Gens: CanInstall(g, man)
    /\ man.has => CanUninstall(man)

\* A first install that failed, at whatever step, can be repeated.
FirstInstallRepeatable ==
  Undisturbed /\ ~upset /\ ~man.has /\ tried # 0 => CanInstall(tried, man)

=============================================================================
