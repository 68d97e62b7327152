---------------------------- MODULE HarnessSetup ----------------------------
(***************************************************************************)
(* roundtable-setup apply and remove.  Each harness is onboarded by pieces *)
(* in files that belong to the user: a fragment merged into a settings     *)
(* file, links, launchd definitions.  A manifest records which pieces      *)
(* setup added, so that they alone can be taken out again.  One command is *)
(* a transaction: plan under a lock, snapshot what it will touch, write    *)
(* path by path, publish the manifest, and restore the snapshots when a    *)
(* step fails.  Steps fail, restores fail, commands are killed, the user   *)
(* edits the same files, the package is upgraded between two commands.     *)
(* Source: pneu_packaging/setup.py.                                        *)
(***************************************************************************)
EXTENDS Naturals, Sequences, FiniteSets, SequencesExt

CONSTANTS
  Procs,        \* setup commands that may run at the same time
  Harnesses,    \* of "claude", "hermes", "codex"
  MaxEdits,     \* changes by the user
  MaxGen,       \* releases: a piece has a generation in each
  MaxFaults,    \* steps and restores that fail, commands killed
  OwnParts,     \* the kinds of piece a user may have put there himself
  none

ASSUME SetupAssumption ==
  /\ Harnesses \subseteq {"claude", "hermes", "codex"}
  /\ MaxEdits \in Nat /\ MaxFaults \in Nat /\ MaxGen \in Nat \ {0}
  /\ OwnParts \subseteq {"config", "plugin", "skill", "plist"}
  /\ none \notin Procs

VARIABLES
  disk,         \* what is at each leaf (a path setup may touch)
  man,          \* harness-setup.json: the record of each harness
  joined,       \* the launchd switch that joins Desktop to the daemon
  loaded,       \* are the Codex jobs loaded in launchd?
  release,      \* the generation the installed package writes
  lock,         \* who holds harness-setup.lock
  pr,           \* the commands
  faults, edits,
  user,         \* per leaf, what the user himself put there
  drift,        \* leaves from which the user took setup's piece
  broken        \* "no", or a rollback was "reported" incomplete, or a
                \* command "killed" while it wrote

vars == <<disk, man, joined, loaded, release, lock, pr, faults, edits, user,
          drift, broken>>

Gens == 1..MaxGen

\* The leaves of a harness.
Parts(h) == CASE h = "claude" -> {"config", "skill"}
              [] h = "hermes" -> {"config", "plugin", "skill"}
              [] h = "codex"  -> {"config", "marker", "plist", "skill"}

Leaves == {l \in Harnesses \X {"config", "marker", "plist", "plugin", "skill"}:
             l[2] \in Parts(l[1])}

\* A leaf holds the user's own text (0: none; a later edit has a higher
\* number) and pneu's piece in some generations ({}: not there).  Absent and
\* empty files are one content.
Contents == [text: 0..MaxEdits, gens: SUBSET Gens]
Empty == [text |-> 0, gens |-> {}]

\* added: the parts the record says setup put there; gen: the generation of
\* the part that follows the release.
NoRecord == [has |-> FALSE, added |-> {}, gen |-> 0]
NoManifest == [h \in Harnesses |-> NoRecord]

\* Which part of a harness changes with the release.
Follows(l) == l \in {<<"claude", "config">>, <<"codex", "plist">>,
                     <<"codex", "marker">>}
Want(l) == IF Follows(l) THEN release ELSE 1
Recorded(l) == IF Follows(l) THEN man[l[1]].gen ELSE 1

Idle == [pc |-> "idle", cmd |-> none, hs |-> {}, todo |-> <<>>,
         snap |-> <<>>, new |-> NoManifest, ext |-> FALSE, undo |-> <<>>,
         start |-> <<>>, wrote |-> FALSE, rolled |-> FALSE]

Init ==
  /\ disk = [l \in Leaves |-> Empty]
  /\ man = NoManifest
  /\ joined = FALSE /\ loaded = FALSE
  /\ release = 1
  /\ lock = none
  /\ pr = [c \in Procs |-> Idle]
  /\ faults = 0 /\ edits = 0
  /\ user = [l \in Leaves |-> Empty]
  /\ drift = {}
  /\ broken = "no"

-----------------------------------------------------------------------------
(* The user, the package and the launcher.                                 *)

UserMay == edits < MaxEdits /\ lock = none

UserChange ==
  /\ UserMay /\ edits' = edits + 1
  /\ UNCHANGED <<man, joined, loaded, release, lock, pr, faults, broken>>

\* The user, or the harness itself, edits its settings file.
EditText(l) ==
  /\ UserChange
  /\ l[2] = "config"
  /\ disk' = [disk EXCEPT ![l].text = edits + 1]
  /\ user' = [user EXCEPT ![l].text = edits + 1]
  /\ UNCHANGED drift

\* Something of the user's takes the place of a link, or goes away again.
Obstruct(l) ==
  /\ UserChange
  /\ l[2] \in {"plugin", "skill"}
  /\ \E t \in {0, edits + 1} \ {disk[l].text}:
        /\ disk' = [disk EXCEPT ![l] = [text |-> t, gens |-> {}]]
        /\ user' = [user EXCEPT ![l] = [text |-> t, gens |-> {}]]
  /\ drift' = drift \cup {l}

\* The user puts pneu's piece there by hand.  One that the manifest lists as
\* added is setup's, whoever puts it back.
PutPiece(l) ==
  /\ UserChange
  /\ l[2] \in OwnParts
  /\ disk[l].gens = {} /\ (l[2] # "config" => disk[l].text = 0)
  /\ LET listed == l[2] \in man[l[1]].added
         g == IF listed THEN Recorded(l) ELSE Want(l)
     IN /\ disk' = [disk EXCEPT ![l].gens = {g}]
        /\ user' = IF listed THEN user ELSE [user EXCEPT ![l].gens = {g}]
  /\ drift' = drift \ {l}

\* The user takes the piece out.
TakePiece(l) ==
  /\ UserChange
  /\ l[2] # "marker" /\ disk[l].gens # {}
  /\ disk' = [disk EXCEPT ![l].gens = {}]
  /\ user' = [user EXCEPT ![l].gens = {}]
  /\ drift' = drift \cup {l}

\* install: the pieces of the new release are of a new generation.
Upgrade ==
  /\ release < MaxGen /\ lock = none
  /\ release' = release + 1
  /\ UNCHANGED <<disk, man, joined, loaded, lock, pr, faults, edits, user,
                 drift, broken>>

\* A Codex launch, under the setup lock: only an owned and current definition
\* is loaded, and the pending reload is cleared.
Launch ==
  /\ "codex" \in Harnesses /\ lock = none
  /\ man["codex"].has /\ man["codex"].gen = release
  /\ disk[<<"codex", "plist">>] = [text |-> 0, gens |-> {release}]
  /\ disk[<<"codex", "marker">>].gens \subseteq {release}
  /\ loaded' = TRUE
  /\ disk' = [disk EXCEPT ![<<"codex", "marker">>] = Empty]
  /\ UNCHANGED <<man, joined, release, lock, pr, faults, edits, user, drift,
                 broken>>

-----------------------------------------------------------------------------
(* What a command demands before it writes.                                *)

Present(l) == IF l[2] = "config" THEN Recorded(l) \in disk[l].gens
              ELSE disk[l] = [text |-> 0, gens |-> {Recorded(l)}]

\* A pending reload must be the recorded definition's.
MarkerValid(h) == h = "codex" =>
  disk[<<h, "marker">>].gens \in {{}, {man[h].gen}}

\* Every recorded piece (for remove: every piece setup added) is in place.
Valid(h, parts) ==
  /\ \A p \in parts \ {"marker"}: Present(<<h, p>>)
  /\ MarkerValid(h)

\* A link or a definition is put where nothing is, or is there already.
Free(l) == disk[l] \in {Empty, [text |-> 0, gens |-> {Want(l)}]}

CanAdd(h) ==
  /\ \A p \in Parts(h) \ {"config", "marker"}: Free(<<h, p>>)
  /\ h = "codex" => disk[<<h, "marker">>] = Empty

\* A fragment of an older release is replaced in place, if setup added it.
CanUpgrade(h) ==
  /\ Valid(h, Parts(h))
  /\ h = "claude" /\ man[h].gen # release =>
       /\ "config" \in man[h].added
       /\ release \notin disk[<<h, "config">>].gens

CanApply(h) == IF man[h].has THEN CanUpgrade(h) ELSE CanAdd(h)
CanRemove(h) == Valid(h, man[h].added)

NeedsUnload(hs) == "codex" \in hs /\ "plist" \in man["codex"].added

-----------------------------------------------------------------------------
(* The plan: steps, the manifest to publish, the leaves to snapshot.       *)

Missing(h) == {p \in Parts(h) \ {"marker"}:
                 Want(<<h, p>>) \notin disk[<<h, p>>].gens}

\* Which leaves apply writes: the missing pieces, or the upgraded one; the
\* reload marker goes with a new Codex definition.
Writes(h) ==
  LET new == IF ~man[h].has THEN Missing(h)
             ELSE IF man[h].gen = release THEN {}
             ELSE CASE h = "claude" -> {"config"}
                    [] h = "codex"  -> {"plist"}
                    [] OTHER        -> {}
  IN IF h = "codex" /\ "plist" \in new THEN new \cup {"marker"} ELSE new

\* What apply writes there, made from what it read when it planned.
After(l) ==
  [text |-> disk[l].text,
   gens |-> IF l[2] = "config" /\ man[l[1]].has
            THEN (disk[l].gens \ {Recorded(l)}) \cup {Want(l)}
            ELSE IF l[2] = "config" THEN disk[l].gens \cup {Want(l)}
            ELSE {Want(l)}]

When(ok, step) == IF ok THEN <<step>> ELSE <<>>

PutStep(h, p) == When(p \in Writes(h), [do |-> "put", leaf |-> <<h, p>>,
                                        val |-> After(<<h, p>>)])

\* The switch follows the definitions and precedes the skill link.
ApplySteps(h) ==
  PutStep(h, "config") \o PutStep(h, "plugin") \o PutStep(h, "marker")
  \o PutStep(h, "plist")
  \o When(h = "codex" /\ ~man[h].has,
          [do |-> "join", leaf |-> <<h, "plist">>, val |-> Empty])
  \o PutStep(h, "skill")

\* The record keeps who added what; an unchanged harness keeps its record.
Prepared(h) == ~man[h].has \/ (h # "hermes" /\ man[h].gen # release)
ApplyRecord(h) ==
  IF ~Prepared(h) THEN man[h]
  ELSE IF man[h].has THEN [man[h] EXCEPT !.gen = release]
  ELSE [has |-> TRUE, added |-> Missing(h), gen |-> release]

\* Mutant: the reload marker is forgotten.
TakenNoMarker(h) == man[h].added

Taken(h) == man[h].added \cup (IF h = "codex" THEN {"marker"} ELSE {})

TakeStep(h, p) == When(p \in Taken(h), [do |-> "take", leaf |-> <<h, p>>,
                                        val |-> Empty])

RemoveSteps(h) ==
  TakeStep(h, "config") \o TakeStep(h, "plugin") \o TakeStep(h, "plist")
  \o TakeStep(h, "skill") \o TakeStep(h, "marker")

\* Before anything else the switch is unset and the jobs are unloaded.
Teardown(hs) ==
  When("codex" \in hs,
       [do |-> "unjoin", leaf |-> <<"codex", "plist">>, val |-> Empty])
  \o When(NeedsUnload(hs),
          [do |-> "unload", leaf |-> <<"codex", "plist">>, val |-> Empty])

\* One harness after the other.
StepsOf(cmd, hs, h) == IF h \notin hs THEN <<>>
                       ELSE IF cmd = "apply" THEN ApplySteps(h)
                       ELSE RemoveSteps(h)

PlanSteps(cmd, hs) ==
  (IF cmd = "apply" THEN <<>> ELSE Teardown(hs))
  \o StepsOf(cmd, hs, "claude") \o StepsOf(cmd, hs, "hermes")
  \o StepsOf(cmd, hs, "codex")

PlanRecord(cmd, hs) ==
  [h \in Harnesses |-> IF h \notin hs THEN man[h]
                       ELSE IF cmd = "apply" THEN ApplyRecord(h)
                       ELSE NoRecord]

Writing(s) == s.do \in {"put", "take"}
Written(steps) == {s.leaf : s \in {r \in ToSet(steps): Writing(r)}}
-----------------------------------------------------------------------------
(* A command.                                                              *)

Holds(c, pc) == pr[c].pc = pc /\ lock = c
Outside == <<release, edits, user>>

\* Before it takes the lock a command goes through its checks once, so that a
\* refused attempt writes nothing.
Ask(c) ==
  /\ pr[c].pc = "idle"
  /\ \E cmd \in {"apply", "remove"}, hs \in SUBSET Harnesses \ {{}}:
        /\ \A h \in hs: IF cmd = "apply" THEN CanApply(h)
                        ELSE man[h].has => CanRemove(h)
        /\ pr' = [pr EXCEPT ![c] = [Idle EXCEPT !.pc = "ask", !.cmd = cmd,
                                               !.hs = hs]]
  /\ UNCHANGED <<disk, man, joined, loaded, lock, faults, drift, broken,
                 Outside>>

Acquire(c) ==
  /\ pr[c].pc = "ask" /\ lock = none
  /\ lock' = c
  /\ pr' = [pr EXCEPT ![c].pc = "plan"]
  /\ UNCHANGED <<disk, man, joined, loaded, faults, drift, broken, Outside>>

Release(c) ==
  /\ pr' = [pr EXCEPT ![c] = Idle]
  /\ lock' = IF lock = c THEN none ELSE lock

\* Under the lock the manifest is loaded and every check is made again.  Of
\* the harnesses selected, apply writes the ones without an up-to-date record
\* and remove the ones with a record.
Selected(c) == {h \in pr[c].hs: IF pr[c].cmd = "apply" THEN Prepared(h)
                                ELSE man[h].has}

Admitted(c) ==
  \A h \in pr[c].hs: IF pr[c].cmd = "apply" THEN CanApply(h)
                     ELSE man[h].has => CanRemove(h)

Plan(c) ==
  /\ Holds(c, "plan") /\ Admitted(c) /\ Selected(c) # {}
  /\ pr' = [pr EXCEPT ![c].pc = "snap", ![c].hs = Selected(c),
                       ![c].new = PlanRecord(pr[c].cmd, Selected(c)),
                       ![c].todo = PlanSteps(pr[c].cmd, Selected(c))]
  /\ UNCHANGED <<disk, man, joined, loaded, lock, faults, drift, broken,
                 Outside>>

\* Nothing to do, or refused: any check may fail for reasons of its own.
Refuse(c) ==
  /\ Holds(c, "plan")
  /\ Release(c)
  /\ UNCHANGED <<disk, man, joined, loaded, faults, drift, broken, Outside>>

\* What the steps will write is saved; the manifest comes after them.
Snapshot(c) ==
  /\ Holds(c, "snap")
  /\ LET steps == pr[c].todo
     IN pr' = [pr EXCEPT
          ![c].pc = "write", ![c].undo = steps,
          ![c].todo = steps \o
             <<[do |-> "manifest", leaf |-> none, val |-> Empty],
               [do |-> "end", leaf |-> none, val |-> Empty]>>,
          ![c].snap = [l \in Written(steps) |-> disk[l]],
          ![c].start = [disk |-> disk, man |-> man, joined |-> joined,
                        loaded |-> loaded]]
  /\ UNCHANGED <<disk, man, joined, loaded, lock, faults, drift, broken,
                 Outside>>

Next1(c) == Head(pr[c].todo)
Doing(c, do) == Holds(c, "write") /\ Next1(c).do = do
Done(c) == pr' = [pr EXCEPT ![c].todo = Tail(@)]

\* A link is only made where nothing is; files are replaced.
Possible(c) ==
  LET s == Next1(c)
  IN CASE s.do = "put" /\ s.leaf[2] \in {"plugin", "skill"} ->
            disk[s.leaf] = Empty
       [] s.do = "take" /\ s.leaf[2] = "config" ->
            Recorded(s.leaf) \in disk[s.leaf].gens
       [] s.do = "take" /\ s.leaf[2] # "marker" -> disk[s.leaf] # Empty
       [] OTHER -> TRUE

Put(c) ==
  /\ Doing(c, "put") /\ Possible(c)
  /\ disk' = [disk EXCEPT ![Next1(c).leaf] = Next1(c).val]
  /\ drift' = drift \ {Next1(c).leaf}
  /\ Done(c)
  /\ UNCHANGED <<man, joined, loaded, lock, faults, broken, Outside>>

\* A fragment is taken out of the file as it is now; links and definitions
\* are unlinked.
Take(c) ==
  /\ Doing(c, "take") /\ Possible(c)
  /\ LET l == Next1(c).leaf
     IN disk' = IF l[2] = "config"
                THEN [disk EXCEPT ![l].gens = @ \ {Recorded(l)}]
                ELSE [disk EXCEPT ![l] = Empty]
  /\ Done(c)
  /\ UNCHANGED <<man, joined, loaded, lock, faults, drift, broken, Outside>>

\* launchctl setenv: a failure is not fatal.
Join(c) ==
  /\ Doing(c, "join")
  /\ joined' \in {TRUE, joined}
  /\ Done(c)
  /\ UNCHANGED <<disk, man, loaded, lock, faults, drift, broken, Outside>>

\* launchctl unsetenv: not found, failed or done, the removal goes on.
Unjoin(c) ==
  /\ Doing(c, "unjoin")
  /\ \E invoked, ok \in BOOLEAN:
        /\ joined' = (joined /\ ~(invoked /\ ok))
        /\ pr' = [pr EXCEPT ![c].todo = Tail(@), ![c].ext = invoked]
  /\ UNCHANGED <<disk, man, loaded, lock, faults, drift, broken, Outside>>

\* launchctl bootout, of a loaded job only.
Unload(c) ==
  /\ Doing(c, "unload")
  /\ loaded' = FALSE
  /\ pr' = [pr EXCEPT ![c].todo = Tail(@), ![c].ext = @ \/ loaded]
  /\ UNCHANGED <<disk, man, joined, lock, faults, drift, broken, Outside>>

Publish(c) ==
  /\ Doing(c, "manifest")
  /\ man' = pr[c].new
  /\ Done(c)
  /\ UNCHANGED <<disk, joined, loaded, lock, faults, drift, broken, Outside>>

Succeed(c) ==
  /\ Doing(c, "end")
  /\ Release(c)
  /\ UNCHANGED <<disk, man, joined, loaded, faults, drift, broken, Outside>>

Same(c, l) == disk[l] = pr[c].snap[l]
Restored(c) == /\ man = pr[c].start.man
               /\ \A l \in DOMAIN pr[c].snap: Same(c, l)

\* A step fails, or an error follows what it did (the step after it fails):
\* the snapshots are restored, the last one first.
Fail(c) ==
  /\ Holds(c, "write")
  /\ \/ Possible(c) /\ faults < MaxFaults /\ faults' = faults + 1
     \/ ~Possible(c) /\ UNCHANGED faults
  /\ pr' = [pr EXCEPT ![c].pc = "unpublish", ![c].wrote = ~Restored(c),
                       ![c].ext = @ \/ (Doing(c, "unload") /\ loaded)]
  /\ UNCHANGED <<disk, man, joined, loaded, lock, drift, broken, Outside>>

\* Every restore may fail and the others go on.
Restore(c) ==
  \/ Holds(c, "unpublish")
     /\ \/ man' = pr[c].start.man /\ UNCHANGED faults
        \/ /\ man # pr[c].start.man /\ faults < MaxFaults
           /\ faults' = faults + 1 /\ UNCHANGED man
     /\ pr' = [pr EXCEPT ![c].pc = "undo"]
     /\ UNCHANGED <<disk, joined, loaded, lock, drift, broken, Outside>>
  \/ Holds(c, "undo") /\ pr[c].undo # <<>>
     /\ LET s == Last(pr[c].undo)
            l == s.leaf
        IN \/ ~Writing(s) /\ UNCHANGED <<disk, faults>>
           \/ /\ Writing(s)
              /\ disk' = [disk EXCEPT ![l] = pr[c].snap[l]]
              /\ UNCHANGED faults
           \/ /\ Writing(s) /\ ~Same(c, l) /\ faults < MaxFaults
              /\ faults' = faults + 1 /\ UNCHANGED disk
     /\ pr' = [pr EXCEPT ![c].undo = Front(@)]
     /\ UNCHANGED <<man, joined, loaded, lock, drift, broken, Outside>>

\* What is said: were files written, and were they all restored?  A remove
\* counts what it did to launchd as a change no rollback undoes.
Tell(c) ==
  /\ Holds(c, "undo") /\ pr[c].undo = <<>>
  /\ LET removing == pr[c].cmd = "remove"
         wrote == pr[c].wrote \/ (removing /\ pr[c].ext)
     IN pr' = [pr EXCEPT
          ![c].pc = "told", ![c].wrote = wrote,
          ![c].rolled = wrote /\ Restored(c) /\ ~(removing /\ pr[c].ext)]
  /\ broken' = IF Restored(c) THEN broken ELSE "reported"
  /\ UNCHANGED <<disk, man, joined, loaded, lock, faults, drift, Outside>>

GiveUp(c) ==
  /\ Holds(c, "told")
  /\ Release(c)
  /\ UNCHANGED <<disk, man, joined, loaded, faults, drift, broken, Outside>>

Kill(c) ==
  /\ pr[c].pc \notin {"idle", "told"}
  /\ faults < MaxFaults /\ faults' = faults + 1
  /\ Release(c)
  /\ broken' = IF pr[c].pc \in {"write", "unpublish", "undo"} THEN "killed"
               ELSE broken
  /\ UNCHANGED <<disk, man, joined, loaded, drift, Outside>>

Command(c) ==
  \/ Ask(c) \/ Acquire(c) \/ Plan(c) \/ Refuse(c) \/ Snapshot(c)
  \/ Put(c) \/ Take(c) \/ Join(c) \/ Unjoin(c) \/ Unload(c)
  \/ Publish(c) \/ Succeed(c) \/ Fail(c) \/ Restore(c) \/ Tell(c)
  \/ GiveUp(c) \/ Kill(c)

Next ==
  \/ \E c \in Procs: Command(c)
  \/ \E l \in Leaves: EditText(l) \/ Obstruct(l) \/ PutPiece(l) \/ TakePiece(l)
  \/ Upgrade \/ Launch

Spec == Init /\ [][Next]_vars

-----------------------------------------------------------------------------
(* Properties.                                                             *)

\* The leaves and records are well-formed and only the holder of the lock is
\* past Acquire.
TypeOK ==
  /\ disk \in [Leaves -> Contents] /\ user \in [Leaves -> Contents]
  /\ \A h \in Harnesses: man[h] \in [has: BOOLEAN, added: SUBSET Parts(h),
                                     gen: 0..MaxGen]
  /\ joined \in BOOLEAN /\ loaded \in BOOLEAN
  /\ broken \in {"no", "reported", "killed"}
  /\ release \in Gens /\ drift \subseteq Leaves
  /\ \A c \in Procs: (lock = c) <=> pr[c].pc \notin {"idle", "ask"}

\* Whatever commands do, fail at or are killed in, what the user put in his
\* files stays there: his text, and a piece of pneu's he has put there himself.
UsersKept ==
  \A l \in Leaves: /\ disk[l].text = user[l].text
                   /\ user[l].gens \subseteq disk[l].gens

Owned(l) == IF l[2] \in man[l[1]].added /\ l \notin drift
            THEN {Recorded(l)} ELSE {}

\* Between two commands the manifest is exact: what is in the user's files
\* besides his own is what the manifest says setup added, with the recorded
\* generation, after applies, upgrades, removals of other harnesses and
\* transactions rolled back.
OwnedExactly ==
  lock = none /\ broken = "no" =>
    \A l \in Leaves:
      IF l[2] = "marker"
      THEN disk[l].gens # {} => man[l[1]].has /\ disk[l].gens = {man[l[1]].gen}
      ELSE disk[l].gens = user[l].gens \cup Owned(l)

\* A command that reports that it wrote nothing, or that it was rolled back,
\* has left every file and the manifest as they were.
ReportedFiles ==
  \A c \in Procs: pr[c].pc = "told" /\ (pr[c].rolled \/ ~pr[c].wrote) =>
    disk = pr[c].start.disk /\ man = pr[c].start.man

\* Where the user has changed nothing of setup's, no rollback was reported
\* incomplete and no command was killed while it wrote, a further apply is
\* accepted, after any history of upgrades, and so is a removal of what is
\* recorded.
RerunAccepted ==
  /\ lock = none /\ broken = "no"
  /\ drift = {} /\ \A l \in Leaves: user[l].gens = {}
  =>
    \A h \in Harnesses: CanApply(h) /\ (man[h].has => CanRemove(h))

=============================================================================
