----------------------------- MODULE Migration -----------------------------
(***************************************************************************)
(* Moving one project's mailbox between its local tree and its central     *)
(* generation: migrate_project and rollback_project of bin/_rtmigrate.py.  *)
(* The registry's layout says which tree is authoritative.  A command runs *)
(* under the exclusive layout lock up to Unlock and purges what it retired *)
(* after it; it may fail or be killed at every step, and it may be rerun.  *)
(***************************************************************************)
EXTENDS Naturals, FiniteSets

CONSTANTS
  Procs,        \* processes that run a migration command
  Messages,     \* mail that the mail tools deliver
  Strays,       \* mail written by hand into the local tree
  MaxOps,       \* bound: operation ids of new transactions
  MaxFaults,    \* bound: torn copies, failures and kills
  MaxSpares,    \* bound: uuid-named retired trees per operation
  Legacy        \* whether the project may start in a legacy central layout

ASSUME MigrationAssumption ==
  /\ MaxOps \in Nat /\ MaxFaults \in Nat /\ MaxSpares \in Nat
  /\ Messages \cap Strays = {}
  /\ Legacy \in BOOLEAN

VARIABLES
  layout,       \* the registry row: which tree is authoritative
  bookmark,     \* .roundtable/mail leads to the central tree
  local,        \* the parts present in .roundtable, and their mail
  central,      \* the central generation: mail and its marker
  retired,      \* .central-mail-retired.<op>[.<uuid>] that exist
  shelf,        \* names under which central generations were set aside
  archive,      \* the archive of a legacy generation still exists
  records,      \* durable recovery records
  marker,       \* the rollback marker in .roundtable
  lastId,       \* operation ids handed out
  op,           \* op[p]: the command p runs, and how far it has come
  verdict,      \* verdict[p]: what p's last command reported
  flipped,      \* history: p's command changed the layout
  stray,        \* history: mail written by hand, and under a lock or not
  faults

store == <<archive, records, marker, shelf>>
trees == <<local, central, retired>>
vars == <<layout, bookmark, trees, store, lastId, op, verdict, flipped,
          stray, faults>>

Mail == Messages \cup Strays
Marks == {"absent", "new", "cur"}
MailParts == {"inbox", "messages"}
Parts == MailParts \cup {"locks"}
Ids == 0..MaxOps
Names == Ids \X (0..MaxSpares)
NoMail == [m \in Mail |-> "absent"]
NoTree == [parts |-> {}, mail |-> NoMail]
NoGeneration == [op |-> "none"]
NoMarker == [source |-> "none"]
NoName == <<"none">>
Nothing == [x \in {} |-> x]
Idle == [pc |-> "idle", kind |-> "migrate", id |-> 0, asked |-> 0,
         snap |-> NoMail, copy |-> NoMail, backup |-> NoMail, base |-> 0,
         stale |-> FALSE, trusted |-> FALSE, drift |-> FALSE, left |-> {},
         dest |-> NoName, inside |-> FALSE]

Contents == [Mail -> Marks]
Trees == [parts : SUBSET Parts, mail : Contents]
Generations == [op : Ids, mail : Contents, legacy : BOOLEAN]
Records == [kind : {"migrate", "rollback"}, mail : Contents, source : Ids]
Steps == {"idle", "begin", "rebind", "backup", "seal", "record", "shelve",
          "stage", "publish", "displace", "install", "mark", "prove",
          "flip", "recheck", "cleanup", "assessed", "retire", "bookmark",
          "unmark", "withdraw", "unlock", "purge"}

Commands == [pc : Steps, kind : {"migrate", "rollback"}, id : Ids, asked : Ids,
             snap : Contents, copy : Contents, backup : Contents, base : Ids,
             stale : BOOLEAN, trusted : BOOLEAN, drift : BOOLEAN,
             left : SUBSET Parts,
             dest : Names \cup {NoName}, inside : BOOLEAN]

\* The functions over operation ids and names are partial: what is not in
\* their domain does not exist.
TypeOK ==
  /\ layout \in {"local", "central"} /\ bookmark \in BOOLEAN
  /\ local \in Trees
  /\ central \in Generations \cup {NoGeneration}
  /\ DOMAIN retired \subseteq Names
  /\ \A n \in DOMAIN retired : retired[n] \in Trees
  /\ archive \in BOOLEAN /\ shelf \subseteq {"stale", "rolledback"} \X Ids
  /\ DOMAIN records \subseteq Ids
  /\ \A i \in DOMAIN records : records[i] \in Records
  /\ marker = NoMarker \/ marker \in [source : Ids, rollback : Ids]
  /\ lastId \in Ids /\ stray \subseteq Strays \X {"between", "during"}
  /\ faults \in 0..MaxFaults
  /\ op \in [Procs -> Commands]

\* One more entry of a partial function, or one less.
With(f, x, y) == [z \in DOMAIN f \cup {x} |-> IF z = x THEN y ELSE f[z]]
Without(f, x) == [z \in DOMAIN f \ {x} |-> f[z]]

Holds(p) == op[p].pc \notin {"idle", "purge"}
Unlocked == \A p \in Procs : ~Holds(p)

\* A mailbox that is local, or one that an unreleased version made central.
Init ==
  /\ \/ /\ layout = "local" /\ bookmark = FALSE
        /\ local = [parts |-> Parts, mail |-> NoMail]
        /\ central = NoGeneration
        /\ archive = FALSE
     \/ /\ Legacy
        /\ layout = "central" /\ bookmark = TRUE
        /\ local = NoTree
        /\ central = [op |-> 0, mail |-> NoMail, legacy |-> TRUE]
        /\ archive = TRUE
  /\ retired = Nothing /\ records = Nothing
  /\ shelf = {} /\ marker = NoMarker
  /\ lastId = 0 /\ stray = {} /\ faults = 0
  /\ op = [p \in Procs |-> Idle]
  /\ verdict = [p \in Procs |-> "none"]
  /\ flipped = [p \in Procs |-> FALSE]

---------------------------------------------------------------------------
(* The mail tools, and a hand that writes where it should not.             *)

\* Mail tools take the lock shared and use the tree the registry names.
InAuthority(m, from, to) ==
  /\ Unlocked
  /\ IF layout = "local"
     THEN /\ local.mail[m] = from
          /\ local' = [local EXCEPT !.mail[m] = to]
          /\ UNCHANGED central
     ELSE /\ central.mail[m] = from
          /\ central' = [central EXCEPT !.mail[m] = to]
          /\ UNCHANGED local
  /\ UNCHANGED <<layout, bookmark, retired, store, lastId, op, verdict,
                 flipped, stray, faults>>

Deliver(m) == InAuthority(m, "absent", "new")
Read(m) == InAuthority(m, "new", "cur")

\* Somebody writes a message into the local tree of a central project: a hand
\* takes no lock, and may write at any moment of a command.
WriteByHand(m) ==
  /\ layout = "central" /\ local.mail[m] = "absent"
  /\ \A w \in stray : w[1] # m
  /\ stray' = stray \cup {<<m, IF Unlocked THEN "between" ELSE "during">>}
  /\ local' = [parts |-> local.parts \cup {"inbox"},
               mail |-> [local.mail EXCEPT ![m] = "new"]]
  /\ UNCHANGED <<layout, bookmark, central, retired, store, lastId, op,
                 verdict, flipped, faults>>

\* The operator removes the archive bundles.
DiscardArchive ==
  /\ Unlocked /\ archive
  /\ archive' = FALSE
  /\ UNCHANGED <<layout, bookmark, trees, records, marker, shelf, lastId, op,
                 verdict, flipped, stray, faults>>

---------------------------------------------------------------------------
(* How a command goes on and how it ends.                                  *)

End(p, report) ==
  /\ op' = [op EXCEPT ![p] = Idle]
  /\ verdict' = [verdict EXCEPT ![p] = report]
  /\ flipped' = [flipped EXCEPT ![p] = FALSE]

Refusal(p) ==
  /\ End(p, "failed")
  /\ UNCHANGED <<layout, bookmark, trees, store, lastId, stray, faults>>

\* A step of p that changes op and what the caller says, and nothing else.
Within == UNCHANGED <<verdict, stray, faults>>

At(p, kind, pc) == op[p].kind = kind /\ op[p].pc = pc

\* The command is given and gets the exclusive layout lock.
StartUnlocked(p, kind, asked) ==                                   \* mutant
  /\ op[p].pc = "idle"
  /\ op' = [op EXCEPT ![p] = [Idle EXCEPT !.pc = "begin", !.kind = kind,
                                          !.asked = asked]]
  /\ verdict' = [verdict EXCEPT ![p] = "none"]
  /\ UNCHANGED <<layout, bookmark, trees, store, lastId, flipped, stray,
                 faults>>

Start(p, kind, asked) ==
  /\ op[p].pc = "idle" /\ Unlocked
  /\ op' = [op EXCEPT ![p] = [Idle EXCEPT !.pc = "begin", !.kind = kind,
                                          !.asked = asked]]
  /\ verdict' = [verdict EXCEPT ![p] = "none"]
  /\ UNCHANGED <<layout, bookmark, trees, store, lastId, flipped, stray,
                 faults>>

\* A projected hold beyond the budget, a project that moved, an unsafe tree.
Refuse(p) == op[p].pc = "begin" /\ Refusal(p)

\* From the flip on, or once the layout is found to be the desired one, a
\* failure is reported as committed.
Committed(p) ==
  \/ op[p].pc \in {"recheck", "cleanup", "assessed", "bookmark", "unmark",
                  "withdraw", "unlock"}
  \/ At(p, "migrate", "retire")

\* An exception unwinds to the caller, staging directories removed; a kill
\* reports nothing.  What was renamed stays renamed.
Fail(p) ==
  /\ Holds(p) /\ faults < MaxFaults
  /\ faults' = faults + 1
  /\ End(p, IF Committed(p) THEN "committed" ELSE "failed")
  /\ UNCHANGED <<layout, bookmark, trees, store, lastId, stray>>

Kill(p) ==
  /\ op[p].pc # "idle" /\ faults < MaxFaults
  /\ faults' = faults + 1
  /\ End(p, "none")
  /\ UNCHANGED <<layout, bookmark, trees, store, lastId, stray>>

---------------------------------------------------------------------------
(* Generations, records and copies.                                        *)

\* A copy that lost a message, as a failing disk or a race leaves it.
Torn(mail) ==
  {[mail EXCEPT ![m] = "absent"] : m \in {n \in Mail : mail[n] # "absent"}}

\* copy_snapshot writes op[p].copy; a torn one is one of the faults.
CopyInto(p, mail, next) ==
  /\ \/ op' = [op EXCEPT ![p].copy = mail, ![p].pc = next]
        /\ UNCHANGED faults
     \/ /\ faults < MaxFaults /\ faults' = faults + 1
        /\ \E c \in Torn(mail) :
             op' = [op EXCEPT ![p].copy = c, ![p].pc = next]
  /\ UNCHANGED <<layout, bookmark, trees, store, lastId, verdict, flipped,
                 stray>>

\* A marker that names its durable recovery record, of a forward migration.
Verified(g) ==
  /\ g # NoGeneration /\ ~g.legacy
  /\ g.op \in DOMAIN records
  /\ records[g.op].kind = "migrate"

\* The generation is bound to the manifest of this operation.
BoundTo(g, id) == g # NoGeneration /\ g.op = id

Pristine(g) == Verified(g) /\ g.mail = records[g.op].mail

\* The top-level directories that a mailbox consists of are both there.
Whole(tree) == MailParts \subseteq tree.parts

\* The tree of a retired name, or of nothing.
Retired(n) == IF n \in DOMAIN retired THEN retired[n] ELSE NoTree

\* A legacy marker names an archive: its recovery record is written first,
\* then the marker is rebound to it.  Without the archive the import fails.
NeedsImport(p) ==
  /\ op[p].pc = "begin" /\ central # NoGeneration /\ central.legacy
  /\ layout = "central" \/ op[p].kind = "migrate"

ImportRecord(p) ==
  /\ NeedsImport(p) /\ archive
  /\ records' = With(records, central.op,
                     [kind |-> "migrate", mail |-> NoMail, source |-> 0])
  /\ op' = [op EXCEPT ![p].pc = "rebind"]
  /\ UNCHANGED <<layout, bookmark, trees, archive, marker, shelf, lastId,
                 flipped>>
  /\ Within

ImportFails(p) ==
  NeedsImport(p) /\ ~archive /\ Refusal(p)

Rebind(p) ==
  /\ op[p].pc = "rebind"
  /\ central' = [central EXCEPT !.legacy = FALSE]
  /\ op' = [op EXCEPT ![p].pc = "begin"]
  /\ UNCHANGED <<layout, bookmark, local, retired, store, lastId, flipped>>
  /\ Within

---------------------------------------------------------------------------
(* migrate_project on a local mailbox.                                     *)

\* A central tree left by an interrupted cutover must verify and be pristine;
\* it is published again when it holds the current mail, else set aside.
BeginForward(p) ==
  /\ At(p, "migrate", "begin") /\ layout = "local" /\ ~NeedsImport(p)
  /\ ~bookmark /\ (central = NoGeneration \/ Pristine(central))
  /\ lastId < MaxOps
  /\ lastId' = lastId + 1
  /\ local' = [local EXCEPT !.parts = Parts]
  /\ LET reusable == /\ central # NoGeneration
                     /\ records[central.op].mail = local.mail
     IN  op' = [op EXCEPT ![p].id = lastId + 1,
                          ![p].snap = local.mail,
                          ![p].base = IF central = NoGeneration THEN 0
                                      ELSE central.op,
                          ![p].stale = central # NoGeneration /\ ~reusable,
                          ![p].pc = IF reusable THEN "prove" ELSE "backup"]
  /\ UNCHANGED <<layout, bookmark, central, retired, store, flipped>>
  /\ Within

ForwardRefused(p) ==
  /\ At(p, "migrate", "begin") /\ layout = "local" /\ ~NeedsImport(p)
  /\ bookmark \/ ~(central = NoGeneration \/ Pristine(central))
  /\ Refusal(p)

\* _create_backup: copy, verify, then rename the bundle into place.
CopyBackup(p) == op[p].pc = "backup" /\ CopyInto(p, op[p].snap, "seal")

SealBackup(p) ==
  /\ op[p].pc = "seal" /\ op[p].copy = op[p].snap
  /\ op' = [op EXCEPT ![p].pc = "record", ![p].backup = op[p].copy]
  /\ UNCHANGED <<layout, bookmark, trees, store, lastId, flipped>>
  /\ Within

\* verify_snapshot_copy of a staging copy refuses what differs.
CopyRefused(p) ==
  /\ op[p].pc \in {"seal", "publish", "displace"} /\ op[p].copy # op[p].snap
  /\ Refusal(p)

WriteRecord(p) ==
  /\ op[p].pc = "record"
  /\ records' = With(records, op[p].id,
                     [kind |-> op[p].kind, mail |-> op[p].snap,
                      source |-> op[p].base])
  /\ op' = [op EXCEPT ![p].pc = IF op[p].stale THEN "shelve" ELSE "stage"]
  /\ UNCHANGED <<layout, bookmark, trees, archive, marker, shelf, lastId,
                 flipped>>
  /\ Within

\* _quarantine_central, of a stale candidate or of a rolled back generation.
SetAside(suffix, id) ==
  /\ <<suffix, id>> \notin shelf
  /\ shelf' = shelf \cup {<<suffix, id>>}
  /\ central' = NoGeneration

Shelve(p) ==
  /\ op[p].pc = "shelve" /\ Pristine(central) /\ BoundTo(central, op[p].base)
  /\ SetAside("stale", op[p].id)
  /\ op' = [op EXCEPT ![p].pc = "stage"]
  /\ UNCHANGED <<layout, bookmark, local, retired, archive, records, marker,
                 lastId, flipped>>
  /\ Within

\* Both directions copy the backup's payload, never the live source.
Stage(p) ==
  /\ op[p].pc = "stage"
  /\ CopyInto(p, op[p].backup,
              IF op[p].kind = "migrate" THEN "publish" ELSE "displace")

PublishCentral(p) ==
  /\ op[p].pc = "publish" /\ op[p].copy = op[p].snap
  /\ central = NoGeneration
  /\ central' = [op |-> op[p].id, mail |-> op[p].copy, legacy |-> FALSE]
  /\ op' = [op EXCEPT ![p].base = op[p].id, ![p].pc = "prove"]
  /\ UNCHANGED <<layout, bookmark, local, retired, store, lastId, flipped>>
  /\ Within

\* Source unchanged and candidate equal to it, before the registry is asked.
Proven(p) ==
  IF op[p].kind = "migrate"
  THEN /\ local.mail = op[p].snap
       /\ Pristine(central) /\ BoundTo(central, op[p].base)
       /\ central.mail = op[p].snap
  ELSE central.mail = op[p].snap

Prove(p) ==
  /\ op[p].pc = "prove" /\ Proven(p)
  /\ op' = [op EXCEPT ![p].pc = "flip"]
  /\ UNCHANGED <<layout, bookmark, trees, store, lastId, flipped>>
  /\ Within

---------------------------------------------------------------------------
(* The registry flip, for both directions.                                 *)

Desired(p) == IF op[p].kind = "migrate" THEN "central" ELSE "local"
Source(p) == IF layout = "local" THEN local.mail ELSE central.mail

\* The row is rewritten only if it still has the expected layout and the
\* source, read again under the registry lock, is still the snapshot.
MayFlip(p) ==
  /\ op[p].pc = "flip" /\ layout # Desired(p) /\ Source(p) = op[p].snap

Flip(p) ==
  /\ MayFlip(p)
  /\ layout' = Desired(p)
  /\ flipped' = [flipped EXCEPT ![p] = TRUE]
  /\ op' = [op EXCEPT ![p].pc = IF op[p].kind = "migrate" THEN "recheck"
                                ELSE "unmark",
                      ![p].trusted = TRUE]
  /\ UNCHANGED <<bookmark, trees, store, lastId>>
  /\ Within

\* The registry update fails, and the registry is read again to learn which
\* layout it has; when even that fails the outcome is reported as unknown.
Assumed(p) == "failed"                                             \* mutant
Probed(p) == IF layout' = Desired(p) THEN "committed" ELSE "failed"
FlipErrs(p) ==
  /\ op[p].pc = "flip" /\ faults < MaxFaults
  /\ faults' = faults + 1
  /\ layout' \in {layout} \cup (IF MayFlip(p) THEN {Desired(p)} ELSE {})
  /\ End(p, Probed(p)) \/ End(p, "unknown")
  /\ UNCHANGED <<bookmark, trees, store, lastId, stray>>

---------------------------------------------------------------------------
(* After a forward flip, and when migrate is rerun on a central mailbox.   *)

\* What was flipped away from is read once more; a hand may have been there.
Recheck(p) ==
  /\ op[p].pc = "recheck" /\ local.mail = op[p].snap
  /\ op' = [op EXCEPT ![p].pc = "cleanup"]
  /\ UNCHANGED <<layout, bookmark, trees, store, lastId, flipped>>
  /\ Within

RecheckFails(p) ==
  /\ op[p].pc = "recheck" /\ local.mail # op[p].snap
  /\ End(p, "committed")
  /\ UNCHANGED <<layout, bookmark, trees, store, lastId, stray, faults>>

BeginRepair(p) ==
  /\ At(p, "migrate", "begin") /\ layout = "central" /\ Verified(central)
  /\ op' = [op EXCEPT ![p].id = central.op, ![p].pc = "cleanup",
                      ![p].snap = records[central.op].mail,
                      ![p].trusted = FALSE]
  /\ UNCHANGED <<layout, bookmark, trees, store, lastId, flipped>>
  /\ Within

\* Local mail that is not what the generation was made of is kept.
DriftUnseen(p) ==                                                  \* mutant
  local.parts \cap MailParts # {} /\ ~Whole(local)
Drifted(p) ==
  /\ local.parts \cap MailParts # {}
  /\ ~(Whole(local) /\ (op[p].trusted \/ local.mail = op[p].snap))

\* The operation's own name, or one with a fresh uuid when it is taken.
RetiredName(id) ==
  IF <<id, 0>> \notin DOMAIN retired THEN <<id, 0>>
  ELSE CHOOSE n \in Names \ DOMAIN retired : n[1] = id
NameLeft(id) == \E n \in Names \ DOMAIN retired : n[1] = id

\* _quarantine_local_mail lists the parts that are there and makes the
\* directory; Retire moves the parts listed.
MakeRetired(p, drift) ==
  /\ NameLeft(op[p].id)
  /\ retired' = With(retired, RetiredName(op[p].id), NoTree)
  /\ op' = [op EXCEPT ![p].pc = "retire", ![p].drift = drift,
                      ![p].left = local.parts,
                      ![p].dest = RetiredName(op[p].id)]
  /\ UNCHANGED <<layout, bookmark, local, central, store, lastId, flipped>>
  /\ Within

\* The local tree is read first, and moved after that.
Assess(p) ==
  /\ op[p].pc = "cleanup" /\ local.parts # {}
  /\ op' = [op EXCEPT ![p].pc = "assessed", ![p].drift = Drifted(p)]
  /\ UNCHANGED <<layout, bookmark, trees, store, lastId, flipped>>
  /\ Within

Cleanup(p) == op[p].pc = "assessed" /\ MakeRetired(p, op[p].drift)

\* Nothing local is left; a complete, unchanged retired tree of this
\* operation is purged.
CleanupResumes(p) ==
  /\ op[p].pc = "cleanup" /\ local.parts = {}
  /\ LET n == <<op[p].id, 0>>
         spent == n \in DOMAIN retired /\ Whole(retired[n])
                    /\ retired[n].mail = op[p].snap
     IN op' = [op EXCEPT ![p].pc = "bookmark",
                         ![p].dest = IF spent THEN n ELSE NoName]
  /\ UNCHANGED <<layout, bookmark, trees, store, lastId, flipped>>
  /\ Within

\* The parts are renamed one by one, in this order.
NextPart(p) ==
  CASE "inbox" \in op[p].left -> "inbox"
    [] "messages" \in op[p].left /\ "inbox" \notin op[p].left -> "messages"
    [] OTHER -> "locks"

PartDone(p) == op' = [op EXCEPT ![p].left = @ \ {NextPart(p)}]

Retire(p) ==
  /\ op[p].pc = "retire" /\ op[p].left # {} /\ op[p].dest \in DOMAIN retired
  /\ LET from == retired[op[p].dest]
         moved == [from EXCEPT !.parts = @ \cup {NextPart(p)}]
     IN  retired' = [retired EXCEPT ![op[p].dest] =
                       IF NextPart(p) = "inbox"
                       THEN [moved EXCEPT !.mail = local.mail] ELSE moved]
  /\ local' = [parts |-> local.parts \ {NextPart(p)},
               mail |-> IF NextPart(p) = "inbox" THEN NoMail ELSE local.mail]
  /\ PartDone(p)
  /\ UNCHANGED <<layout, bookmark, central, store, lastId, flipped>>
  /\ Within

\* A purge of the same name took the directory away.
RetireLost(p) ==
  /\ op[p].pc = "retire" /\ op[p].dest \notin DOMAIN retired
  /\ End(p, IF Committed(p) THEN "committed" ELSE "failed")
  /\ UNCHANGED <<layout, bookmark, trees, store, lastId, stray, faults>>

RetireDone(p) ==
  /\ op[p].pc = "retire" /\ op[p].left = {} /\ op[p].dest \in DOMAIN retired
  /\ op' = [op EXCEPT ![p].pc = IF op[p].kind = "migrate" THEN "bookmark"
                                ELSE "install",
                      ![p].left = IF op[p].kind = "migrate" THEN {} ELSE Parts,
                      ![p].dest = IF op[p].drift THEN NoName ELSE @]
  /\ UNCHANGED <<layout, bookmark, trees, store, lastId, flipped>>
  /\ Within

InstallBookmark(p) ==
  /\ op[p].pc = "bookmark"
  /\ bookmark' = TRUE
  /\ op' = [op EXCEPT ![p].pc = "unlock"]
  /\ UNCHANGED <<layout, trees, store, lastId, flipped>>
  /\ Within

Unlock(p) ==
  /\ op[p].pc = "unlock"
  /\ IF At(p, "migrate", "unlock") /\ op[p].dest # NoName
     THEN /\ op' = [op EXCEPT ![p].pc = "purge"]
          /\ UNCHANGED <<verdict, flipped>>
     ELSE End(p, "ok")
  /\ UNCHANGED <<layout, bookmark, trees, store, lastId, stray, faults>>

\* rmtree, after the layout lock: a part at a time, then the directory.
Purge(p) ==
  /\ op[p].pc = "purge" /\ Retired(op[p].dest).parts # {}
  /\ \E part \in retired[op[p].dest].parts :
       retired' = [retired EXCEPT ![op[p].dest] =
                     [parts |-> @.parts \ {part},
                      mail |-> IF part = "inbox" THEN NoMail ELSE @.mail]]
  /\ op' = [op EXCEPT ![p].inside = TRUE]
  /\ UNCHANGED <<layout, bookmark, local, central, store, lastId, flipped>>
  /\ Within

\* Others that were removing the same tree find it gone, which is a warning.
PurgeDone(p) ==
  /\ op[p].pc = "purge" /\ Retired(op[p].dest).parts = {}
  /\ retired' = Without(retired, op[p].dest)
  /\ LET over == {p} \cup {q \in Procs : op[q].inside
                                         /\ op[q].dest = op[p].dest}
     IN  /\ op' = [q \in Procs |-> IF q \in over THEN Idle ELSE op[q]]
         /\ verdict' = [q \in Procs |-> IF q \in over THEN "ok"
                                        ELSE verdict[q]]
         /\ flipped' = [q \in Procs |-> flipped[q] /\ q \notin over]
  /\ UNCHANGED <<layout, bookmark, local, central, store, lastId, stray,
                 faults>>

---------------------------------------------------------------------------
(* rollback_project.                                                       *)

\* The rollback marker belongs to this forward migration.
MarkedBy(id) == marker # NoMarker /\ marker.source = id

\* The manifest asked for must be that of the active generation.
BeginRollback(p) ==
  /\ At(p, "rollback", "begin") /\ layout = "central" /\ Verified(central)
  /\ BoundTo(central, op[p].asked) /\ lastId < MaxOps
  /\ lastId' = lastId + 1
  /\ op' = [op EXCEPT ![p].id = lastId + 1, ![p].snap = central.mail,
                      ![p].base = central.op, ![p].pc = "backup"]
  /\ UNCHANGED <<layout, bookmark, trees, store, flipped>>
  /\ Within

RollbackRefused(p) ==
  /\ At(p, "rollback", "begin") /\ ~NeedsImport(p)
  /\ IF layout = "central"
     THEN ~BoundTo(central, op[p].asked)
     ELSE ~MarkedBy(op[p].asked)
  /\ Refusal(p)

\* _prepare_local_candidate: what is in the way is retired, then the copy is
\* renamed in part by part, and the rollback marker written.
Displace(p) ==
  /\ op[p].pc = "displace" /\ op[p].copy = op[p].snap /\ local.parts # {}
  /\ MakeRetired(p, TRUE)

NothingInTheWay(p) ==
  /\ op[p].pc = "displace" /\ op[p].copy = op[p].snap /\ local.parts = {}
  /\ op' = [op EXCEPT ![p].pc = "install", ![p].left = Parts]
  /\ UNCHANGED <<layout, bookmark, trees, store, lastId, flipped>>
  /\ Within

Install(p) ==
  /\ op[p].pc = "install" /\ op[p].left # {}
  /\ NextPart(p) \notin local.parts
  /\ local' = [parts |-> local.parts \cup {NextPart(p)},
               mail |-> IF NextPart(p) = "inbox" THEN op[p].copy
                        ELSE local.mail]
  /\ PartDone(p)
  /\ UNCHANGED <<layout, bookmark, central, retired, store, lastId, flipped>>
  /\ Within

\* A hand made a directory that is in the way, or wrote into what was
\* installed, which is verified after the marker.
InstallRefused(p) ==
  /\ \/ op[p].pc = "install" /\ op[p].left # {} /\ NextPart(p) \in local.parts
     \/ op[p].pc = "mark" /\ local.mail # op[p].snap
  /\ Refusal(p)

WriteMarker(p) ==
  /\ op[p].pc = "install" /\ op[p].left = {}
  /\ marker' = [source |-> op[p].base, rollback |-> op[p].id]
  /\ op' = [op EXCEPT ![p].pc = "mark"]
  /\ UNCHANGED <<layout, bookmark, trees, archive, records, shelf, lastId,
                 flipped>>
  /\ Within

VerifyInstalled(p) ==
  /\ op[p].pc = "mark" /\ local.mail = op[p].snap
  /\ op' = [op EXCEPT ![p].pc = "prove"]
  /\ UNCHANGED <<layout, bookmark, trees, store, lastId, flipped>>
  /\ Within

\* Rerun after the flip: only the remaining repairs, no copy.
BeginRollbackRepair(p) ==
  /\ At(p, "rollback", "begin") /\ layout = "local"
  /\ MarkedBy(op[p].asked)
  /\ records[marker.rollback].kind = "rollback"
  /\ records[marker.rollback].source = op[p].asked
  /\ op' = [op EXCEPT ![p].pc = "unmark", ![p].base = op[p].asked,
                      ![p].id = marker.rollback]
  /\ UNCHANGED <<layout, bookmark, trees, store, lastId, flipped>>
  /\ Within

RemoveBookmark(p) ==
  /\ op[p].pc = "unmark"
  /\ bookmark' = FALSE
  /\ op' = [op EXCEPT ![p].pc = "withdraw"]
  /\ UNCHANGED <<layout, trees, store, lastId, flipped>>
  /\ Within

\* The rolled back generation is set aside with whatever it holds now.
Withdraw(p) ==
  /\ op[p].pc = "withdraw" /\ Verified(central) /\ BoundTo(central, op[p].base)
  /\ SetAside("rolledback", IF op[p].trusted THEN central.op ELSE op[p].id)
  /\ op' = [op EXCEPT ![p].pc = "unlock"]
  /\ UNCHANGED <<layout, bookmark, local, retired, archive, records, marker,
                 lastId, flipped>>
  /\ Within

\* A repair leaves another, pristine candidate alone.
LeaveCandidate(p) ==
  /\ op[p].pc = "withdraw" /\ ~op[p].trusted
  /\ \/ central = NoGeneration
     \/ Pristine(central) /\ ~BoundTo(central, op[p].base)
  /\ op' = [op EXCEPT ![p].pc = "unlock"]
  /\ UNCHANGED <<layout, bookmark, trees, store, lastId, flipped>>
  /\ Within

---------------------------------------------------------------------------
Step(p) ==
  \/ ImportRecord(p) \/ ImportFails(p) \/ Rebind(p)
  \/ BeginForward(p) \/ ForwardRefused(p)
  \/ CopyBackup(p) \/ SealBackup(p) \/ CopyRefused(p) \/ WriteRecord(p)
  \/ Shelve(p) \/ Stage(p) \/ PublishCentral(p) \/ Prove(p) \/ Flip(p)
  \/ Recheck(p) \/ RecheckFails(p)
  \/ BeginRepair(p) \/ Assess(p) \/ Cleanup(p) \/ CleanupResumes(p)
  \/ Retire(p) \/ RetireLost(p) \/ RetireDone(p) \/ InstallBookmark(p)
  \/ Unlock(p) \/ Purge(p) \/ PurgeDone(p)
  \/ BeginRollback(p) \/ RollbackRefused(p)
  \/ Displace(p) \/ NothingInTheWay(p) \/ Install(p) \/ InstallRefused(p)
  \/ WriteMarker(p)
  \/ VerifyInstalled(p) \/ BeginRollbackRepair(p) \/ RemoveBookmark(p)
  \/ Withdraw(p) \/ LeaveCandidate(p)

Fault(p) == Fail(p) \/ Kill(p) \/ FlipErrs(p)

Command(p) ==
  \/ Start(p, "migrate", 0)
  \/ \E i \in Ids : Start(p, "rollback", i)

Next ==
  \/ \E m \in Messages : Deliver(m)
  \/ \E m \in Mail : Read(m)
  \/ \E m \in Strays : WriteByHand(m)
  \/ DiscardArchive
  \/ \E p \in Procs : Command(p) \/ Refuse(p) \/ Step(p) \/ Fault(p)

Spec == Init /\ [][Next]_vars

---------------------------------------------------------------------------
(* Properties.                                                             *)

\* Whatever is interrupted and rerun, the registry names a mailbox that is
\* complete: a local tree with both its directories, or a central generation
\* whose recovery record is there for repair and rollback to read.
AuthorityWhole ==
  IF layout = "local" THEN Whole(local)
  ELSE /\ central # NoGeneration
       /\ central.legacy \/ Verified(central)

\* The mailbox the registry names is one mailbox to its users: no cutover,
\* failure, kill, repair or rollback loses, repeats or takes back any mail,
\* nor what a hand wrote into a local tree once that is the mailbox.
Mailbox == INSTANCE OneMailbox WITH
             Messages <- Mail,
             mail <- IF layout = "local" THEN local.mail ELSE central.mail
ImplementsOneMailbox == Mailbox!Spec

\* A command says that it failed only if it left the layout alone, and that
\* it committed only if the layout is the one it was to establish.
ReportTrue ==
  \A p \in Procs :
    (op[p].pc # "idle" /\ op'[p].pc = "idle") =>
      /\ verdict'[p] = "failed" => (~flipped[p] /\ layout' = layout)
      /\ verdict'[p] = "committed" => layout' = Desired(p)
ReportsTrue == [][ReportTrue]_vars

\* A command that gets to the end leaves nothing half done, whichever
\* interrupted commands preceded it: central with its bookmark and no local
\* mail beside it but what a hand has written during a command; or local
\* without bookmark and without the generation that was rolled back.
NothingHalfDone ==
  \A p \in Procs :
    op[p].pc = "unlock" =>
      IF op[p].kind = "migrate"
      THEN /\ layout = "central" /\ bookmark /\ local.parts \subseteq {"inbox"}
           /\ \A m \in Mail : local.mail[m] # "absent" =>
                               <<m, "during">> \in stray
      ELSE /\ layout = "local" /\ ~bookmark
           /\ ~BoundTo(central, op[p].base)

\* Mail that somebody wrote into the local tree while no command had the lock.
Settled == {m \in Strays : <<m, "between">> \in stray}

\* A command that gives the lock back is not about to purge any such mail,
\* whatever was interrupted before it: it saw that the tree had changed.
SettledSpared ==
  \A p \in Procs :
    At(p, "migrate", "unlock") =>
      \A m \in Settled : Retired(op[p].dest).mail[m] = "absent"

\* Mail somebody wrote into the local tree of a central project is kept, by
\* the promise of every cleanup warning: it is still in the local tree or in
\* a retired one.
StrayKept ==
  \A m \in Settled :
    \/ local.mail[m] # "absent"
    \/ \E n \in DOMAIN retired : retired[n].mail[m] # "absent"

===========================================================================
