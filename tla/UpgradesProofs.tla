--------------------------- MODULE UpgradesProofs ---------------------------
(* What TLAPS proves of the four ways an installation moves to a newer form, *)
(* each part with an invariant of its own: the mailbox of a project, the     *)
(* project registry, the prefix, the package.                                *)
EXTENDS MCUpgrades, Sequences, FiniteSetTheorems, TLAPS

-----------------------------------------------------------------------------
(* A cutover never loses the mailbox, for any number of commands, messages *)
(* and faults.  The argument: the layout lock lets one command at a time   *)
(* write what the registry's layout names; the phase of that command says  *)
(* which tree that is, so that it only ever fills or clears the other one; *)
(* and a command that may flip has just proven the two trees equal.        *)

Forward == {"backup", "seal", "record", "shelve", "stage", "publish", "prove",
            "flip"}
Backward == {"backup", "seal", "record", "stage", "displace", "retire",
             "install", "mark", "prove", "flip"}

\* flock: one command at a time.
Exclusive == \A p, q \in Procs : Holds(p) /\ Holds(q) => p = q

\* Which tree is authoritative while a command is at a step.
Phase(p) ==
  /\ op[p].kind = "migrate" =>
       /\ op[p].pc \notin {"displace", "install", "mark", "unmark", "withdraw"}
       /\ op[p].pc \in Forward => layout = "local"
       /\ op[p].pc \in {"recheck", "cleanup", "assessed", "retire",
                        "bookmark", "unlock"} => layout = "central"
  /\ op[p].kind = "rollback" =>
       /\ ~op[p].stale
       /\ op[p].pc \notin {"shelve", "publish", "recheck", "cleanup",
                           "assessed", "bookmark", "purge"}
       /\ op[p].pc \in Backward => layout = "central"
       /\ op[p].pc \in {"unmark", "withdraw", "unlock"} => layout = "local"

\* A new transaction has a new id: its record replaces no other.
Numbered(p) ==
  /\ op[p].pc \in {"backup", "seal", "record", "shelve", "stage", "publish"} =>
       op[p].id <= lastId
  /\ op[p].pc \in {"backup", "seal", "record"} /\ central # NoGeneration =>
       central.op < op[p].id

\* A legacy generation is rebound only when its record exists.
Imported(p) ==
  op[p].pc = "rebind" =>
    /\ central # NoGeneration
    /\ central.op \in DOMAIN records
    /\ records[central.op].kind = "migrate"

\* The local tree has the mail that was verified in it, and what a hand wrote
\* since.
Grown(p) ==
  \A m \in Mail : \/ local.mail[m] = op[p].snap[m]
                  \/ op[p].snap[m] = "absent" /\ local.mail[m] = "new"

\* What is proven when a command may flip the registry.
Ready(p) ==
  /\ op[p].pc = "flip" => Proven(p)
  /\ op[p].kind = "rollback" /\ op[p].pc \in {"mark", "prove", "flip"} =>
       local.parts = Parts
  /\ op[p].kind = "rollback" /\ op[p].pc = "install" =>
       Parts \subseteq local.parts \cup op[p].left
  /\ op[p].kind = "rollback" /\ op[p].pc \in {"prove", "flip"} => Grown(p)

CommandInv(p) == Phase(p) /\ Numbered(p) /\ Imported(p) /\ Ready(p)

CutoverInv ==
  /\ TypeOK /\ Exclusive /\ AuthorityWhole
  /\ central # NoGeneration => central.op <= lastId
  /\ \A p \in Procs : CommandInv(p)

-----------------------------------------------------------------------------
(* Types.                                                                  *)

LEMMA Simple ==
  MigrationAssumption =>
    /\ NoMail \in Contents /\ NoTree \in Trees
    /\ 0 \in Ids /\ Idle \in Commands
<1> SUFFICES ASSUME MigrationAssumption
             PROVE  /\ NoMail \in Contents /\ NoTree \in Trees
                    /\ 0 \in Ids /\ Idle \in Commands
  OBVIOUS
<1>1. NoMail \in Contents /\ 0 \in Ids
  BY DEF NoMail, Contents, Marks, Ids, MigrationAssumption
<1>2. NoTree \in Trees
  BY <1>1 DEF NoTree, Trees
<1>3. Idle \in Commands
  BY <1>1 DEF Idle, Commands, Steps
<1> QED
  BY <1>1, <1>2, <1>3

\* Any action may replace one command by another.
LEMMA CommandType ==
  ASSUME TypeOK, NEW p \in Procs, NEW r \in Commands
  PROVE  [op EXCEPT ![p] = r] \in [Procs -> Commands]
BY DEF TypeOK

LEMMA PcType ==
  ASSUME TypeOK, NEW p \in Procs, NEW pc \in Steps
  PROVE  [op EXCEPT ![p].pc = pc] \in [Procs -> Commands]
<1>1. op[p] \in Commands /\ [op[p] EXCEPT !.pc = pc] \in Commands
  BY DEF TypeOK, Commands
<1>2. [op EXCEPT ![p].pc = pc] = [op EXCEPT ![p] = [op[p] EXCEPT !.pc = pc]]
  BY DEF TypeOK
<1> QED
  BY <1>1, <1>2, CommandType

LEMMA MailType ==
  ASSUME TypeOK
  PROVE  /\ local \in Trees /\ local.mail \in Contents
              /\ local.parts \in SUBSET Parts
         /\ central # NoGeneration =>
              central \in Generations /\ central.op \in Ids
                /\ central.mail \in Contents
         /\ \A p \in Procs : op[p] \in Commands
BY DEF TypeOK, Trees, Generations

LEMMA InitType == MigrationAssumption /\ Init => TypeOK
<1> SUFFICES ASSUME MigrationAssumption, Init PROVE TypeOK
  OBVIOUS
<1>1. op \in [Procs -> Commands]
  BY Simple DEF Init
<1>2. local \in Trees
  BY Simple DEF Init, Trees, Parts
<1>3. central \in Generations \cup {NoGeneration}
  <2>1. [op |-> 0, mail |-> NoMail, legacy |-> TRUE] \in Generations
    BY Simple DEF Generations
  <2> QED
    BY <2>1 DEF Init
<1>4. /\ DOMAIN retired = {} /\ DOMAIN records = {}
      /\ lastId \in Ids /\ faults \in 0..MaxFaults
  BY Simple DEF Init, Nothing, MigrationAssumption
<1> QED
  BY <1>1, <1>2, <1>3, <1>4 DEF Init, TypeOK

\* A step that leaves all but the commands, the reports and the faults alone.
LEMMA QuietType ==
  ASSUME MigrationAssumption, TypeOK, op' \in [Procs -> Commands],
         UNCHANGED <<layout, bookmark, trees, store, lastId, stray>>,
         faults' = faults \/ (faults < MaxFaults /\ faults' = faults + 1)
  PROVE  TypeOK'
<1>1. faults' \in 0..MaxFaults
  BY DEF TypeOK, MigrationAssumption
<1> QED
  BY <1>1 DEF TypeOK, trees, store, Trees, Generations, Records

LEMMA EndType ==
  ASSUME MigrationAssumption, TypeOK, NEW p \in Procs, NEW report,
         End(p, report)
  PROVE  op' \in [Procs -> Commands]
BY Simple, CommandType DEF End

LEMMA QuietSteps ==
  ASSUME MigrationAssumption, TypeOK, NEW p \in Procs,
         \/ Command(p) \/ Refuse(p) \/ ImportFails(p) \/ ForwardRefused(p)
         \/ CopyRefused(p) \/ RollbackRefused(p) \/ RetireLost(p) \/ Fail(p)
         \/ RecheckFails(p) \/ InstallRefused(p) \/ Recheck(p) \/ Assess(p)
         \/ Kill(p) \/ Prove(p) \/ VerifyInstalled(p) \/ NothingInTheWay(p)
         \/ LeaveCandidate(p) \/ Unlock(p) \/ SealBackup(p) \/ RetireDone(p)
         \/ CleanupResumes(p) \/ BeginRepair(p) \/ BeginRollbackRepair(p)
         \/ CopyBackup(p) \/ Stage(p)
  PROVE  TypeOK'
<1>1. CASE Command(p)
  <2>1. ASSUME NEW kind \in {"migrate", "rollback"}, NEW i \in Ids,
               Start(p, kind, i)
        PROVE  TypeOK'
    <3>1. [Idle EXCEPT !.pc = "begin", !.kind = kind, !.asked = i] \in Commands
      BY Simple DEF Commands, Steps, Idle
    <3> QED
      BY <2>1, <3>1, CommandType, QuietType DEF Start
  <2> QED
    BY <1>1, <2>1, Simple DEF Command
<1>2. CASE Refuse(p) \/ ImportFails(p) \/ ForwardRefused(p) \/ CopyRefused(p)
             \/ RollbackRefused(p) \/ InstallRefused(p)
  BY <1>2, EndType, QuietType DEF Refuse, ImportFails, ForwardRefused,
     CopyRefused, RollbackRefused, InstallRefused, Refusal
<1>3. CASE RetireLost(p) \/ RecheckFails(p) \/ Fail(p) \/ Kill(p)
  BY <1>3, EndType, QuietType DEF RetireLost, RecheckFails, Fail, Kill
<1>4. CASE Prove(p) \/ VerifyInstalled(p) \/ Recheck(p) \/ LeaveCandidate(p)
  <2>1. PICK pc \in {"flip", "prove", "cleanup", "unlock"} :
          op' = [op EXCEPT ![p].pc = pc]
    BY <1>4 DEF Prove, VerifyInstalled, Recheck, LeaveCandidate
  <2>2. op' \in [Procs -> Commands]
    BY <2>1, PcType DEF Steps
  <2> QED
    BY <1>4, <2>2, QuietType DEF Prove, VerifyInstalled, Recheck,
       LeaveCandidate, Within
<1>13. CASE NothingInTheWay(p)
  <2> DEFINE r == [op[p] EXCEPT !.pc = "install", !.left = Parts]
  <2>1. op[p] \in Commands /\ op' = [op EXCEPT ![p] = r]
    BY <1>13, MailType DEF NothingInTheWay, TypeOK
  <2>2. r \in Commands
    BY <2>1 DEF Commands, Steps
  <2> QED
    BY <1>13, <2>1, <2>2, CommandType, QuietType DEF NothingInTheWay, Within
<1>14. CASE Assess(p)
  <2> DEFINE r == [op[p] EXCEPT !.pc = "assessed", !.drift = Drifted(p)]
  <2>1. op[p] \in Commands /\ op' = [op EXCEPT ![p] = r]
    BY <1>14, MailType DEF Assess, TypeOK
  <2>2. r \in Commands
    BY <2>1 DEF Commands, Steps, Drifted
  <2> QED
    BY <1>14, <2>1, <2>2, CommandType, QuietType DEF Assess, Within
<1>5. CASE Unlock(p)
  <2>1. End(p, "ok") \/ op' = [op EXCEPT ![p].pc = "purge"]
    BY <1>5 DEF Unlock
  <2>2. CASE End(p, "ok")
    BY <1>5, <2>2, EndType, QuietType DEF Unlock
  <2>3. CASE op' = [op EXCEPT ![p].pc = "purge"]
    <3>1. "purge" \in Steps
      BY DEF Steps
    <3>2. op' \in [Procs -> Commands]
      BY <2>3, <3>1, PcType
    <3> QED
      BY <1>5, <3>2, QuietType DEF Unlock
  <2> QED
    BY <2>1, <2>2, <2>3
<1>6. CASE SealBackup(p)
  <2> DEFINE r == [op[p] EXCEPT !.pc = "record", !.backup = op[p].copy]
  <2>1. op[p] \in Commands /\ op' = [op EXCEPT ![p] = r]
    BY <1>6, MailType DEF SealBackup, TypeOK
  <2>2. r \in Commands
    BY <2>1 DEF Commands, Steps
  <2> QED
    BY <1>6, <2>1, <2>2, CommandType, QuietType DEF SealBackup, Within
<1>7. CASE RetireDone(p)
  <2> DEFINE r == [op[p] EXCEPT !.pc = IF op[p].kind
                   = "migrate" THEN "bookmark"
                                       ELSE "install",
                                !.left = IF op[p].kind = "migrate" THEN {}
                                         ELSE Parts,
                                !.dest = IF op[p].drift THEN NoName ELSE @]
  <2>1. op[p] \in Commands /\ op' = [op EXCEPT ![p] = r]
    BY <1>7, MailType DEF RetireDone, TypeOK
  <2>2. r \in Commands
    BY <2>1 DEF Commands, Steps
  <2> HIDE DEF r
  <2> QED
    BY <1>7, <2>1, <2>2, CommandType, QuietType DEF RetireDone, Within
<1>8. CASE CleanupResumes(p)
  <2>1. PICK d \in {<<op[p].id, 0>>, NoName} :
          op' = [op EXCEPT ![p].pc = "bookmark", ![p].dest = d]
    BY <1>8 DEF CleanupResumes
  <2> DEFINE r == [op[p] EXCEPT !.pc = "bookmark", !.dest = d]
  <2>2. op[p] \in Commands /\ op' = [op EXCEPT ![p] = r]
    BY <2>1, MailType DEF TypeOK
  <2>3. d \in Names \cup {NoName}
    BY <2>2 DEF Commands, Names, MigrationAssumption
  <2>4. r \in Commands
    BY <2>2, <2>3 DEF Commands, Steps
  <2> QED
    BY <1>8, <2>2, <2>4, CommandType, QuietType DEF CleanupResumes, Within
<1>9. CASE BeginRepair(p)
  <2> DEFINE r == [op[p] EXCEPT !.id = central.op, !.pc = "cleanup",
                      !.snap = records[central.op].mail, !.trusted = FALSE]
  <2>1. op[p] \in Commands /\ op' = [op EXCEPT ![p] = r]
    BY <1>9, MailType DEF BeginRepair, TypeOK
  <2>2. central.op \in Ids /\ records[central.op].mail \in Contents
    BY <1>9 DEF BeginRepair, Verified, TypeOK, Generations, Records
  <2>3. r \in Commands
    BY <2>1, <2>2 DEF Commands, Steps
  <2> HIDE DEF r
  <2>4. op' \in [Procs -> Commands]
    BY <2>1, <2>3, CommandType
  <2> QED
    BY <1>9, <2>4, QuietType DEF BeginRepair, Within
<1>10. CASE BeginRollbackRepair(p)
  <2> DEFINE r == [op[p] EXCEPT !.pc = "unmark", !.base = op[p].asked,
                      !.id = marker.rollback]
  <2>1. op[p] \in Commands /\ op' = [op EXCEPT ![p] = r]
    BY <1>10, MailType DEF BeginRollbackRepair, TypeOK
  <2>2. marker.rollback \in Ids
    BY <1>10 DEF BeginRollbackRepair, MarkedBy, TypeOK
  <2>3. r \in Commands
    BY <2>1, <2>2 DEF Commands, Steps
  <2> QED
    BY <1>10, <2>1, <2>3, CommandType, QuietType DEF BeginRollbackRepair,
       Within
<1>11. ASSUME NEW mail \in Contents, NEW next \in Steps,
              CopyInto(p, mail, next)
       PROVE  TypeOK'
  <2>1. \A c \in Torn(mail) : c \in Contents
    BY DEF Torn, Contents, Marks
  <2>2. PICK c \in Contents : op' = [op EXCEPT ![p].copy = c, ![p].pc = next]
    BY <1>11, <2>1 DEF CopyInto
  <2> DEFINE r == [op[p] EXCEPT !.copy = c, !.pc = next]
  <2>3. op[p] \in Commands /\ op' = [op EXCEPT ![p] = r]
    BY <2>2, MailType DEF TypeOK
  <2>4. r \in Commands
    BY <2>2, <2>3 DEF Commands
  <2> QED
    BY <1>11, <2>3, <2>4, CommandType, QuietType DEF CopyInto
<1>12. CASE CopyBackup(p) \/ Stage(p)
  <2>1. op[p].snap \in Contents /\ op[p].backup \in Contents
    BY MailType DEF Commands
  <2> QED
    BY <1>11, <1>12, <2>1 DEF CopyBackup, Stage, Steps
<1> QED
  BY <1>1, <1>2, <1>3, <1>4, <1>5, <1>6, <1>7, <1>8, <1>9, <1>10, <1>12,
     <1>13, <1>14

LEMMA PartType ==
  ASSUME TypeOK, NEW p \in Procs, PartDone(p)
  PROVE  op' \in [Procs -> Commands] /\ NextPart(p) \in Parts
<1> DEFINE r == [op[p] EXCEPT !.left = @ \ {NextPart(p)}]
<1>1. op[p] \in Commands /\ op' = [op EXCEPT ![p] = r]
  BY MailType DEF PartDone, TypeOK
<1>2. r \in Commands
  BY <1>1 DEF Commands
<1>3. NextPart(p) \in Parts
  BY DEF NextPart, Parts, MailParts
<1> QED
  BY <1>1, <1>2, <1>3, CommandType

LEMMA RetiredNames ==
  ASSUME MigrationAssumption, TypeOK, NEW id \in Ids, NameLeft(id)
  PROVE  RetiredName(id) \in Names
<1>1. <<id, 0>> \in Names
  BY DEF Names, MigrationAssumption
<1>2. PICK n \in Names \ DOMAIN retired : n[1] = id
  BY DEF NameLeft
<1>3. (CHOOSE m \in Names \ DOMAIN retired : m[1] = id) \in Names
  BY <1>2
<1> QED
  BY <1>1, <1>3 DEF RetiredName

LEMMA RetireSteps ==
  ASSUME MigrationAssumption, TypeOK, NEW p \in Procs,
         Cleanup(p) \/ Displace(p) \/ Retire(p) \/ Purge(p) \/ PurgeDone(p)
  PROVE  TypeOK'
<1>1. ASSUME NEW drift \in BOOLEAN, MakeRetired(p, drift) PROVE TypeOK'
  <2> DEFINE n == RetiredName(op[p].id)
             r == [op[p] EXCEPT !.pc = "retire", !.drift = drift,
                                !.left = local.parts, !.dest = n]
  <2>1. op[p] \in Commands /\ op' = [op EXCEPT ![p] = r]
    BY <1>1, MailType DEF MakeRetired, TypeOK
  <2>2. op[p].id \in Ids /\ NameLeft(op[p].id)
    BY <1>1, <2>1 DEF MakeRetired, Commands
  <2>3. n \in Names
    BY <2>2, RetiredNames
  <2> HIDE DEF n
  <2>4. r \in Commands
    BY <2>1, <2>3, MailType DEF Commands, Steps
  <2>5. op' \in [Procs -> Commands]
    BY <2>1, <2>4, CommandType
  <2>6. retired' = With(retired, n, NoTree)
    BY <1>1 DEF MakeRetired, n
  <2>7. DOMAIN retired' \subseteq Names
      /\ \A m \in DOMAIN retired' : retired'[m] \in Trees
    BY <2>3, <2>6, Simple DEF With, TypeOK
  <2> QED
    BY <1>1, <2>5, <2>7 DEF MakeRetired, Within, TypeOK, store, Trees,
       Generations, Records
<1>2. CASE Cleanup(p)
  BY <1>1, <1>2, MailType DEF Cleanup, Commands
<1>3. CASE Displace(p)
  BY <1>1, <1>3 DEF Displace
<1>4. CASE Retire(p)
  <2>1. /\ NextPart(p) \in Parts /\ local.mail \in Contents
        /\ local.parts \in SUBSET Parts /\ op' \in [Procs -> Commands]
    BY <1>4, MailType, PartType DEF Retire
  <2>2. local' \in Trees
    BY <1>4, <2>1, Simple DEF Retire, Trees
  <2> DEFINE from == retired[op[p].dest]
             tree == IF NextPart(p) = "inbox"
                     THEN [[from EXCEPT !.parts
                            = @ \cup {NextPart(p)}] EXCEPT !.mail = local.mail]
                     ELSE [from EXCEPT !.parts = @ \cup {NextPart(p)}]
  <2>3. op[p].dest \in DOMAIN retired /\ from \in Trees
    BY <1>4 DEF Retire, TypeOK
  <2>4. tree \in Trees
    BY <2>1, <2>3 DEF Trees
  <2>5. retired' = [retired EXCEPT ![op[p].dest] = tree]
    BY <1>4 DEF Retire
  <2> HIDE DEF tree
  <2>6. DOMAIN retired' \subseteq Names
      /\ \A m \in DOMAIN retired' : retired'[m] \in Trees
    BY <2>4, <2>5 DEF TypeOK
  <2> QED
    BY <1>4, <2>1, <2>2, <2>6 DEF Retire, Within, TypeOK, store, Generations,
       Records
<1>5. CASE Purge(p)
  <2>1. op[p].dest \in DOMAIN retired
    BY <1>5 DEF Purge, Retired, NoTree
  <2>2. PICK piece \in retired[op[p].dest].parts :
          retired' = [retired EXCEPT ![op[p].dest] =
                        [parts |-> @.parts \ {piece},
                         mail |-> IF piece = "inbox" THEN NoMail ELSE @.mail]]
    BY <1>5 DEF Purge
  <2> DEFINE from == retired[op[p].dest]
             tree == [parts |-> from.parts \ {piece},
                      mail |-> IF piece = "inbox" THEN NoMail ELSE from.mail]
  <2>3. from \in Trees /\ retired' = [retired EXCEPT ![op[p].dest] = tree]
    BY <2>1, <2>2 DEF TypeOK
  <2>4. tree \in Trees
    BY <2>3, Simple DEF Trees
  <2> HIDE DEF tree
  <2>5. DOMAIN retired' \subseteq Names
      /\ \A m \in DOMAIN retired' : retired'[m] \in Trees
    BY <2>3, <2>4 DEF TypeOK
  <2> DEFINE r == [op[p] EXCEPT !.inside = TRUE]
  <2>6. op[p] \in Commands /\ op' = [op EXCEPT ![p] = r]
    BY <1>5, MailType DEF Purge, TypeOK
  <2>7. r \in Commands
    BY <2>6 DEF Commands
  <2>8. op' \in [Procs -> Commands]
    BY <2>6, <2>7, CommandType
  <2> QED
    BY <1>5, <2>5, <2>8 DEF Purge, Within, TypeOK, store, Trees, Generations,
       Records
<1>6. CASE PurgeDone(p)
  <2>1. op' \in [Procs -> Commands]
    BY <1>6, Simple DEF PurgeDone, TypeOK
  <2>2. DOMAIN retired' \subseteq Names
      /\ \A m \in DOMAIN retired' : retired'[m] \in Trees
    BY <1>6 DEF PurgeDone, Without, TypeOK
  <2> QED
    BY <1>6, <2>1, <2>2 DEF PurgeDone, TypeOK, store, Trees, Generations,
       Records
<1> QED
  BY <1>2, <1>3, <1>4, <1>5, <1>6

LEMMA RecordsType ==
  ASSUME TypeOK, NEW i \in Ids, NEW r \in Records
  PROVE  /\ DOMAIN With(records, i, r) \subseteq Ids
         /\ \A j \in DOMAIN With(records, i, r) : With(records, i, r)[j]
              \in Records
BY DEF With, TypeOK

LEMMA WriteSteps ==
  ASSUME MigrationAssumption, TypeOK, NEW p \in Procs,
         \/ ImportRecord(p) \/ Rebind(p) \/ BeginForward(p) \/ WriteRecord(p)
         \/ Shelve(p) \/ PublishCentral(p) \/ Flip(p) \/ FlipErrs(p)
         \/ InstallBookmark(p) \/ BeginRollback(p) \/ Install(p)
              \/ WriteMarker(p)
         \/ RemoveBookmark(p) \/ Withdraw(p)
  PROVE  TypeOK'
<1> USE DEF Within, store, trees
<1>1. CASE ImportRecord(p)
  <2>1. op' \in [Procs -> Commands]
    BY <1>1, PcType DEF ImportRecord, Steps
  <2>2. central.op \in Ids
    BY <1>1, MailType DEF ImportRecord, NeedsImport
  <2>3. [kind |-> "migrate", mail |-> NoMail, source |-> 0] \in Records
    BY Simple DEF Records
  <2>4. DOMAIN records' \subseteq Ids
      /\ \A j \in DOMAIN records' : records'[j] \in Records
    BY <1>1, <2>2, <2>3, RecordsType DEF ImportRecord
  <2> QED
    BY <1>1, <2>1, <2>4 DEF ImportRecord, TypeOK, Trees, Generations, Records
<1>2. CASE Rebind(p)
  <2>1. op' \in [Procs -> Commands]
    BY <1>2, PcType DEF Rebind, Steps
  <2>2. central' \in Generations \cup {NoGeneration}
    <3>1. CASE central = NoGeneration
      BY <1>2, <3>1 DEF Rebind, NoGeneration
    <3>2. CASE central \in Generations
      BY <1>2, <3>2 DEF Rebind, Generations
    <3> QED
      BY <3>1, <3>2 DEF TypeOK
  <2> QED
    BY <1>2, <2>1, <2>2 DEF Rebind, TypeOK, Trees, Records
<1>3. CASE BeginForward(p)
  <2>1. /\ lastId + 1 \in Ids /\ local.mail \in Contents
        /\ central # NoGeneration => central.op \in Ids
    BY <1>3, MailType DEF BeginForward, TypeOK, Ids, MigrationAssumption
  <2>2. PICK base \in Ids, stale \in BOOLEAN, pc \in {"prove", "backup"} :
          op' = [op EXCEPT ![p].id = lastId + 1, ![p].snap = local.mail,
                           ![p].base = base, ![p].stale = stale, ![p].pc = pc]
    <3> DEFINE reusable == /\ central # NoGeneration
                           /\ records[central.op].mail = local.mail
    <3>1. op' = [op EXCEPT ![p].id = lastId + 1, ![p].snap = local.mail,
                           ![p].base = IF central
                             = NoGeneration THEN 0 ELSE central.op,
                           ![p].stale = central # NoGeneration /\ ~reusable,
                           ![p].pc = IF reusable THEN "prove" ELSE "backup"]
      BY <1>3 DEF BeginForward
    <3>2. (IF central = NoGeneration THEN 0 ELSE central.op) \in Ids
      BY <2>1, Simple
    <3>3. (central # NoGeneration /\ ~reusable) \in BOOLEAN
      OBVIOUS
    <3>4. (IF reusable THEN "prove" ELSE "backup") \in {"prove", "backup"}
      OBVIOUS
    <3> QED
      BY <3>1, <3>2, <3>3, <3>4
  <2> DEFINE r == [op[p] EXCEPT !.id = lastId + 1, !.snap = local.mail,
                     !.base = base, !.stale = stale, !.pc = pc]
  <2>3. op[p] \in Commands /\ op' = [op EXCEPT ![p] = r]
    BY <2>2, MailType DEF TypeOK
  <2>4. r \in Commands
    BY <2>1, <2>2, <2>3 DEF Commands, Steps
  <2>5. op' \in [Procs -> Commands]
    BY <2>3, <2>4, CommandType
  <2>6. local' \in Trees /\ lastId' \in Ids
    BY <1>3, <2>1 DEF BeginForward, TypeOK, Trees
  <2> QED
    BY <1>3, <2>5, <2>6 DEF BeginForward, TypeOK, Trees, Generations, Records
<1>4. CASE WriteRecord(p)
  <2>1. op' \in [Procs -> Commands]
    <3>1. PICK pc \in {"shelve", "stage"} : op' = [op EXCEPT ![p].pc = pc]
      BY <1>4 DEF WriteRecord
    <3> QED
      BY <3>1, PcType DEF Steps
  <2>2. /\ op[p].id \in Ids
        /\ [kind |-> op[p].kind, mail |-> op[p].snap, source |-> op[p].base]
             \in Records
    BY MailType DEF Commands, Records
  <2>3. DOMAIN records' \subseteq Ids
      /\ \A j \in DOMAIN records' : records'[j] \in Records
    BY <1>4, <2>2, RecordsType DEF WriteRecord
  <2> QED
    BY <1>4, <2>1, <2>3 DEF WriteRecord, TypeOK, Trees, Generations, Records
<1>5. CASE Shelve(p)
  <2>1. op' \in [Procs -> Commands]
    BY <1>5, PcType DEF Shelve, Steps
  <2>2. central' = NoGeneration
      /\ shelf' \subseteq {"stale", "rolledback"} \X Ids
    BY <1>5, MailType DEF Shelve, SetAside, Commands, TypeOK
  <2> QED
    BY <1>5, <2>1, <2>2 DEF Shelve, TypeOK, Trees, Records
<1>6. CASE PublishCentral(p)
  <2> DEFINE r == [op[p] EXCEPT !.base = op[p].id, !.pc = "prove"]
  <2>1. op[p] \in Commands /\ op' = [op EXCEPT ![p] = r]
    BY <1>6, MailType DEF PublishCentral, TypeOK
  <2>2. r \in Commands
    BY <2>1 DEF Commands, Steps
  <2>3. op' \in [Procs -> Commands]
    BY <2>1, <2>2, CommandType
  <2>4. central' \in Generations
    BY <1>6, <2>1 DEF PublishCentral, Generations, Commands
  <2> QED
    BY <1>6, <2>3, <2>4 DEF PublishCentral, TypeOK, Trees, Records
<1>7. CASE Flip(p)
  <2>1. PICK pc \in {"recheck", "unmark"} :
          op' = [op EXCEPT ![p].pc = pc, ![p].trusted = TRUE]
    BY <1>7 DEF Flip
  <2> DEFINE r == [op[p] EXCEPT !.pc = pc, !.trusted = TRUE]
  <2>2. op[p] \in Commands /\ op' = [op EXCEPT ![p] = r]
    BY <2>1, MailType DEF TypeOK
  <2>3. r \in Commands
    BY <2>2 DEF Commands, Steps
  <2>4. op' \in [Procs -> Commands]
    BY <2>2, <2>3, CommandType
  <2>5. layout' \in {"local", "central"}
    BY <1>7 DEF Flip, Desired
  <2> QED
    BY <1>7, <2>4, <2>5 DEF Flip, TypeOK, Trees, Generations, Records
<1>8. CASE FlipErrs(p)
  <2>1. op' \in [Procs -> Commands]
    BY <1>8, EndType DEF FlipErrs
  <2>2. layout' \in {"local", "central"} /\ faults' \in 0..MaxFaults
    BY <1>8 DEF FlipErrs, Desired, TypeOK, MigrationAssumption
  <2> QED
    BY <1>8, <2>1, <2>2 DEF FlipErrs, TypeOK, Trees, Generations, Records
<1>9. CASE InstallBookmark(p) \/ RemoveBookmark(p)
  <2>1. PICK pc \in {"unlock", "withdraw"} : op' = [op EXCEPT ![p].pc = pc]
    BY <1>9 DEF InstallBookmark, RemoveBookmark
  <2>2. op' \in [Procs -> Commands]
    BY <2>1, PcType DEF Steps
  <2> QED
    BY <1>9, <2>2 DEF InstallBookmark, RemoveBookmark, TypeOK, Trees,
       Generations, Records
<1>10. CASE BeginRollback(p)
  <2>1. central \in Generations /\ lastId + 1 \in Ids
    BY <1>10, MailType DEF BeginRollback, Verified, TypeOK, Ids,
       MigrationAssumption
  <2> DEFINE r == [op[p] EXCEPT !.id = lastId + 1, !.snap = central.mail,
                      !.base = central.op, !.pc = "backup"]
  <2>2. op[p] \in Commands /\ op' = [op EXCEPT ![p] = r]
    BY <1>10, MailType DEF BeginRollback, TypeOK
  <2>3. r \in Commands
    BY <2>1, <2>2 DEF Commands, Steps, Generations
  <2>4. op' \in [Procs -> Commands]
    BY <2>2, <2>3, CommandType
  <2> QED
    BY <1>10, <2>1, <2>4 DEF BeginRollback, TypeOK, Trees, Generations, Records
<1>11. CASE Install(p)
  <2>1. /\ NextPart(p) \in Parts /\ op[p].copy \in Contents
        /\ op' \in [Procs -> Commands]
    BY <1>11, MailType, PartType DEF Install, Commands
  <2>2. local' \in Trees
    BY <1>11, <2>1, MailType DEF Install, Trees
  <2> QED
    BY <1>11, <2>1, <2>2 DEF Install, TypeOK, Generations, Records
<1>12. CASE WriteMarker(p)
  <2>1. op' \in [Procs -> Commands]
    BY <1>12, PcType DEF WriteMarker, Steps
  <2>2. op[p].base \in Ids /\ op[p].id \in Ids
    BY MailType DEF Commands
  <2>3. marker' \in [source : Ids, rollback : Ids]
    BY <1>12, <2>2 DEF WriteMarker
  <2> QED
    BY <1>12, <2>1, <2>3 DEF WriteMarker, TypeOK, Trees, Generations, Records
<1>13. CASE Withdraw(p)
  <2>1. op' \in [Procs -> Commands]
    BY <1>13, PcType DEF Withdraw, Steps
  <2>2. (IF op[p].trusted THEN central.op ELSE op[p].id) \in Ids
    BY <1>13, MailType DEF Withdraw, Verified, Commands
  <2>3. central' = NoGeneration
      /\ shelf' \subseteq {"stale", "rolledback"} \X Ids
    BY <1>13, <2>2 DEF Withdraw, SetAside, TypeOK
  <2> QED
    BY <1>13, <2>1, <2>3 DEF Withdraw, TypeOK, Trees, Records
<1> QED
  BY <1>1, <1>2, <1>3, <1>4, <1>5, <1>6, <1>7, <1>8, <1>9, <1>10, <1>11,
     <1>12, <1>13

LEMMA MailSteps ==
  ASSUME MigrationAssumption, TypeOK,
         \/ \E m \in Mail : Deliver(m) \/ Read(m)
         \/ \E m \in Strays : WriteByHand(m)
         \/ DiscardArchive
  PROVE  TypeOK'
<1>1. ASSUME NEW m \in Mail, NEW from, NEW to \in Marks,
             InAuthority(m, from, to)
      PROVE  TypeOK'
  <2>1. CASE layout = "local"
    <3>1. local' = [local EXCEPT !.mail[m] = to] /\ central' = central
      BY <1>1, <2>1 DEF InAuthority
    <3>2. [local.mail EXCEPT ![m] = to] \in Contents
      BY MailType DEF Contents
    <3>3. local' \in Trees
      BY <3>1, <3>2 DEF TypeOK, Trees
    <3> QED
      BY <1>1, <3>1, <3>3 DEF InAuthority, TypeOK, store, Generations, Records
  <2>2. CASE layout # "local"
    <3>1. central' = [central EXCEPT !.mail[m] = to] /\ local' = local
      BY <1>1, <2>2 DEF InAuthority
    <3>2. CASE central = NoGeneration
      <4>1. central' = central
        BY <3>1, <3>2 DEF NoGeneration
      <4> QED
        BY <1>1, <3>1, <4>1 DEF InAuthority, TypeOK, store, Trees,
           Generations, Records
    <3>3. CASE central \in Generations
      <4>1. [central.mail EXCEPT ![m] = to] \in Contents
        BY <3>3 DEF Contents, Generations
      <4>2. central' \in Generations
        BY <3>1, <3>3, <4>1 DEF Generations
      <4> QED
        BY <1>1, <3>1, <4>2 DEF InAuthority, TypeOK, store, Trees, Records
    <3> QED
      BY <3>2, <3>3 DEF TypeOK
  <2> QED
    BY <2>1, <2>2
<1>2. ASSUME NEW m \in Strays, WriteByHand(m) PROVE TypeOK'
  <2>1. [local.mail EXCEPT ![m] = "new"] \in Contents
      /\ local.parts \in SUBSET Parts
    BY MailType DEF Contents, Marks
  <2>2. local' \in Trees
    BY <1>2, <2>1 DEF WriteByHand, Trees, Parts, MailParts
  <2>3. stray' \subseteq Strays \X {"between", "during"}
    BY <1>2 DEF WriteByHand, TypeOK
  <2> QED
    BY <1>2, <2>2, <2>3 DEF WriteByHand, TypeOK, store, Generations, Records
<1>3. CASE DiscardArchive
  BY <1>3 DEF DiscardArchive, TypeOK, trees, Trees, Generations, Records
<1> QED
  BY <1>1, <1>2, <1>3 DEF Deliver, Read, Marks

LEMMA TypeStep == MigrationAssumption /\ TypeOK /\ [Next]_vars => TypeOK'
<1> SUFFICES ASSUME MigrationAssumption, TypeOK, [Next]_vars PROVE TypeOK'
  OBVIOUS
<1>1. CASE UNCHANGED vars
  BY <1>1 DEF vars, trees, store, TypeOK, Trees, Generations, Records
<1>2. ASSUME NEW p \in Procs, Command(p) \/ Refuse(p) \/ Step(p) \/ Fault(p)
      PROVE  TypeOK'
  BY <1>2, QuietSteps, RetireSteps, WriteSteps DEF Step, Fault
<1> QED
  BY <1>1, <1>2, MailSteps DEF Next, Mail

-----------------------------------------------------------------------------
(* The invariant.                                                          *)

\* What the layout lock protects.
core == <<layout, local, central, records, lastId>>

Numbering == central # NoGeneration => central.op <= lastId

LEMMA InitInv == MigrationAssumption /\ Init => CutoverInv
<1> SUFFICES ASSUME MigrationAssumption, Init PROVE CutoverInv
  OBVIOUS
<1>1. TypeOK
  BY InitType
<1>2. \A p \in Procs : op[p] = Idle
  BY DEF Init
<1>3. Exclusive /\ \A p \in Procs : CommandInv(p)
  BY <1>2 DEF Exclusive, Holds, Idle, CommandInv, Phase, Numbered, Imported,
     Ready, Forward, Backward
<1>4. AuthorityWhole
  <2>1. CASE layout = "local"
    BY <2>1 DEF Init, AuthorityWhole, Whole, Parts
  <2>2. CASE layout # "local"
    <3>1. central = [op |-> 0, mail |-> NoMail, legacy |-> TRUE]
      BY <2>2 DEF Init
    <3> QED
      BY <2>2, <3>1 DEF AuthorityWhole, NoGeneration
  <2> QED
    BY <2>1, <2>2
<1>5. central # NoGeneration => central.op <= lastId
  BY DEF Init
<1> QED
  BY <1>1, <1>3, <1>4, <1>5 DEF CutoverInv

LEMMA IdleInv ==
  ASSUME NEW p \in Procs, op'[p] = Idle
  PROVE  CommandInv(p)'
BY DEF Idle, CommandInv, Phase, Numbered, Imported, Ready, Forward, Backward

\* A command is not disturbed while the lock protects what it works on.
LEMMA Undisturbed ==
  ASSUME NEW p \in Procs, CommandInv(p), op'[p] = op[p],
         Holds(p) => UNCHANGED core
  PROVE  CommandInv(p)'
<1>1. CASE Holds(p)
  <2>1. UNCHANGED <<layout, local, central, records, lastId>>
    BY <1>1 DEF core
  <2>2. Phase(p)' /\ Numbered(p)' /\ Imported(p)'
    BY <2>1 DEF CommandInv, Phase, Numbered, Imported
  <2>3. (Proven(p) => Proven(p)') /\ (Grown(p) => Grown(p)')
    BY <2>1 DEF Proven, Pristine, Verified, BoundTo, Grown
  <2>4. Ready(p)'
    BY <2>1, <2>3 DEF CommandInv, Ready
  <2> QED
    BY <2>2, <2>4 DEF CommandInv
<1>2. CASE ~Holds(p)
  BY <1>2 DEF Holds, CommandInv, Phase, Numbered, Imported, Ready, Forward,
     Backward
<1> QED
  BY <1>1, <1>2

\* A step of one command, which holds the lock or leaves the core alone.
LEMMA OneSteps ==
  ASSUME CutoverInv, TypeOK', NEW p \in Procs,
         \A q \in Procs \ {p} : op'[q] \in {op[q], Idle},
         Holds(p)' => Holds(p) \/ Unlocked,
         Holds(p) \/ UNCHANGED core,
         AuthorityWhole', Numbering', CommandInv(p)'
  PROVE  CutoverInv'
<1>1. ASSUME NEW q \in Procs \ {p} PROVE CommandInv(q)'
             /\ (Holds(q)' => Holds(q))
  <2>1. CASE op'[q] = Idle
    <3>1. CommandInv(q)'
      BY <2>1, IdleInv
    <3>2. ~Holds(q)'
      BY <2>1 DEF Holds, Idle
    <3> QED
      BY <3>1, <3>2
  <2>2. CASE op'[q] = op[q]
    <3>1. Holds(q) => UNCHANGED core
      BY DEF CutoverInv, Exclusive
    <3>2. CommandInv(q)'
      BY <2>2, <3>1, Undisturbed DEF CutoverInv
    <3> QED
      BY <2>2, <3>2 DEF Holds
  <2> QED
    BY <2>1, <2>2
<1>2. Exclusive'
  BY <1>1 DEF CutoverInv, Exclusive, Unlocked
<1>3. \A q \in Procs : CommandInv(q)'
  BY <1>1
<1> QED
  BY <1>2, <1>3 DEF CutoverInv, Numbering

LEMMA CoreKept ==
  ASSUME CutoverInv, UNCHANGED core
  PROVE  AuthorityWhole' /\ Numbering'
BY DEF CutoverInv, core, AuthorityWhole, Numbering, Whole, Verified

\* A command that ends where it stands.
LEMMA EndStep ==
  ASSUME MigrationAssumption, CutoverInv, TypeOK', NEW p \in Procs, NEW report,
         End(p, report), UNCHANGED core
  PROVE  CutoverInv'
<1>1. op'[p] = Idle /\ \A q \in Procs \ {p} : op'[q] = op[q]
  BY DEF End, CutoverInv, TypeOK
<1>2. CommandInv(p)'
  BY <1>1, IdleInv
<1>3. ~Holds(p)'
  BY <1>1 DEF Holds, Idle
<1> QED
  BY <1>1, <1>2, <1>3, CoreKept, OneSteps

\* A command that goes on and leaves the core alone.
LEMMA GoOn ==
  ASSUME CutoverInv, TypeOK', NEW p \in Procs, NEW r,
         op' = [op EXCEPT ![p] = r],
         UNCHANGED core, Holds(p)' => Holds(p) \/ Unlocked, CommandInv(p)'
  PROVE  CutoverInv'
<1>1. \A q \in Procs \ {p} : op'[q] = op[q]
  BY DEF CutoverInv, TypeOK
<1> QED
  BY <1>1, CoreKept, OneSteps

LEMMA EndSteps ==
  ASSUME MigrationAssumption, CutoverInv, TypeOK', NEW p \in Procs,
         \/ Refuse(p) \/ ImportFails(p) \/ ForwardRefused(p) \/ CopyRefused(p)
         \/ RollbackRefused(p) \/ RetireLost(p) \/ Fail(p) \/ Kill(p)
         \/ RecheckFails(p) \/ InstallRefused(p)
  PROVE  CutoverInv'
<1>1. CASE Refuse(p) \/ ImportFails(p) \/ ForwardRefused(p) \/ CopyRefused(p)
             \/ RollbackRefused(p) \/ InstallRefused(p)
  BY <1>1, EndStep DEF Refuse, ImportFails, ForwardRefused, CopyRefused,
     RollbackRefused, InstallRefused, Refusal, core, trees, store
<1>2. CASE RetireLost(p) \/ RecheckFails(p) \/ Fail(p) \/ Kill(p)
  BY <1>2, EndStep DEF RetireLost, RecheckFails, Fail, Kill, core, trees, store
<1> QED
  BY <1>1, <1>2

\* Starting, copying, proving: steps that read what the lock protects.
LEMMA ReadSteps ==
  ASSUME MigrationAssumption, CutoverInv, TypeOK', NEW p \in Procs,
         \/ Command(p) \/ CopyBackup(p) \/ SealBackup(p) \/ Stage(p)
              \/ Prove(p)
         \/ VerifyInstalled(p) \/ NothingInTheWay(p) \/ WriteMarker(p)
  PROVE  CutoverInv'
<1>1. TypeOK /\ op[p] \in Commands
  BY MailType DEF CutoverInv
<1>2. CommandInv(p)
  BY DEF CutoverInv
<1>3. ASSUME NEW kind \in {"migrate", "rollback"}, NEW i \in Ids,
             Start(p, kind, i)
      PROVE  CutoverInv'
  <2> DEFINE r == [Idle EXCEPT !.pc = "begin", !.kind = kind, !.asked = i]
  <2>1. op' = [op EXCEPT ![p] = r] /\ op'[p] = r
    BY <1>1, <1>3 DEF Start, TypeOK
  <2>2. r.pc = "begin" /\ r.kind = kind /\ ~r.stale
    BY DEF Idle
  <2> HIDE DEF r
  <2>3. CommandInv(p)'
    BY <2>1, <2>2 DEF CommandInv, Phase, Numbered, Imported, Ready, Forward,
       Backward
  <2>4. UNCHANGED core /\ Unlocked
    BY <1>3 DEF Start, core, trees, store
  <2> QED
    BY <1>1, <2>1, <2>3, <2>4, GoOn
<1>4. CASE Command(p)
  BY <1>3, <1>4, Simple DEF Command
<1>5. ASSUME NEW mail, NEW next \in {"seal", "publish", "displace"},
             CopyInto(p, mail, next), Holds(p),
             CommandInv(p) =>
               \A r : op'[p] = r /\ r.pc = next /\ r.kind = op[p].kind
                        /\ r.stale = op[p].stale /\ r.id = op[p].id
                             /\ UNCHANGED core => CommandInv(p)'
      PROVE  CutoverInv'
  <2>1. PICK c : op' = [op EXCEPT ![p].copy = c, ![p].pc = next]
    BY <1>5 DEF CopyInto
  <2> DEFINE r == [op[p] EXCEPT !.copy = c, !.pc = next]
  <2>2. op' = [op EXCEPT ![p] = r] /\ op'[p] = r
    BY <1>1, <2>1 DEF TypeOK
  <2>3. r.pc = next /\ r.kind = op[p].kind /\ r.id = op[p].id
      /\ r.stale = op[p].stale
    BY <1>1, <2>2 DEF Commands
  <2>4. UNCHANGED core
    BY <1>5 DEF CopyInto, core, trees, store
  <2>5. CommandInv(p)'
    BY <1>2, <1>5, <2>2, <2>3, <2>4
  <2> HIDE DEF r
  <2> QED
    BY <1>1, <1>5, <2>2, <2>4, <2>5, GoOn
<1>6. CASE CopyBackup(p)
  <2>1. Holds(p) /\ CopyInto(p, op[p].snap, "seal")
    BY <1>6 DEF CopyBackup, Holds
  <2>2. ASSUME NEW r, op'[p] = r, r.pc = "seal", r.kind = op[p].kind,
               r.stale = op[p].stale,
               r.id = op[p].id, UNCHANGED core
        PROVE  CommandInv(p)'
    BY <1>2, <1>6, <2>2 DEF CopyBackup, CommandInv, Phase, Numbered, Imported,
       Ready, Forward, Backward, core
  <2> QED
    BY <1>5, <2>1, <2>2
<1>7. CASE Stage(p)
  <2> DEFINE next == IF op[p].kind = "migrate" THEN "publish" ELSE "displace"
  <2>1. Holds(p) /\ CopyInto(p, op[p].backup, next)
    BY <1>7 DEF Stage, Holds
  <2>2. ASSUME NEW r, op'[p] = r, r.pc = next, r.kind = op[p].kind,
               r.stale = op[p].stale,
               r.id = op[p].id, UNCHANGED core
        PROVE  CommandInv(p)'
    BY <1>2, <1>7, <2>2 DEF Stage, CommandInv, Phase, Numbered, Imported,
       Ready, Forward, Backward, core
  <2>3. next \in {"seal", "publish", "displace"}
    OBVIOUS
  <2> HIDE DEF next
  <2> QED
    BY <1>5, <2>1, <2>2, <2>3
<1>8. CASE SealBackup(p)
  <2> DEFINE r == [op[p] EXCEPT !.pc = "record", !.backup = op[p].copy]
  <2>1. op' = [op EXCEPT ![p] = r] /\ op'[p] = r
    BY <1>1, <1>8 DEF SealBackup, TypeOK
  <2>2. /\ r.pc = "record"
        /\ r.kind = op[p].kind
        /\ r.id = op[p].id
        /\ r.snap = op[p].snap
        /\ r.base = op[p].base
        /\ r.stale = op[p].stale
    BY <1>1 DEF Commands
  <2> HIDE DEF r
  <2>3. UNCHANGED core
    BY <1>8 DEF SealBackup, core, trees, store, Within
  <2>4. Holds(p)
    BY <1>8 DEF SealBackup, At, Holds
  <2>5. op[p].kind \in {"migrate", "rollback"}
    BY <1>1 DEF Commands
  <2>6. Phase(p)'
    BY <1>2, <1>8, <2>1, <2>2, <2>3, <2>5 DEF SealBackup, At, CommandInv,
       Phase, Forward, Backward, core
  <2>7. Numbered(p)' /\ Imported(p)'
    BY <1>2, <1>8, <2>1, <2>2, <2>3 DEF SealBackup, At, CommandInv, Numbered,
       Imported, core
  <2>8. Ready(p)'
    BY <1>2, <1>8, <2>1, <2>2, <2>3, <2>5 DEF SealBackup, At, CommandInv,
       Ready, core
  <2>9. CommandInv(p)'
    BY <2>6, <2>7, <2>8 DEF CommandInv
  <2> QED
    BY <1>1, <2>1, <2>3, <2>4, <2>9, GoOn
<1>9. CASE Prove(p)
  <2> DEFINE r == [op[p] EXCEPT !.pc = "flip"]
  <2>1. op' = [op EXCEPT ![p] = r] /\ op'[p] = r
    BY <1>1, <1>9 DEF Prove, TypeOK
  <2>2. /\ r.pc = "flip"
        /\ r.kind = op[p].kind
        /\ r.id = op[p].id
        /\ r.snap = op[p].snap
        /\ r.base = op[p].base
        /\ r.stale = op[p].stale
    BY <1>1 DEF Commands
  <2> HIDE DEF r
  <2>3. UNCHANGED core
    BY <1>9 DEF Prove, core, trees, store, Within
  <2>4. Holds(p)
    BY <1>9 DEF Prove, At, Holds
  <2>5. op[p].kind \in {"migrate", "rollback"}
    BY <1>1 DEF Commands
  <2>6. Phase(p)'
    BY <1>2, <1>9, <2>1, <2>2, <2>3, <2>5 DEF Prove, At, CommandInv, Phase,
       Forward, Backward, core
  <2>7. Numbered(p)' /\ Imported(p)'
    BY <1>2, <1>9, <2>1, <2>2, <2>3 DEF Prove, At, CommandInv, Numbered,
       Imported, core
  <2>8. Ready(p)'
    BY <1>2, <1>9, <2>1, <2>2, <2>3, <2>5 DEF Prove, At, CommandInv, Ready,
       Grown, core, Proven, Pristine, Verified, BoundTo
  <2>9. CommandInv(p)'
    BY <2>6, <2>7, <2>8 DEF CommandInv
  <2> QED
    BY <1>1, <2>1, <2>3, <2>4, <2>9, GoOn
<1>10. CASE VerifyInstalled(p)
  <2> DEFINE r == [op[p] EXCEPT !.pc = "prove"]
  <2>1. op' = [op EXCEPT ![p] = r] /\ op'[p] = r
    BY <1>1, <1>10 DEF VerifyInstalled, TypeOK
  <2>2. /\ r.pc = "prove"
        /\ r.kind = op[p].kind
        /\ r.id = op[p].id
        /\ r.snap = op[p].snap
        /\ r.base = op[p].base
        /\ r.stale = op[p].stale
    BY <1>1 DEF Commands
  <2> HIDE DEF r
  <2>3. UNCHANGED core
    BY <1>10 DEF VerifyInstalled, core, trees, store, Within
  <2>4. Holds(p)
    BY <1>10 DEF VerifyInstalled, At, Holds
  <2>5. op[p].kind \in {"migrate", "rollback"}
    BY <1>1 DEF Commands
  <2>6. Phase(p)'
    BY <1>2, <1>10, <2>1, <2>2, <2>3, <2>5 DEF VerifyInstalled, At,
       CommandInv, Phase, Forward, Backward, core
  <2>7. Numbered(p)' /\ Imported(p)'
    BY <1>2, <1>10, <2>1, <2>2, <2>3 DEF VerifyInstalled, At, CommandInv,
       Numbered, Imported, core
  <2>8. Ready(p)'
    BY <1>2, <1>10, <2>1, <2>2, <2>3, <2>5 DEF VerifyInstalled, At,
       CommandInv, Ready, Grown, core
  <2>9. CommandInv(p)'
    BY <2>6, <2>7, <2>8 DEF CommandInv
  <2> QED
    BY <1>1, <2>1, <2>3, <2>4, <2>9, GoOn
<1>11. CASE NothingInTheWay(p)
  <2> DEFINE r == [op[p] EXCEPT !.pc = "install", !.left = Parts]
  <2>1. op' = [op EXCEPT ![p] = r] /\ op'[p] = r
    BY <1>1, <1>11 DEF NothingInTheWay, TypeOK
  <2>2. /\ r.pc = "install" /\ r.left = Parts
        /\ r.kind = op[p].kind
        /\ r.id = op[p].id
        /\ r.snap = op[p].snap
        /\ r.base = op[p].base
        /\ r.stale = op[p].stale
    BY <1>1 DEF Commands
  <2> HIDE DEF r
  <2>3. UNCHANGED core
    BY <1>11 DEF NothingInTheWay, core, trees, store, Within
  <2>4. Holds(p)
    BY <1>11 DEF NothingInTheWay, At, Holds
  <2>5. op[p].kind \in {"migrate", "rollback"}
    BY <1>1 DEF Commands
  <2>6. Phase(p)'
    BY <1>2, <1>11, <2>1, <2>2, <2>3, <2>5 DEF NothingInTheWay, At,
       CommandInv, Phase, Forward, Backward, core
  <2>7. Numbered(p)' /\ Imported(p)'
    BY <1>2, <1>11, <2>1, <2>2, <2>3 DEF NothingInTheWay, At, CommandInv,
       Numbered, Imported, core
  <2>8. Ready(p)'
    BY <1>2, <1>11, <2>1, <2>2, <2>3, <2>5 DEF NothingInTheWay, At,
       CommandInv, Ready, core
  <2>9. CommandInv(p)'
    BY <2>6, <2>7, <2>8 DEF CommandInv
  <2> QED
    BY <1>1, <2>1, <2>3, <2>4, <2>9, GoOn
<1>12. CASE WriteMarker(p)
  <2> DEFINE r == [op[p] EXCEPT !.pc = "mark"]
  <2>1. op' = [op EXCEPT ![p] = r] /\ op'[p] = r
    BY <1>1, <1>12 DEF WriteMarker, TypeOK
  <2>2. /\ r.pc = "mark"
        /\ r.kind = op[p].kind
        /\ r.id = op[p].id
        /\ r.snap = op[p].snap
        /\ r.base = op[p].base
        /\ r.stale = op[p].stale
    BY <1>1 DEF Commands
  <2> HIDE DEF r
  <2>3. UNCHANGED core
    BY <1>12 DEF WriteMarker, core, trees, store, Within
  <2>4. Holds(p)
    BY <1>12 DEF WriteMarker, At, Holds
  <2>5. op[p].kind \in {"migrate", "rollback"}
    BY <1>1 DEF Commands
  <2>6. Phase(p)'
    BY <1>2, <1>12, <2>1, <2>2, <2>3, <2>5 DEF WriteMarker, At, CommandInv,
       Phase, Forward, Backward, core
  <2>7. Numbered(p)' /\ Imported(p)'
    BY <1>2, <1>12, <2>1, <2>2, <2>3 DEF WriteMarker, At, CommandInv,
       Numbered, Imported, core
  <2>8. Ready(p)'
    BY <1>1, <1>2, <1>12, <2>1, <2>2, <2>3, <2>5, MailType
       DEF WriteMarker, At, CommandInv, Ready, core
  <2>9. CommandInv(p)'
    BY <2>6, <2>7, <2>8 DEF CommandInv
  <2> QED
    BY <1>1, <2>1, <2>3, <2>4, <2>9, GoOn
<1> QED
  BY <1>4, <1>6, <1>7, <1>8, <1>9, <1>10, <1>11, <1>12

\* What a command does when the registry has the layout it wants.
LEMMA RepairSteps ==
  ASSUME MigrationAssumption, CutoverInv, TypeOK', NEW p \in Procs,
         \/ BeginRepair(p) \/ Recheck(p) \/ Assess(p)
         \/ Cleanup(p) \/ Displace(p) \/ CleanupResumes(p)
         \/ RetireDone(p) \/ InstallBookmark(p) \/ Unlock(p) \/ Purge(p)
         \/ PurgeDone(p) \/ BeginRollbackRepair(p) \/ RemoveBookmark(p)
         \/ LeaveCandidate(p)
  PROVE  CutoverInv'
<1>1. TypeOK /\ op[p] \in Commands
  BY MailType DEF CutoverInv
<1>2. CommandInv(p)
  BY DEF CutoverInv
<1>3. CASE BeginRepair(p)
  <2> DEFINE r == [op[p] EXCEPT !.id = central.op, !.pc = "cleanup",
                   !.snap = records[central.op].mail, !.trusted = FALSE]
  <2>1. op' = [op EXCEPT ![p] = r] /\ op'[p] = r
    BY <1>1, <1>3 DEF BeginRepair, TypeOK
  <2>2. /\ r.pc = "cleanup"
        /\ r.kind = op[p].kind
        /\ r.id = central.op
        /\ r.snap = records[central.op].mail
        /\ r.base = op[p].base
        /\ r.stale = op[p].stale
    BY <1>1 DEF Commands
  <2> HIDE DEF r
  <2>3. UNCHANGED core
    BY <1>3 DEF BeginRepair, core, trees, store, Within
  <2>4. Holds(p)
    BY <1>3 DEF BeginRepair, At, Holds
  <2>5. op[p].kind \in {"migrate", "rollback"}
    BY <1>1 DEF Commands
  <2>6. Phase(p)'
    BY <1>2, <1>3, <2>1, <2>2, <2>3, <2>5 DEF BeginRepair, At, CommandInv,
       Phase, Forward, Backward, core
  <2>7. Numbered(p)' /\ Imported(p)'
    BY <1>2, <1>3, <2>1, <2>2, <2>3 DEF BeginRepair, At, CommandInv, Numbered,
       Imported, core
  <2>8. Ready(p)'
    BY <1>2, <1>3, <2>1, <2>2, <2>3, <2>5 DEF BeginRepair, At, CommandInv,
       Ready, core
  <2>9. CommandInv(p)'
    BY <2>6, <2>7, <2>8 DEF CommandInv
  <2> QED
    BY <1>1, <2>1, <2>3, <2>4, <2>9, GoOn
<1>16. ASSUME NEW r, op' = [op EXCEPT ![p] = r],
              r.pc \in {"cleanup", "assessed"}, r.kind = op[p].kind,
              r.stale = op[p].stale,
              op[p].pc \in {"recheck", "cleanup"}, UNCHANGED core
       PROVE  CutoverInv'
  <2>1. op'[p] = r
    BY <1>1, <1>16 DEF TypeOK
  <2>2. op[p].kind \in {"migrate", "rollback"} /\ Holds(p)
    BY <1>1, <1>16 DEF Commands, Holds
  <2>3. CommandInv(p)'
    BY <1>2, <1>16, <2>1, <2>2 DEF CommandInv, Phase, Numbered,
       Imported, Ready, Forward, Backward, core
  <2> QED
    BY <1>1, <1>16, <2>2, <2>3, GoOn
<1>17. CASE Recheck(p)
  <2> DEFINE r == [op[p] EXCEPT !.pc = "cleanup"]
  <2>1. op' = [op EXCEPT ![p] = r]
    BY <1>1, <1>17 DEF Recheck, TypeOK
  <2>2. r.pc = "cleanup" /\ r.kind = op[p].kind /\ r.stale = op[p].stale
    BY <1>1 DEF Commands
  <2>3. UNCHANGED core /\ op[p].pc = "recheck"
    BY <1>17 DEF Recheck, core, trees, store
  <2> HIDE DEF r
  <2> QED
    BY <1>16, <2>1, <2>2, <2>3
<1>18. CASE Assess(p)
  <2> DEFINE r == [op[p] EXCEPT !.pc = "assessed", !.drift = Drifted(p)]
  <2>1. op' = [op EXCEPT ![p] = r]
    BY <1>1, <1>18 DEF Assess, TypeOK
  <2>2. r.pc = "assessed" /\ r.kind = op[p].kind /\ r.stale = op[p].stale
    BY <1>1 DEF Commands
  <2>3. UNCHANGED core /\ op[p].pc = "cleanup"
    BY <1>18 DEF Assess, core, trees, store
  <2> HIDE DEF r
  <2> QED
    BY <1>16, <2>1, <2>2, <2>3
<1>4. ASSUME NEW drift, MakeRetired(p, drift),
             \/ At(p, "migrate", "assessed")
             \/ At(p, "rollback", "displace")
      PROVE  CutoverInv'
  <2> DEFINE r == [op[p] EXCEPT !.pc = "retire", !.drift = drift,
                                !.left = local.parts,
                                !.dest = RetiredName(op[p].id)]
  <2>1. op' = [op EXCEPT ![p] = r] /\ op'[p] = r
    BY <1>1, <1>4 DEF MakeRetired, TypeOK
  <2>2. r.pc = "retire" /\ r.kind = op[p].kind /\ r.stale = op[p].stale
    BY <1>1 DEF Commands
  <2>3. UNCHANGED core
    BY <1>4 DEF MakeRetired, core, trees, store
  <2> HIDE DEF r
  <2>4. CommandInv(p)'
    BY <1>2, <1>4, <2>1, <2>2, <2>3 DEF At, CommandInv, Phase, Numbered,
       Imported, Ready, Forward, Backward, core
  <2>5. Holds(p)
    BY <1>4 DEF At, Holds
  <2> QED
    BY <1>1, <2>1, <2>3, <2>4, <2>5, GoOn
<1>5. CASE Cleanup(p)
  <2>1. At(p, "migrate", "assessed")
    BY <1>1, <1>2, <1>5 DEF Cleanup, At, CommandInv, Phase, Commands
  <2> QED
    BY <1>4, <1>5, <2>1 DEF Cleanup
<1>6. CASE Displace(p)
  <2>1. At(p, "rollback", "displace")
    BY <1>1, <1>2, <1>6 DEF Displace, At, CommandInv, Phase, Commands
  <2> QED
    BY <1>4, <1>6, <2>1 DEF Displace
<1>7. CASE CleanupResumes(p)
  <2>1. PICK d : op' = [op EXCEPT ![p].pc = "bookmark", ![p].dest = d]
    BY <1>7 DEF CleanupResumes
  <2> DEFINE r == [op[p] EXCEPT !.pc = "bookmark", !.dest = d]
  <2>2. op' = [op EXCEPT ![p] = r] /\ op'[p] = r
    BY <1>1, <2>1 DEF TypeOK
  <2>3. r.pc = "bookmark" /\ r.kind = op[p].kind /\ r.stale = op[p].stale
    BY <1>1 DEF Commands
  <2>4. UNCHANGED core /\ op[p].pc = "cleanup"
    BY <1>7 DEF CleanupResumes, core, trees, store
  <2> HIDE DEF r
  <2>5. CommandInv(p)'
    BY <1>1, <1>2, <2>2, <2>3, <2>4 DEF Commands, CommandInv, Phase, Numbered,
       Imported, Ready, Forward, Backward, core
  <2>6. Holds(p)
    BY <2>4 DEF Holds
  <2> QED
    BY <1>1, <2>2, <2>4, <2>5, <2>6, GoOn
<1>8. CASE RetireDone(p)
  <2> DEFINE r == [op[p] EXCEPT !.pc = IF op[p].kind
                   = "migrate" THEN "bookmark"
                                       ELSE "install",
                                !.left = IF op[p].kind = "migrate" THEN {}
                                         ELSE Parts,
                                !.dest = IF op[p].drift THEN NoName ELSE @]
  <2>1. op' = [op EXCEPT ![p] = r] /\ op'[p] = r
    BY <1>1, <1>8 DEF RetireDone, TypeOK
  <2>2. /\ r.pc = IF op[p].kind = "migrate" THEN "bookmark" ELSE "install"
        /\ r.kind = op[p].kind /\ r.stale = op[p].stale
        /\ op[p].kind = "rollback" => r.left = Parts
    BY <1>1 DEF Commands
  <2>3. UNCHANGED core /\ op[p].pc = "retire"
    BY <1>8 DEF RetireDone, core, trees, store
  <2> HIDE DEF r
  <2>4. CommandInv(p)'
    BY <1>1, <1>2, <2>1, <2>2, <2>3 DEF Commands, CommandInv, Phase, Numbered,
       Imported, Ready, Forward, Backward, core
  <2>5. Holds(p)
    BY <2>3 DEF Holds
  <2> QED
    BY <1>1, <2>1, <2>3, <2>4, <2>5, GoOn
<1>9. CASE InstallBookmark(p)
  <2> DEFINE r == [op[p] EXCEPT !.pc = "unlock"]
  <2>1. op' = [op EXCEPT ![p] = r] /\ op'[p] = r
    BY <1>1, <1>9 DEF InstallBookmark, TypeOK
  <2>2. /\ r.pc = "unlock"
        /\ r.kind = op[p].kind
        /\ r.id = op[p].id
        /\ r.snap = op[p].snap
        /\ r.base = op[p].base
        /\ r.stale = op[p].stale
    BY <1>1 DEF Commands
  <2> HIDE DEF r
  <2>3. UNCHANGED core
    BY <1>9 DEF InstallBookmark, core, trees, store, Within
  <2>4. Holds(p)
    BY <1>9 DEF InstallBookmark, At, Holds
  <2>5. op[p].kind \in {"migrate", "rollback"}
    BY <1>1 DEF Commands
  <2>6. Phase(p)'
    BY <1>2, <1>9, <2>1, <2>2, <2>3, <2>5 DEF InstallBookmark, At, CommandInv,
       Phase, Forward, Backward, core
  <2>7. Numbered(p)' /\ Imported(p)'
    BY <1>2, <1>9, <2>1, <2>2, <2>3 DEF InstallBookmark, At, CommandInv,
       Numbered, Imported, core
  <2>8. Ready(p)'
    BY <1>2, <1>9, <2>1, <2>2, <2>3, <2>5 DEF InstallBookmark, At, CommandInv,
       Ready, core
  <2>9. CommandInv(p)'
    BY <2>6, <2>7, <2>8 DEF CommandInv
  <2> QED
    BY <1>1, <2>1, <2>3, <2>4, <2>9, GoOn
<1>10. CASE BeginRollbackRepair(p)
  <2> DEFINE r == [op[p] EXCEPT !.pc = "unmark", !.base = op[p].asked,
                   !.id = marker.rollback]
  <2>1. op' = [op EXCEPT ![p] = r] /\ op'[p] = r
    BY <1>1, <1>10 DEF BeginRollbackRepair, TypeOK
  <2>2. /\ r.pc = "unmark"
        /\ r.kind = op[p].kind
        /\ r.id = marker.rollback
        /\ r.snap = op[p].snap
        /\ r.base = op[p].asked
        /\ r.stale = op[p].stale
    BY <1>1 DEF Commands
  <2> HIDE DEF r
  <2>3. UNCHANGED core
    BY <1>10 DEF BeginRollbackRepair, core, trees, store, Within
  <2>4. Holds(p)
    BY <1>10 DEF BeginRollbackRepair, At, Holds
  <2>5. op[p].kind \in {"migrate", "rollback"}
    BY <1>1 DEF Commands
  <2>6. Phase(p)'
    BY <1>2, <1>10, <2>1, <2>2, <2>3, <2>5 DEF BeginRollbackRepair, At,
       CommandInv, Phase, Forward, Backward, core
  <2>7. Numbered(p)' /\ Imported(p)'
    BY <1>2, <1>10, <2>1, <2>2, <2>3 DEF BeginRollbackRepair, At, CommandInv,
       Numbered, Imported, core
  <2>8. Ready(p)'
    BY <1>2, <1>10, <2>1, <2>2, <2>3, <2>5 DEF BeginRollbackRepair, At,
       CommandInv, Ready, core, At
  <2>9. CommandInv(p)'
    BY <2>6, <2>7, <2>8 DEF CommandInv
  <2> QED
    BY <1>1, <2>1, <2>3, <2>4, <2>9, GoOn
<1>11. CASE RemoveBookmark(p)
  <2> DEFINE r == [op[p] EXCEPT !.pc = "withdraw"]
  <2>1. op' = [op EXCEPT ![p] = r] /\ op'[p] = r
    BY <1>1, <1>11 DEF RemoveBookmark, TypeOK
  <2>2. /\ r.pc = "withdraw"
        /\ r.kind = op[p].kind
        /\ r.id = op[p].id
        /\ r.snap = op[p].snap
        /\ r.base = op[p].base
        /\ r.stale = op[p].stale
    BY <1>1 DEF Commands
  <2> HIDE DEF r
  <2>3. UNCHANGED core
    BY <1>11 DEF RemoveBookmark, core, trees, store, Within
  <2>4. Holds(p)
    BY <1>11 DEF RemoveBookmark, At, Holds
  <2>5. op[p].kind \in {"migrate", "rollback"}
    BY <1>1 DEF Commands
  <2>6. Phase(p)'
    BY <1>2, <1>11, <2>1, <2>2, <2>3, <2>5 DEF RemoveBookmark, At, CommandInv,
       Phase, Forward, Backward, core
  <2>7. Numbered(p)' /\ Imported(p)'
    BY <1>2, <1>11, <2>1, <2>2, <2>3 DEF RemoveBookmark, At, CommandInv,
       Numbered, Imported, core
  <2>8. Ready(p)'
    BY <1>2, <1>11, <2>1, <2>2, <2>3, <2>5 DEF RemoveBookmark, At, CommandInv,
       Ready, core
  <2>9. CommandInv(p)'
    BY <2>6, <2>7, <2>8 DEF CommandInv
  <2> QED
    BY <1>1, <2>1, <2>3, <2>4, <2>9, GoOn
<1>12. CASE LeaveCandidate(p)
  <2> DEFINE r == [op[p] EXCEPT !.pc = "unlock"]
  <2>1. op' = [op EXCEPT ![p] = r] /\ op'[p] = r
    BY <1>1, <1>12 DEF LeaveCandidate, TypeOK
  <2>2. /\ r.pc = "unlock"
        /\ r.kind = op[p].kind
        /\ r.id = op[p].id
        /\ r.snap = op[p].snap
        /\ r.base = op[p].base
        /\ r.stale = op[p].stale
    BY <1>1 DEF Commands
  <2> HIDE DEF r
  <2>3. UNCHANGED core
    BY <1>12 DEF LeaveCandidate, core, trees, store, Within
  <2>4. Holds(p)
    BY <1>12 DEF LeaveCandidate, At, Holds
  <2>5. op[p].kind \in {"migrate", "rollback"}
    BY <1>1 DEF Commands
  <2>6. Phase(p)'
    BY <1>2, <1>12, <2>1, <2>2, <2>3, <2>5 DEF LeaveCandidate, At, CommandInv,
       Phase, Forward, Backward, core
  <2>7. Numbered(p)' /\ Imported(p)'
    BY <1>2, <1>12, <2>1, <2>2, <2>3 DEF LeaveCandidate, At, CommandInv,
       Numbered, Imported, core
  <2>8. Ready(p)'
    BY <1>2, <1>12, <2>1, <2>2, <2>3, <2>5 DEF LeaveCandidate, At, CommandInv,
       Ready, core
  <2>9. CommandInv(p)'
    BY <2>6, <2>7, <2>8 DEF CommandInv
  <2> QED
    BY <1>1, <2>1, <2>3, <2>4, <2>9, GoOn
<1>13. CASE Unlock(p)
  <2>1. UNCHANGED core /\ op[p].pc = "unlock"
    BY <1>13 DEF Unlock, core, trees, store
  <2>2. CASE End(p, "ok")
    BY <2>1, <2>2, EndStep
  <2>3. CASE op' = [op EXCEPT ![p].pc = "purge"] /\ op[p].kind = "migrate"
    <3> DEFINE r == [op[p] EXCEPT !.pc = "purge"]
    <3>1. op' = [op EXCEPT ![p] = r] /\ op'[p] = r
      BY <1>1, <2>3 DEF TypeOK
    <3>2. r.pc = "purge" /\ r.kind = "migrate"
      BY <1>1, <2>3 DEF Commands
    <3> HIDE DEF r
    <3>3. CommandInv(p)'
      BY <3>1, <3>2 DEF CommandInv, Phase, Numbered, Imported, Ready, Forward,
         Backward
    <3>4. Holds(p)
      BY <2>1 DEF Holds
    <3> QED
      BY <1>1, <2>1, <3>1, <3>3, <3>4, GoOn
  <2> QED
    BY <1>13, <2>2, <2>3 DEF Unlock, At
<1>14. CASE Purge(p)
  <2> DEFINE r == [op[p] EXCEPT !.inside = TRUE]
  <2>1. op' = [op EXCEPT ![p] = r] /\ op'[p] = r
    BY <1>1, <1>14 DEF Purge, TypeOK
  <2>2. r.pc = "purge" /\ r.kind = op[p].kind /\ r.stale = op[p].stale
    BY <1>1, <1>14 DEF Purge, Commands
  <2>3. UNCHANGED core
    BY <1>14 DEF Purge, core, trees, store
  <2> HIDE DEF r
  <2>4. CommandInv(p)'
    BY <1>2, <1>14, <2>1, <2>2 DEF Purge, CommandInv, Phase, Numbered,
       Imported, Ready, Forward, Backward
  <2>5. ~Holds(p)'
    BY <2>1, <2>2 DEF Holds
  <2> QED
    BY <1>1, <2>1, <2>3, <2>4, <2>5, GoOn
<1>15. CASE PurgeDone(p)
  <2>1. op'[p] = Idle /\ \A q \in Procs \ {p} : op'[q] \in {op[q], Idle}
    BY <1>15 DEF PurgeDone
  <2>2. CommandInv(p)'
    BY <2>1, IdleInv
  <2>3. ~Holds(p)'
    BY <2>1 DEF Holds, Idle
  <2>4. UNCHANGED core
    BY <1>15 DEF PurgeDone, core, store
  <2> QED
    BY <2>1, <2>2, <2>3, <2>4, CoreKept, OneSteps
<1> QED
  BY <1>3, <1>5, <1>6, <1>7, <1>8, <1>9, <1>10, <1>11, <1>12, <1>13, <1>14,
     <1>15, <1>17, <1>18

LEMMA NotNone == \A g \in Generations : g # NoGeneration
<1> SUFFICES ASSUME NEW g \in Generations, g = NoGeneration PROVE FALSE
  OBVIOUS
<1>1. "mail" \in DOMAIN g
  BY DEF Generations
<1>2. "mail" \notin DOMAIN NoGeneration
  BY DEF NoGeneration
<1> QED
  BY <1>1, <1>2

\* The step that moves the authority: the tree it moves to was proven.
LEMMA FlipStep ==
  ASSUME CutoverInv, NEW p \in Procs, MayFlip(p), layout' = Desired(p),
         UNCHANGED <<local, central, records, lastId>>
  PROVE  AuthorityWhole' /\ Numbering'
<1>1. Ready(p) /\ op[p] \in Commands /\ op[p].pc = "flip"
    /\ Source(p) = op[p].snap
      /\ Phase(p) /\ Proven(p)
  BY MailType DEF CutoverInv, CommandInv, MayFlip, Ready
<1>2. Numbering'
  BY DEF CutoverInv, Numbering
<1>3. CASE op[p].kind = "migrate"
  <2>1. Verified(central) /\ layout' = "central"
    BY <1>1, <1>3 DEF Proven, Pristine, Desired
  <2>2. AuthorityWhole'
    BY <2>1 DEF AuthorityWhole, Verified
  <2> QED
    BY <1>2, <2>1, <2>2
<1>4. CASE op[p].kind = "rollback"
  <2>1. layout' = "local" /\ local.parts = Parts
    BY <1>1, <1>4 DEF Desired, Ready
  <2>2. AuthorityWhole'
    BY <2>1 DEF AuthorityWhole, Whole, Parts
  <2> QED
    BY <1>2, <2>2
<1> QED
  BY <1>1, <1>3, <1>4 DEF Commands

\* Steps that write the registry, the generation, its record or a tree.
LEMMA StoreSteps ==
  ASSUME MigrationAssumption, CutoverInv, TypeOK', NEW p \in Procs,
         \/ ImportRecord(p) \/ Rebind(p) \/ WriteRecord(p) \/ Shelve(p)
         \/ PublishCentral(p) \/ Flip(p) \/ FlipErrs(p) \/ Withdraw(p)
         \/ Retire(p) \/ Install(p)
  PROVE  CutoverInv'
<1>1. /\ TypeOK /\ op[p] \in Commands /\ AuthorityWhole /\ Numbering
      /\ central # NoGeneration => central \in Generations
  BY MailType DEF CutoverInv, Numbering
<1>2. CommandInv(p)
  BY DEF CutoverInv
<1>3. op[p].kind \in {"migrate", "rollback"}
  BY <1>1 DEF Commands
<1>4. ASSUME NEW pc \in Steps, op' = [op EXCEPT ![p].pc = pc]
      PROVE  /\ \A q \in Procs \ {p} : op'[q] = op[q]
             /\ op'[p].pc = pc /\ op'[p].kind = op[p].kind
                  /\ op'[p].id = op[p].id
             /\ op'[p].snap = op[p].snap /\ op'[p].stale = op[p].stale
  BY <1>1, <1>4 DEF TypeOK, Commands
<1>5. CASE ImportRecord(p)
  <2>1. /\ records' = With(records, central.op,
                           [kind |-> "migrate", mail |-> NoMail, source |-> 0])
        /\ UNCHANGED <<layout, local, central, lastId>>
        /\ op' = [op EXCEPT ![p].pc = "rebind"] /\ Holds(p)
        /\ central # NoGeneration /\ central.legacy
    BY <1>5 DEF ImportRecord, trees, NeedsImport, Holds
  <2>2. central.op \in DOMAIN records' /\ records'[central.op].kind = "migrate"
    BY <2>1 DEF With
  <2>3. AuthorityWhole' /\ Numbering'
    BY <1>1, <2>1 DEF AuthorityWhole, Whole, Numbering
  <2>4. op'[p].pc = "rebind" /\ op'[p].kind = op[p].kind
      /\ op'[p].stale = op[p].stale
        /\ \A q \in Procs \ {p} : op'[q] = op[q]
    BY <1>4, <2>1 DEF Steps
  <2>5. CommandInv(p)'
    BY <1>2, <2>1, <2>2, <2>4 DEF CommandInv, Phase, Numbered, Imported, Ready,
       Forward, Backward
  <2> QED
    BY <2>1, <2>3, <2>4, <2>5, OneSteps
<1>6. CASE Rebind(p)
  <2>1. /\ central # NoGeneration /\ central \in Generations
        /\ central.op \in DOMAIN records
             /\ records[central.op].kind = "migrate"
        /\ central' = [central EXCEPT !.legacy = FALSE]
        /\ UNCHANGED <<layout, local, records, lastId>>
        /\ op' = [op EXCEPT ![p].pc = "begin"] /\ Holds(p)
    BY <1>1, <1>2, <1>6 DEF Rebind, store, CommandInv, Imported, Holds
  <2>2. central' \in Generations /\ central'.op = central.op
      /\ ~central'.legacy
    BY <2>1 DEF Generations
  <2>3. central' # NoGeneration
    BY <2>2, NotNone
  <2>4. AuthorityWhole' /\ Numbering'
    BY <1>1, <2>1, <2>2, <2>3 DEF AuthorityWhole, Whole, Verified, Numbering
  <2>5. op'[p].pc = "begin" /\ op'[p].kind = op[p].kind
      /\ op'[p].stale = op[p].stale
        /\ \A q \in Procs \ {p} : op'[q] = op[q]
    BY <1>4, <2>1 DEF Steps
  <2>6. CommandInv(p)'
    BY <1>2, <2>5 DEF CommandInv, Phase, Numbered, Imported, Ready, Forward,
       Backward
  <2> QED
    BY <2>1, <2>4, <2>5, <2>6, OneSteps
<1>7. CASE WriteRecord(p)
  <2>1. PICK pc \in {"shelve", "stage"} :
          op' = [op EXCEPT ![p].pc = pc] /\ (pc = "shelve" <=> op[p].stale)
    BY <1>7 DEF WriteRecord
  <2>2. /\ records'
             = With(records, op[p].id,
                    [kind |-> op[p].kind, mail |-> op[p].snap,
                                                source |-> op[p].base])
        /\ UNCHANGED <<layout, local, central, lastId>>
        /\ op[p].pc = "record" /\ Holds(p)
    BY <1>7 DEF WriteRecord, trees, Holds
  <2>3. central # NoGeneration =>
          central.op \in Nat /\ op[p].id \in Nat /\ central.op < op[p].id
    BY <1>1, <1>2, <2>2 DEF CommandInv, Numbered, Commands, Generations, Ids
  <2>4. Verified(central) => Verified(central)'
    BY <2>2, <2>3 DEF Verified, With
  <2>5. AuthorityWhole' /\ Numbering'
    BY <1>1, <2>2, <2>4 DEF AuthorityWhole, Whole, Numbering
  <2>6. op'[p].pc = pc /\ op'[p].kind = op[p].kind
      /\ op'[p].stale = op[p].stale
        /\ op'[p].id = op[p].id /\ \A q \in Procs \ {p} : op'[q] = op[q]
    BY <1>4, <2>1 DEF Steps
  <2>7. CommandInv(p)'
    BY <1>2, <1>3, <2>1, <2>2, <2>6 DEF CommandInv, Phase, Numbered, Imported,
       Ready, Forward, Backward
  <2> QED
    BY <2>2, <2>5, <2>6, <2>7, OneSteps
<1>8. CASE Shelve(p)
  <2>1. /\ central' = NoGeneration
             /\ UNCHANGED <<layout, local, records, lastId>>
        /\ op' = [op EXCEPT ![p].pc = "stage"]
        /\ op[p].pc = "shelve" /\ Holds(p)
    BY <1>8 DEF Shelve, SetAside, Holds
  <2>2. layout = "local" /\ op[p].kind = "migrate"
    BY <1>2, <1>3, <2>1 DEF CommandInv, Phase, Forward
  <2>3. AuthorityWhole' /\ Numbering'
    BY <1>1, <2>1, <2>2 DEF AuthorityWhole, Whole, Numbering
  <2>4. op'[p].pc = "stage" /\ op'[p].kind = op[p].kind
      /\ op'[p].stale = op[p].stale
        /\ op'[p].id = op[p].id /\ \A q \in Procs \ {p} : op'[q] = op[q]
    BY <1>4, <2>1 DEF Steps
  <2>5. CommandInv(p)'
    BY <1>2, <2>1, <2>2, <2>4 DEF CommandInv, Phase, Numbered, Imported, Ready,
       Forward, Backward
  <2> QED
    BY <2>1, <2>3, <2>4, <2>5, OneSteps
<1>9. CASE PublishCentral(p)
  <2> DEFINE r == [op[p] EXCEPT !.base = op[p].id, !.pc = "prove"]
  <2>1. op' = [op EXCEPT ![p] = r] /\ op'[p] = r
        /\ \A q \in Procs \ {p} : op'[q] = op[q]
    BY <1>1, <1>9 DEF PublishCentral, TypeOK
  <2>2. r.pc = "prove" /\ r.kind = op[p].kind
    BY <1>1 DEF Commands
  <2> HIDE DEF r
  <2>3. /\ central' = [op |-> op[p].id, mail |-> op[p].copy, legacy |-> FALSE]
        /\ UNCHANGED <<layout, local, records, lastId>>
        /\ op[p].pc = "publish" /\ Holds(p)
    BY <1>9 DEF PublishCentral, store, Holds
  <2>4. layout = "local" /\ op[p].kind = "migrate" /\ op[p].id <= lastId
    BY <1>2, <1>3, <2>3 DEF CommandInv, Phase, Numbered, Forward
  <2>5. AuthorityWhole' /\ Numbering'
    BY <1>1, <2>3, <2>4 DEF AuthorityWhole, Whole, Numbering
  <2>6. CommandInv(p)'
    BY <2>1, <2>2, <2>3, <2>4 DEF CommandInv, Phase, Numbered, Imported, Ready,
       Forward, Backward
  <2> QED
    BY <2>1, <2>3, <2>5, <2>6, OneSteps
<1>10. CASE Flip(p)
  <2>1. PICK pc \in {"recheck", "unmark"} :
          /\ op' = [op EXCEPT ![p].pc = pc, ![p].trusted = TRUE]
          /\ pc = "recheck" <=> op[p].kind = "migrate"
    BY <1>10 DEF Flip
  <2> DEFINE r == [op[p] EXCEPT !.pc = pc, !.trusted = TRUE]
  <2>2. op'[p] = r /\ \A q \in Procs \ {p} : op'[q] = op[q]
    BY <1>1, <2>1 DEF TypeOK
  <2>3. r.pc = pc /\ r.kind = op[p].kind /\ r.stale = op[p].stale
    BY <1>1 DEF Commands
  <2> HIDE DEF r
  <2>4. /\ MayFlip(p) /\ layout' = Desired(p) /\ Holds(p)
        /\ UNCHANGED <<local, central, records, lastId>>
    BY <1>10 DEF Flip, MayFlip, trees, store, Holds
  <2>5. AuthorityWhole' /\ Numbering'
    BY <2>4, FlipStep
  <2>6. CommandInv(p)'
    BY <1>2, <1>3, <2>1, <2>2, <2>3, <2>4 DEF Desired, CommandInv, Phase,
       Numbered, Imported, Ready, Forward, Backward
  <2> QED
    BY <2>2, <2>4, <2>5, <2>6, OneSteps
<1>11. CASE FlipErrs(p)
  <2>1. op'[p] = Idle /\ \A q \in Procs \ {p} : op'[q] = op[q]
    BY <1>1, <1>11 DEF FlipErrs, End, TypeOK
  <2>2. UNCHANGED <<local, central, records, lastId>> /\ Holds(p)
    BY <1>11 DEF FlipErrs, trees, store, Holds
  <2>3. layout' = layout \/ (MayFlip(p) /\ layout' = Desired(p))
    BY <1>11 DEF FlipErrs
  <2>4. AuthorityWhole' /\ Numbering'
    BY <2>2, <2>3, FlipStep, CoreKept DEF core
  <2>5. CommandInv(p)'
    BY <2>1, IdleInv
  <2> QED
    BY <2>1, <2>2, <2>4, <2>5, OneSteps
<1>12. CASE Withdraw(p)
  <2>1. /\ central' = NoGeneration
             /\ UNCHANGED <<layout, local, records, lastId>>
        /\ op' = [op EXCEPT ![p].pc = "unlock"]
        /\ op[p].pc = "withdraw" /\ Holds(p)
    BY <1>12 DEF Withdraw, SetAside, Holds
  <2>2. layout = "local" /\ op[p].kind = "rollback"
    BY <1>2, <1>3, <2>1 DEF CommandInv, Phase
  <2>3. AuthorityWhole' /\ Numbering'
    BY <1>1, <2>1, <2>2 DEF AuthorityWhole, Whole, Numbering
  <2>4. op'[p].pc = "unlock" /\ op'[p].kind = op[p].kind
      /\ op'[p].stale = op[p].stale
        /\ \A q \in Procs \ {p} : op'[q] = op[q]
    BY <1>4, <2>1 DEF Steps
  <2>5. CommandInv(p)'
    BY <1>2, <2>1, <2>2, <2>4 DEF CommandInv, Phase, Numbered, Imported, Ready,
       Forward, Backward
  <2> QED
    BY <2>1, <2>3, <2>4, <2>5, OneSteps
<1>13. CASE Retire(p) \/ Install(p)
  <2>1. /\ UNCHANGED <<layout, central, records, lastId>>
        /\ op[p].pc \in {"retire", "install"} /\ Holds(p) /\ PartDone(p)
    BY <1>13 DEF Retire, Install, store, Holds
  <2>2. layout = "central"
    BY <1>2, <1>3, <2>1 DEF CommandInv, Phase, Backward
  <2>3. AuthorityWhole' /\ Numbering'
    BY <1>1, <2>1, <2>2 DEF AuthorityWhole, Verified, Numbering
  <2> DEFINE r == [op[p] EXCEPT !.left = @ \ {NextPart(p)}]
  <2>4. op'[p] = r /\ \A q \in Procs \ {p} : op'[q] = op[q]
    BY <1>1, <2>1 DEF PartDone, TypeOK
  <2>5. r.pc = op[p].pc /\ r.kind = op[p].kind /\ r.id = op[p].id
      /\ r.stale = op[p].stale /\ r.left = op[p].left \ {NextPart(p)}
    BY <1>1 DEF Commands
  <2> HIDE DEF r
  <2>6. op[p].pc = "install" =>
          local'.parts = local.parts \cup {NextPart(p)}
    BY <1>13 DEF Retire, Install
  <2>7. CommandInv(p)'
    BY <1>2, <2>1, <2>4, <2>5, <2>6 DEF CommandInv, Phase, Numbered, Imported,
       Ready
  <2> QED
    BY <2>1, <2>3, <2>4, <2>7, OneSteps
<1> QED
  BY <1>5, <1>6, <1>7, <1>8, <1>9, <1>10, <1>11, <1>12, <1>13

\* The two steps that open a transaction, with a new id.
LEMMA BeginSteps ==
  ASSUME MigrationAssumption, CutoverInv, TypeOK', NEW p \in Procs,
         BeginForward(p) \/ BeginRollback(p)
  PROVE  CutoverInv'
<1>1. /\ TypeOK /\ op[p] \in Commands /\ AuthorityWhole /\ Numbering
      /\ central # NoGeneration
           => central \in Generations /\ central.op \in Nat
      /\ lastId \in Nat
  BY MailType DEF CutoverInv, Numbering, TypeOK, Ids, MigrationAssumption
<1>2. CommandInv(p)
  BY DEF CutoverInv
<1>3. Holds(p) /\ lastId' = lastId + 1
    /\ UNCHANGED <<layout, central, records>>
  BY DEF BeginForward, BeginRollback, At, Holds, trees, store
<1>4. AuthorityWhole' /\ Numbering'
  <2>1. Numbering'
    BY <1>1, <1>3 DEF Numbering
  <2>2. AuthorityWhole'
    BY <1>1, <1>3 DEF BeginForward, BeginRollback, At, AuthorityWhole, Whole,
       Parts, Verified, trees, Trees, TypeOK
  <2> QED
    BY <2>1, <2>2
<1>5. ASSUME NEW pc \in {"prove", "backup"}, NEW snap, NEW base, NEW stale,
             op' = [op EXCEPT ![p].id = lastId + 1, ![p].snap = snap,
                    ![p].base = base,
                              ![p].stale = stale, ![p].pc = pc],
             \/ op[p].kind = "migrate" /\ layout = "local"
             \/ op[p].kind = "rollback" /\ layout = "central" /\ ~stale
                  /\ pc = "backup"
      PROVE  CutoverInv'
  <2> DEFINE r == [op[p] EXCEPT !.id = lastId + 1, !.snap = snap,
                   !.base = base,
                                !.stale = stale, !.pc = pc]
  <2>1. op'[p] = r /\ \A q \in Procs \ {p} : op'[q] = op[q]
    BY <1>1, <1>5 DEF TypeOK
  <2>2. r.pc = pc /\ r.kind = op[p].kind /\ r.id = lastId + 1
      /\ r.stale = stale
    BY <1>1 DEF Commands
  <2> HIDE DEF r
  <2>3. Phase(p)'
    BY <1>3, <1>5, <2>1, <2>2 DEF Phase, Forward, Backward
  <2>4. Numbered(p)'
    BY <1>1, <1>3, <2>1, <2>2 DEF Numbered, Numbering
  <2>5. Imported(p)' /\ Ready(p)'
    BY <1>5, <2>1, <2>2 DEF Imported, Ready
  <2>6. CommandInv(p)'
    BY <2>3, <2>4, <2>5 DEF CommandInv
  <2> QED
    BY <1>3, <1>4, <2>1, <2>6, OneSteps
<1>6. CASE BeginForward(p)
  <2> DEFINE reusable == /\ central # NoGeneration
                         /\ records[central.op].mail = local.mail
  <2>1. /\ op' = [op EXCEPT ![p].id = lastId + 1, ![p].snap = local.mail,
                            ![p].base = IF central
                              = NoGeneration THEN 0 ELSE central.op,
                            ![p].stale = central # NoGeneration /\ ~reusable,
                            ![p].pc = IF reusable THEN "prove" ELSE "backup"]
        /\ op[p].kind = "migrate" /\ layout = "local"
    BY <1>6 DEF BeginForward, At
  <2>2. (IF reusable THEN "prove" ELSE "backup") \in {"prove", "backup"}
    OBVIOUS
  <2> HIDE DEF reusable
  <2> QED
    BY <1>5, <2>1, <2>2
<1>7. CASE BeginRollback(p)
  <2> DEFINE r == [op[p] EXCEPT !.id = lastId + 1, !.snap = central.mail,
                      !.base = central.op, !.pc = "backup"]
  <2>1. op'[p] = r /\ \A q \in Procs \ {p} : op'[q] = op[q]
    BY <1>1, <1>7 DEF BeginRollback, TypeOK
  <2>2. r.pc = "backup" /\ r.kind = op[p].kind /\ r.id = lastId + 1
        /\ r.stale = op[p].stale
    BY <1>1 DEF Commands
  <2> HIDE DEF r
  <2>3. op[p].kind = "rollback" /\ layout = "central"
    BY <1>7 DEF BeginRollback, At
  <2>4. CommandInv(p)'
    BY <1>1, <1>2, <1>3, <2>1, <2>2, <2>3 DEF CommandInv, Phase, Numbered,
       Imported, Ready, Forward, Backward, Numbering
  <2> QED
    BY <1>3, <1>4, <2>1, <2>4, OneSteps
<1> QED
  BY <1>6, <1>7

\* A hand waits for no lock.  What it adds to the local tree disturbs no
\* command: before a migration flips, the local tree is the mailbox.
LEMMA HandInv ==
  ASSUME CutoverInv, NEW m \in Strays, WriteByHand(m), NEW p \in Procs
  PROVE  CommandInv(p)'
<1>1. /\ UNCHANGED <<layout, central, records, lastId, op>>
      /\ layout = "central" /\ local.mail[m] = "absent"
      /\ local'.parts = local.parts \cup {"inbox"}
      /\ local'.mail = [local.mail EXCEPT ![m] = "new"]
  BY DEF WriteByHand, store
<1>2. CommandInv(p) /\ op[p] \in Commands /\ local.mail \in Contents
  BY MailType DEF CutoverInv
<1>3. Phase(p)' /\ Numbered(p)' /\ Imported(p)'
  BY <1>1, <1>2 DEF CommandInv, Phase, Numbered, Imported
<1>4. op[p].pc = "flip" => Proven(p)'
  <2> SUFFICES ASSUME op[p].pc = "flip" PROVE Proven(p)'
    OBVIOUS
  <2>1. op[p].kind = "rollback" /\ Proven(p)
    BY <1>1, <1>2 DEF CommandInv, Phase, Ready, Forward, Commands
  <2> QED
    BY <1>1, <2>1 DEF Proven
<1>5. op[p].kind = "rollback" /\ op[p].pc \in {"mark", "prove", "flip"} =>
        local'.parts = Parts
  BY <1>1, <1>2 DEF CommandInv, Ready, Parts, MailParts
<1>6. op[p].kind = "rollback" /\ op[p].pc = "install" =>
        Parts \subseteq local'.parts \cup op[p].left
  BY <1>1, <1>2 DEF CommandInv, Ready
<1>7. Grown(p) => Grown(p)'
  BY <1>1, <1>2 DEF Grown, Contents
<1>8. Ready(p)'
  BY <1>1, <1>2, <1>4, <1>5, <1>6, <1>7 DEF CommandInv, Ready
<1> QED
  BY <1>3, <1>8 DEF CommandInv

\* Mail tools wait for the lock, so no command is disturbed.
LEMMA MailInv ==
  ASSUME MigrationAssumption, CutoverInv, TypeOK',
         \/ \E m \in Mail : Deliver(m) \/ Read(m)
         \/ \E m \in Strays : WriteByHand(m)
         \/ DiscardArchive
  PROVE  CutoverInv'
<1>1. /\ TypeOK /\ AuthorityWhole /\ Numbering /\ local \in Trees
      /\ central # NoGeneration => central \in Generations
  BY MailType DEF CutoverInv, Numbering
<1>2. UNCHANGED <<layout, records, op, lastId>>
  BY DEF Deliver, Read, InAuthority, WriteByHand, DiscardArchive, store
<1>3. ASSUME Unlocked PROVE \A p \in Procs : CommandInv(p)'
  BY <1>2, <1>3, Undisturbed DEF CutoverInv, Unlocked
<1>4. Exclusive'
  BY <1>2 DEF CutoverInv, Exclusive, Holds
<1>5. ASSUME NEW m, NEW from, NEW to, InAuthority(m, from, to)
      PROVE  CutoverInv'
  <2>1. CASE layout = "local"
    <3>1. local'.parts = local.parts /\ central' = central
      BY <1>1, <1>5, <2>1 DEF InAuthority, Trees
    <3>2. AuthorityWhole' /\ Numbering'
      BY <1>1, <1>2, <2>1, <3>1 DEF AuthorityWhole, Whole, Numbering
    <3> QED
      BY <1>3, <1>4, <1>5, <3>2 DEF CutoverInv, Numbering, InAuthority
  <2>2. CASE layout # "local"
    <3>1. central \in Generations /\ central' = [central EXCEPT !.mail[m] = to]
      BY <1>1, <1>5, <2>2 DEF InAuthority, AuthorityWhole
    <3>2. central'.op = central.op /\ central'.legacy = central.legacy
          /\ "mail" \in DOMAIN central'
      BY <3>1 DEF Generations
    <3>3. central' # NoGeneration /\ central # NoGeneration
      BY <3>1, <3>2, NotNone DEF NoGeneration
    <3>4. AuthorityWhole' /\ Numbering'
      BY <1>1, <1>2, <2>2, <3>2, <3>3 DEF AuthorityWhole, Verified, Numbering
    <3> QED
      BY <1>3, <1>4, <1>5, <3>4 DEF CutoverInv, Numbering, InAuthority
  <2> QED
    BY <2>1, <2>2
<1>6. ASSUME NEW m \in Strays, WriteByHand(m) PROVE CutoverInv'
  <2>1. AuthorityWhole' /\ Numbering'
    BY <1>1, <1>6 DEF WriteByHand, AuthorityWhole, Verified, Numbering, store
  <2>2. \A p \in Procs : CommandInv(p)'
    BY <1>6, HandInv
  <2> QED
    BY <1>4, <2>1, <2>2 DEF CutoverInv, Numbering
<1>7. ASSUME DiscardArchive PROVE CutoverInv'
  <2>1. AuthorityWhole' /\ Numbering' /\ Unlocked
    BY <1>1, <1>7 DEF DiscardArchive, AuthorityWhole, Whole, Verified,
       Numbering, trees
  <2> QED
    BY <1>3, <1>4, <2>1 DEF CutoverInv, Numbering
<1> QED
  BY <1>5, <1>6, <1>7 DEF Deliver, Read

LEMMA InvStep == MigrationAssumption /\ CutoverInv /\ [Next]_vars
                 => CutoverInv'
<1> SUFFICES ASSUME MigrationAssumption, CutoverInv,
                    [Next]_vars PROVE CutoverInv'
  OBVIOUS
<1>1. TypeOK'
  BY TypeStep DEF CutoverInv
<1>2. CASE UNCHANGED vars
  <2>1. UNCHANGED core /\ op' = op
    BY <1>2 DEF vars, core, trees, store
  <2>2. \A p \in Procs : CommandInv(p)'
    BY <2>1, Undisturbed DEF CutoverInv
  <2>3. Exclusive'
    BY <2>1 DEF CutoverInv, Exclusive, Holds
  <2> QED
    BY <1>1, <2>1, <2>2, <2>3, CoreKept DEF CutoverInv, Numbering
<1>3. ASSUME NEW p \in Procs, Command(p) \/ Refuse(p) \/ Step(p) \/ Fault(p)
      PROVE  CutoverInv'
  BY <1>1, <1>3, EndSteps, ReadSteps, RepairSteps, StoreSteps, BeginSteps
     DEF Step, Fault
<1>4. CASE \/ \E m \in Mail : Deliver(m) \/ Read(m)
           \/ \E m \in Strays : WriteByHand(m)
           \/ DiscardArchive
  BY <1>1, <1>4, MailInv
<1> QED
  BY <1>2, <1>3, <1>4 DEF Next, Mail

-----------------------------------------------------------------------------
(* The theorems.                                                           *)

\* The inductive invariant: each command stands where the registry's layout
\* lets it, and only a command that has proven both trees equal may flip.
THEOREM Invariance == Spec => []CutoverInv
<1>1. Init => CutoverInv
  BY MigrationAssumption, InitInv
<1>2. CutoverInv /\ [Next]_vars => CutoverInv'
  BY MigrationAssumption, InvStep
<1> QED
  BY <1>1, <1>2, PTL DEF Spec

\* Trees, generations, records and commands keep their types, whatever is
\* interrupted and rerun.
THEOREM TypeCorrect == Spec => []TypeOK
<1>1. CutoverInv => TypeOK
  BY DEF CutoverInv
<1>2. Spec => []CutoverInv
  BY Invariance
<1> QED
  BY <1>1, <1>2, PTL

\* migrate_project and rollback_project may fail or be killed at any step,
\* and the registry still names a complete mailbox: a local tree with both
\* its directories, or a central generation with its recovery record.
THEOREM AuthoritySafe == Spec => []AuthorityWhole
<1>1. CutoverInv => AuthorityWhole
  BY DEF CutoverInv
<1>2. Spec => []CutoverInv
  BY Invariance
<1> QED
  BY <1>1, <1>2, PTL

-----------------------------------------------------------------------------
(* The refinement: what the users of the mailbox see.                      *)

seen == IF layout = "local" THEN local.mail ELSE central.mail

LEMMA SeenInit == Init => Mailbox!Init
BY DEF Init, Mailbox!Init, NoMail, NoTree

\* A mail tool does to the mailbox what the abstract one does.
LEMMA SeenMail ==
  ASSUME CutoverInv, NEW m \in Mail, NEW from, NEW to,
         InAuthority(m, from, to)
  PROVE  seen[m] = from /\ seen' = [seen EXCEPT ![m] = to]
<1>1. /\ local \in Trees
      /\ layout # "local" => central \in Generations
  BY MailType DEF CutoverInv, AuthorityWhole
<1>2. CASE layout = "local"
  BY <1>1, <1>2 DEF InAuthority, seen, Trees
<1>3. CASE layout # "local"
  BY <1>1, <1>3 DEF InAuthority, seen, Generations
<1> QED
  BY <1>2, <1>3

\* The flip, reported or not, changes to a tree with the same mail, and what
\* a hand has added to it meanwhile.
LEMMA SeenFlip ==
  ASSUME CutoverInv, NEW p \in Procs, Flip(p) \/ FlipErrs(p)
  PROVE  seen' = seen \/ \E arrived \in SUBSET Mail : Mailbox!Deliver(arrived)
<1>1. /\ layout' = layout \/ (MayFlip(p) /\ layout' = Desired(p))
      /\ UNCHANGED <<local, central>>
  BY DEF Flip, FlipErrs, trees
<1>2. layout' = layout => seen' = seen
  BY <1>1 DEF seen
<1>3. CASE MayFlip(p) /\ layout' = Desired(p)
  <2>1. /\ Proven(p) /\ Source(p) = op[p].snap /\ op[p].pc = "flip"
        /\ op[p].kind \in {"migrate", "rollback"} /\ Phase(p)
        /\ op[p].kind = "rollback" => Grown(p)
    BY <1>3, MailType DEF MayFlip, CutoverInv, CommandInv, Ready, Commands
  <2>2. CASE op[p].kind = "migrate"
    <3>1. layout = "local" /\ layout' = "central"
      BY <1>3, <2>1, <2>2 DEF Phase, Forward, Desired
    <3>2. local.mail = central.mail
      BY <2>1, <2>2 DEF Proven
    <3> QED
      BY <1>1, <3>1, <3>2 DEF seen
  <2>3. CASE op[p].kind = "rollback"
    <3> DEFINE arrived == {m \in Mail : local.mail[m] # central.mail[m]}
    <3>1. layout = "central" /\ layout' = "local"
        /\ central.mail = op[p].snap /\ Grown(p)
      <4>1. layout = "central" /\ layout' = "local" /\ Grown(p)
        BY <1>3, <2>1, <2>3 DEF Desired, Phase, Backward
      <4> QED
        BY <2>1, <2>3, <4>1 DEF Proven
    <3>2. \A m \in arrived :
            central.mail[m] = "absent" /\ local.mail[m] = "new"
      BY <3>1 DEF Grown
    <3>3. local.mail \in Contents
      BY MailType DEF CutoverInv
    <3>4. local.mail = [m \in Mail |-> IF m \in arrived THEN "new"
                                       ELSE central.mail[m]]
      BY <3>2, <3>3 DEF Contents
    <3> HIDE DEF arrived
    <3>5. Mailbox!Deliver(arrived)
      BY <1>1, <3>1, <3>2, <3>4 DEF Mailbox!Deliver
    <3>6. arrived \in SUBSET Mail
      BY DEF arrived
    <3> QED
      BY <3>5, <3>6
  <2> QED
    BY <2>1, <2>2, <2>3
<1> QED
  BY <1>1, <1>2, <1>3 DEF seen

\* A command that writes a tree writes the one the registry does not name.
LEMMA SeenWrite ==
  ASSUME CutoverInv, NEW p \in Procs,
         \/ Rebind(p) \/ BeginForward(p) \/ Shelve(p) \/ PublishCentral(p)
         \/ Retire(p) \/ Install(p) \/ Withdraw(p)
  PROVE  seen' = seen
<1>1. /\ TypeOK /\ op[p] \in Commands /\ Phase(p) /\ Imported(p)
      /\ local \in Trees /\ central # NoGeneration => central \in Generations
  BY MailType DEF CutoverInv, CommandInv
<1>2. CASE Rebind(p)
  BY <1>1, <1>2 DEF Rebind, Imported, Generations, seen
<1>3. CASE BeginForward(p)
  BY <1>1, <1>3 DEF BeginForward, Trees, seen
<1>4. CASE Shelve(p) \/ PublishCentral(p)
  <2>1. op[p].kind = "migrate" \/ op[p].kind = "rollback"
    BY <1>1 DEF Commands
  <2>2. op[p].pc \in {"shelve", "publish"}
    BY <1>4 DEF Shelve, PublishCentral
  <2>3. layout = "local"
    BY <1>1, <2>1, <2>2 DEF Phase, Forward
  <2> QED
    BY <1>4, <2>3 DEF Shelve, PublishCentral, seen
<1>5. CASE Retire(p) \/ Install(p)
  <2>1. op[p].kind = "migrate" \/ op[p].kind = "rollback"
    BY <1>1 DEF Commands
  <2>2. op[p].pc \in {"retire", "install"}
    BY <1>5 DEF Retire, Install
  <2>3. layout = "central"
    BY <1>1, <2>1, <2>2 DEF Phase, Backward
  <2> QED
    BY <1>5, <2>3 DEF Retire, Install, seen
<1>6. CASE Withdraw(p)
  <2>1. op[p].kind = "migrate" \/ op[p].kind = "rollback"
    BY <1>1 DEF Commands
  <2>2. layout = "local"
    BY <1>1, <1>6, <2>1 DEF Withdraw, Phase
  <2> QED
    BY <1>6, <2>2 DEF Withdraw, seen
<1> QED
  BY <1>2, <1>3, <1>4, <1>5, <1>6

\* All other steps of a command leave both trees and the layout alone.
LEMMA SeenQuiet ==
  ASSUME NEW p \in Procs,
         \/ Command(p) \/ Refuse(p) \/ Fail(p) \/ Kill(p)
         \/ ImportRecord(p) \/ ImportFails(p) \/ ForwardRefused(p)
         \/ CopyBackup(p) \/ SealBackup(p) \/ CopyRefused(p) \/ WriteRecord(p)
         \/ Stage(p) \/ Prove(p) \/ BeginRepair(p) \/ Cleanup(p)
         \/ Recheck(p) \/ RecheckFails(p) \/ Assess(p) \/ InstallRefused(p)
         \/ CleanupResumes(p) \/ RetireLost(p) \/ RetireDone(p)
         \/ InstallBookmark(p) \/ Unlock(p) \/ Purge(p) \/ PurgeDone(p)
         \/ BeginRollback(p) \/ RollbackRefused(p) \/ Displace(p)
         \/ NothingInTheWay(p) \/ WriteMarker(p) \/ VerifyInstalled(p)
         \/ BeginRollbackRepair(p) \/ RemoveBookmark(p) \/ LeaveCandidate(p)
  PROVE  seen' = seen
<1>1. UNCHANGED <<layout, local, central>>
  <2> USE DEF trees
  <2>1. CASE \/ Command(p) \/ Refuse(p) \/ Fail(p) \/ Kill(p)
                  \/ ImportRecord(p)
             \/ ImportFails(p) \/ ForwardRefused(p) \/ CopyRefused(p)
    BY <2>1 DEF Command, Start, Refuse, Refusal, Fail, Kill, ImportRecord,
       ImportFails, ForwardRefused, CopyRefused
  <2>2. CASE CopyBackup(p) \/ SealBackup(p) \/ WriteRecord(p) \/ Stage(p)
             \/ Prove(p) \/ Recheck(p) \/ RecheckFails(p) \/ Assess(p)
    BY <2>2 DEF CopyBackup, CopyInto, SealBackup, WriteRecord, Stage, Prove,
       Recheck, RecheckFails, Assess
  <2>3. CASE \/ BeginRepair(p) \/ Cleanup(p) \/ CleanupResumes(p)
                  \/ RetireLost(p)
             \/ RetireDone(p) \/ InstallBookmark(p) \/ Unlock(p) \/ Purge(p)
             \/ PurgeDone(p) \/ Displace(p)
    BY <2>3 DEF BeginRepair, Cleanup, MakeRetired, CleanupResumes, RetireLost,
       RetireDone, InstallBookmark, Unlock, Purge, PurgeDone, Displace
  <2>4. CASE \/ BeginRollback(p) \/ RollbackRefused(p) \/ NothingInTheWay(p)
             \/ WriteMarker(p) \/ VerifyInstalled(p) \/ BeginRollbackRepair(p)
             \/ RemoveBookmark(p) \/ LeaveCandidate(p) \/ InstallRefused(p)
    BY <2>4 DEF InstallRefused, BeginRollback, RollbackRefused, Refusal, NothingInTheWay,
       WriteMarker, VerifyInstalled, BeginRollbackRepair, RemoveBookmark,
       LeaveCandidate
  <2> QED
    BY <2>1, <2>2, <2>3, <2>4
<1> QED
  BY <1>1 DEF seen

LEMMA SeenStep == CutoverInv /\ [Next]_vars => Mailbox!Next \/ seen' = seen
<1> SUFFICES ASSUME CutoverInv, [Next]_vars PROVE Mailbox!Next \/ seen' = seen
  OBVIOUS
<1>1. CASE UNCHANGED vars
  BY <1>1 DEF vars, trees, seen
<1>2. ASSUME NEW m \in Mail, Deliver(m) \/ Read(m) PROVE Mailbox!Next
  <2>1. CASE Deliver(m)
    <3>1. seen[m] = "absent" /\ seen' = [seen EXCEPT ![m] = "new"]
      BY <2>1, SeenMail DEF Deliver
    <3>2. seen \in [Mail -> Marks]
      BY MailType DEF CutoverInv, AuthorityWhole, Contents, seen
    <3>3. seen' = [n \in Mail |-> IF n \in {m} THEN "new" ELSE seen[n]]
      BY <3>1, <3>2
    <3>4. Mailbox!Deliver({m})
      BY <3>1, <3>3 DEF seen, Mailbox!Deliver
    <3> QED
      BY <3>4 DEF Mailbox!Next
  <2>2. CASE Read(m)
    <3>1. seen[m] = "new" /\ seen' = [seen EXCEPT ![m] = "cur"]
      BY <2>2, SeenMail DEF Read
    <3> QED
      BY <3>1 DEF seen, Mailbox!Next, Mailbox!Read
  <2> QED
    BY <1>2, <2>1, <2>2
<1>3. ASSUME NEW m \in Strays, WriteByHand(m) PROVE seen' = seen
  BY <1>3 DEF WriteByHand, seen
<1>4. CASE DiscardArchive
  BY <1>4 DEF DiscardArchive, trees, seen
<1>5. ASSUME NEW p \in Procs, Command(p) \/ Refuse(p) \/ Step(p) \/ Fault(p)
      PROVE  Mailbox!Next \/ seen' = seen
  BY <1>5, SeenFlip, SeenWrite, SeenQuiet DEF Step, Fault, Mailbox!Next
<1> QED
  BY <1>1, <1>2, <1>3, <1>4, <1>5 DEF Next, Mail

\* Migration implements OneMailbox: to the mail tools the two trees are one
\* mailbox.  Whatever command, repair or rollback runs, and wherever it fails
\* or is killed, mail is delivered and then read, and never lost, repeated or
\* taken back.
THEOREM OneMailboxKept == Spec => ImplementsOneMailbox
<1>1. Init => Mailbox!Init
  BY SeenInit
<1>2. CutoverInv /\ [Next]_vars =>
        Mailbox!Next
          \/ UNCHANGED (IF layout = "local" THEN local.mail ELSE central.mail)
  BY SeenStep DEF seen
<1>3. Spec => []CutoverInv
  BY Invariance
<1> QED
  BY <1>1, <1>2, <1>3, PTL DEF Spec, ImplementsOneMailbox, Mailbox!Spec

-----------------------------------------------------------------------------
(* How commands end, and what they report.                                 *)

\* All that is in the local tree was written by hand during a command.
OnlyDuring ==
  \A m \in Mail : local.mail[m] # "absent" => <<m, "during">> \in stray

\* Mail is in the inbox.
Tidy == "inbox" \notin local.parts => local.mail = NoMail

\* A command that changed the layout is past the flip; one that gets on towards
\* its end has cleaned up what lies behind it.
EndInv(p) ==
  /\ flipped[p] => Committed(p) \/ op[p].pc = "purge"
  /\ op[p].kind = "migrate" =>
       /\ op[p].pc = "retire" =>
            /\ local.parts \subseteq op[p].left \cup {"inbox"}
            /\ "inbox" \notin op[p].left => OnlyDuring
       /\ op[p].pc \in {"bookmark", "unlock"} =>
            local.parts \subseteq {"inbox"} /\ OnlyDuring
       /\ op[p].pc = "unlock" => bookmark
  /\ op[p].kind = "rollback" =>
       /\ op[p].pc \in {"withdraw", "unlock"} => ~bookmark
       /\ op[p].pc = "unlock" => ~BoundTo(central, op[p].base)

Reports == flipped \in [Procs -> BOOLEAN] /\ DOMAIN verdict = Procs

DoneInv == CutoverInv /\ Reports /\ Tidy /\ \A p \in Procs : EndInv(p)

LEMMA IdleEnds ==
  ASSUME NEW p \in Procs, op'[p] = Idle, ~flipped'[p] PROVE EndInv(p)'
BY DEF Idle, EndInv

LEMMA EndReport ==
  ASSUME TypeOK, Reports, NEW p \in Procs, NEW report, End(p, report)
  PROVE  /\ op'[p] = Idle /\ ~flipped'[p] /\ verdict'[p] = report /\ Reports'
         /\ \A q \in Procs \ {p} :
              op'[q] = op[q] /\ flipped'[q] = flipped[q]
                /\ verdict'[q] = verdict[q]
BY DEF End, Reports, TypeOK

\* The actions by what they do to the command that takes them.
Ends(p) ==
  \/ Refuse(p) \/ ImportFails(p) \/ ForwardRefused(p) \/ CopyRefused(p)
  \/ RollbackRefused(p) \/ RetireLost(p) \/ RecheckFails(p)
  \/ InstallRefused(p) \/ Fail(p) \/ Kill(p) \/ FlipErrs(p)

Prepares(p) ==
  \/ Command(p) \/ ImportRecord(p) \/ Rebind(p) \/ BeginForward(p)
  \/ CopyBackup(p) \/ SealBackup(p) \/ WriteRecord(p) \/ Shelve(p) \/ Stage(p)
  \/ PublishCentral(p) \/ Prove(p) \/ BeginRepair(p) \/ BeginRollback(p)
  \/ Displace(p) \/ NothingInTheWay(p) \/ Install(p) \/ WriteMarker(p)
  \/ VerifyInstalled(p) \/ BeginRollbackRepair(p)

Finishes(p) ==
  \/ Flip(p) \/ Recheck(p) \/ Assess(p)
  \/ Cleanup(p) \/ CleanupResumes(p) \/ Retire(p) \/ RetireDone(p)
  \/ InstallBookmark(p) \/ Unlock(p) \/ Purge(p) \/ RemoveBookmark(p)
  \/ Withdraw(p) \/ LeaveCandidate(p)

LEMMA Kinds ==
  ASSUME NEW p \in Procs, Command(p) \/ Refuse(p) \/ Step(p) \/ Fault(p)
  PROVE  Ends(p) \/ Prepares(p) \/ Finishes(p) \/ PurgeDone(p)
BY DEF Step, Fault, Ends, Prepares, Finishes

LEMMA EndsEnd ==
  ASSUME NEW p \in Procs, Ends(p)
  PROVE  \E report : End(p, report)
BY DEF Ends, Refuse, Refusal, ImportFails, ForwardRefused, CopyRefused,
   RollbackRefused, RetireLost, RecheckFails, InstallRefused, Fail, Kill,
   FlipErrs

\* What a preparing step leaves: the history and the ending of others.
LEMMA PrepareStep ==
  ASSUME MigrationAssumption, CutoverInv, Reports, NEW p \in Procs,
         Prepares(p), EndInv(p)
  PROVE  /\ EndInv(p)' /\ Reports' /\ flipped' = flipped
         /\ op'[p].pc # "idle" /\ \A q \in Procs \ {p} : op'[q] = op[q]
<1>1. TypeOK /\ op \in [Procs -> Commands] /\ Phase(p)
  BY DEF CutoverInv, TypeOK, CommandInv
<1>2. /\ flipped' = flipped
      /\ verdict' = verdict \/ verdict' = [verdict EXCEPT ![p] = "none"]
  <2>1. CASE Command(p) \/ CopyBackup(p) \/ Stage(p)
    BY <2>1 DEF Command, Start, CopyBackup, Stage, CopyInto
  <2>2. CASE \/ ImportRecord(p) \/ Rebind(p) \/ BeginForward(p)
                  \/ SealBackup(p)
             \/ WriteRecord(p) \/ Shelve(p) \/ PublishCentral(p) \/ Prove(p)
    BY <2>2 DEF ImportRecord, Rebind, BeginForward, SealBackup, WriteRecord,
       Shelve, PublishCentral, Prove, Within
  <2>3. CASE \/ BeginRepair(p) \/ BeginRollback(p) \/ Displace(p)
             \/ NothingInTheWay(p) \/ Install(p) \/ WriteMarker(p)
             \/ VerifyInstalled(p) \/ BeginRollbackRepair(p)
    BY <2>3 DEF BeginRepair, BeginRollback, Displace, MakeRetired,
       NothingInTheWay, Install, WriteMarker, VerifyInstalled,
       BeginRollbackRepair, Within
  <2> QED
    BY <2>1, <2>2, <2>3 DEF Prepares
<1>3. /\ op[p].pc \in {"idle", "begin", "rebind", "backup", "seal", "record",
                       "shelve",
                       "stage", "publish", "displace", "install", "mark",
                         "prove"}
      /\ \E r \in Commands : op' = [op EXCEPT ![p] = r]
      /\ op'[p].pc \notin {"idle", "bookmark", "unlock", "withdraw"}
      /\ op'[p].pc = "retire" => op'[p].kind = "rollback"
  <2> DEFINE Early == {"idle", "begin", "rebind", "backup", "seal", "record",
                       "shelve",
                       "stage", "publish", "displace", "install", "mark",
                         "prove"}
  <2> DEFINE Late == {"idle", "bookmark", "unlock", "withdraw", "retire"}
  <2> USE DEF At
  <2>0. ASSUME NEW pc \in Steps PROVE [op[p] EXCEPT !.pc = pc] \in Commands
    BY <1>1 DEF Commands
  <2>a. \E r \in Commands : op' = [op EXCEPT ![p] = r]
    <3>1. \A q \in Procs \ {p} : op'[q] = op[q]
      <4>1. CASE Command(p)
        BY <1>1, <4>1 DEF Command, Start
      <4>2. CASE CopyBackup(p) \/ Stage(p) \/ SealBackup(p) \/ WriteRecord(p)
                 \/ Shelve(p)
        BY <1>1, <4>2 DEF CopyBackup, CopyInto, Stage, SealBackup,
           WriteRecord, Shelve
      <4>3. CASE ImportRecord(p) \/ Rebind(p) \/ BeginForward(p)
                 \/ PublishCentral(p)
                 \/ Prove(p)
        BY <1>1, <4>3 DEF ImportRecord, Rebind, BeginForward, PublishCentral,
           Prove
      <4>4. CASE BeginRepair(p) \/ BeginRollback(p) \/ Displace(p)
                 \/ NothingInTheWay(p)
        BY <1>1, <4>4 DEF BeginRepair, BeginRollback, Displace, MakeRetired,
           NothingInTheWay
      <4>5. CASE Install(p) \/ WriteMarker(p) \/ VerifyInstalled(p)
                 \/ BeginRollbackRepair(p)
        BY <1>1, <4>5 DEF Install, PartDone, WriteMarker, VerifyInstalled,
           BeginRollbackRepair
      <4> QED
        BY <4>1, <4>2, <4>3, <4>4, <4>5 DEF Prepares
    <3>2. op' \in [Procs -> Commands]
      <4>1. Next
        BY DEF Next, Step, Prepares
      <4> QED
        BY <1>1, <4>1, TypeStep DEF TypeOK
    <3>3. op' = [op EXCEPT ![p] = op'[p]] /\ op'[p] \in Commands
      BY <1>1, <3>1, <3>2
    <3> QED
      BY <3>3
  <2>1. ASSUME Command(p)
        PROVE  op[p].pc \in Early /\ op'[p].pc \notin Late
    <3>1. PICK kind, i : Start(p, kind, i)
      BY <2>1 DEF Command
    <3>2. op'[p] = [Idle EXCEPT !.pc = "begin", !.kind = kind, !.asked = i]
      BY <1>1, <3>1 DEF Start
    <3>3. op'[p].pc = "begin"
      BY <3>2 DEF Idle
    <3> QED
      BY <3>1, <3>3 DEF Start
  <2>2. ASSUME CopyBackup(p) \/ Stage(p)
        PROVE  op[p].pc \in Early /\ op'[p].pc \notin Late
    <3>1. ASSUME NEW mail, NEW next, CopyInto(p, mail, next)
          PROVE  op'[p].pc = next
      <4>1. PICK c : op' = [op EXCEPT ![p].copy = c, ![p].pc = next]
        BY <3>1 DEF CopyInto
      <4>2. op' = [op EXCEPT ![p] = [op[p] EXCEPT !.copy = c, !.pc = next]]
        BY <1>1, <4>1
      <4> QED
        BY <1>1, <4>2 DEF Commands
    <3> QED
      BY <2>2, <3>1 DEF CopyBackup, Stage
  <2>3. ASSUME SealBackup(p) \/ WriteRecord(p) \/ Shelve(p) \/ ImportRecord(p)
               \/ Rebind(p)
        PROVE  op[p].pc \in Early /\ op'[p].pc \notin Late
    BY <1>1, <2>3 DEF SealBackup, WriteRecord, Shelve, ImportRecord, Rebind,
       NeedsImport, Commands
  <2>4. ASSUME BeginForward(p)
        PROVE  op[p].pc \in Early /\ op'[p].pc \notin Late
    BY <1>1, <2>4 DEF BeginForward, Commands
  <2>5. ASSUME PublishCentral(p) \/ Prove(p) \/ BeginRepair(p)
               \/ BeginRollback(p)
        PROVE  op[p].pc \in Early /\ op'[p].pc \notin Late
    BY <1>1, <2>5 DEF PublishCentral, Prove, BeginRepair, BeginRollback,
       Commands
  <2>6. ASSUME NothingInTheWay(p)
        PROVE  op[p].pc \in Early /\ op'[p].pc \notin Late
    BY <1>1, <2>6 DEF NothingInTheWay, Commands
  <2>8. ASSUME Displace(p)
        PROVE  /\ op[p].pc \in Early
               /\ op'[p].pc = "retire" /\ op'[p].kind = "rollback"
    <3>1. op[p].kind = "rollback" /\ op[p].pc = "displace"
      BY <1>1, <2>8 DEF Displace, Phase, Commands
    <3> QED
      BY <1>1, <2>8, <3>1 DEF Displace, MakeRetired, Commands
  <2>7. ASSUME Install(p) \/ WriteMarker(p) \/ VerifyInstalled(p)
               \/ BeginRollbackRepair(p)
        PROVE  op[p].pc \in Early /\ op'[p].pc \notin Late
    BY <1>1, <2>7 DEF Install, PartDone, WriteMarker, VerifyInstalled,
       BeginRollbackRepair, Commands
  <2> QED
    BY <2>a, <2>1, <2>2, <2>3, <2>4, <2>5, <2>6, <2>7, <2>8 DEF Prepares
<1>4. ~flipped[p]
  BY <1>3 DEF EndInv, Committed, At
<1> QED
  BY <1>1, <1>2, <1>3, <1>4 DEF EndInv, Reports

LEMMA EmptyTree ==
  ASSUME Tidy, "inbox" \notin local.parts PROVE OnlyDuring
BY DEF Tidy, OnlyDuring, NoMail

\* What a finishing step leaves.
LEMMA FinishStep ==
  ASSUME MigrationAssumption, CutoverInv, Reports, Tidy, NEW p \in Procs,
         Finishes(p), EndInv(p)
  PROVE  /\ EndInv(p)' /\ Reports'
         /\ \A q \in Procs \ {p} : op'[q] = op[q] /\ flipped'[q] = flipped[q]
         /\ op'[p].pc = "idle" => verdict'[p] = "ok"
<1>1. /\ op \in [Procs -> Commands] /\ op[p] \in Commands
      /\ op[p].kind \in {"migrate", "rollback"} /\ Phase(p)
  BY DEF CutoverInv, TypeOK, CommandInv, Commands
<1> DEFINE Goal == /\ EndInv(p)' /\ Reports'
                   /\ \A q \in Procs \ {p} : op'[q] = op[q]
                        /\ flipped'[q] = flipped[q]
                   /\ op'[p].pc = "idle" => verdict'[p] = "ok"
<1>2. ASSUME NEW r \in Commands, op' = [op EXCEPT ![p] = r], EndInv(p)',
             r.pc # "idle", flipped' \in [Procs -> BOOLEAN],
               verdict' = verdict,
             \A q \in Procs \ {p} : flipped'[q] = flipped[q]
      PROVE  Goal
  BY <1>1, <1>2 DEF Reports
<1>3. ASSUME Flip(p) PROVE Goal
  <2> DEFINE r == [op[p] EXCEPT !.pc = IF op[p].kind = "migrate" THEN "recheck"
                                       ELSE "unmark", !.trusted = TRUE]
  <2>1. op' = [op EXCEPT ![p] = r] /\ op'[p] = r
    BY <1>1, <1>3 DEF Flip
  <2>2. /\ r \in Commands /\ r.kind = op[p].kind
        /\ r.pc = "recheck" \/ r.pc = "unmark"
    BY <1>1 DEF Commands, Steps
  <2> HIDE DEF r
  <2>3. EndInv(p)'
    BY <2>1, <2>2 DEF EndInv, Committed
  <2>4. /\ flipped' \in [Procs -> BOOLEAN] /\ verdict' = verdict
        /\ \A q \in Procs \ {p} : flipped'[q] = flipped[q]
    BY <1>3 DEF Flip, Within, Reports
  <2> QED
    BY <1>2, <2>1, <2>2, <2>3, <2>4
<1>4. ASSUME Cleanup(p) PROVE Goal
  <2> DEFINE r == [op[p] EXCEPT !.pc = "retire", !.drift = op[p].drift,
                                !.left = local.parts,
                                !.dest = RetiredName(op[p].id)]
  <2>1. op' = [op EXCEPT ![p] = r] /\ op'[p] = r
    BY <1>1, <1>4 DEF Cleanup, MakeRetired
  <2>2. r.kind = op[p].kind /\ r.pc = "retire" /\ r.left = local.parts
    BY <1>1 DEF Commands
  <2>3. r \in Commands
    <3>1. op' \in [Procs -> Commands]
      <4>1. Next
        BY <1>4 DEF Next, Step
      <4> QED
        BY <4>1, TypeStep DEF CutoverInv, TypeOK
    <3> QED
      BY <2>1, <3>1
  <2> HIDE DEF r
  <2>4. op[p].kind = "migrate"
    BY <1>1, <1>4 DEF Phase, Cleanup
  <2>5. "inbox" \notin local.parts => OnlyDuring
    BY EmptyTree
  <2>6. flipped' = flipped /\ verdict' = verdict
      /\ UNCHANGED <<local, stray>>
    BY <1>4 DEF Cleanup, MakeRetired, Within
  <2>7. EndInv(p)'
    BY <2>1, <2>2, <2>4, <2>5, <2>6 DEF EndInv, Committed, At, OnlyDuring
  <2> QED
    BY <1>2, <2>1, <2>2, <2>3, <2>6, <2>7 DEF Reports
<1>12. ASSUME Recheck(p) \/ Assess(p) PROVE Goal
  <2>1. PICK pc \in {"cleanup", "assessed"}, drift \in BOOLEAN :
          op' = [op EXCEPT ![p].pc = pc, ![p].drift = drift]
    <3>1. CASE Recheck(p)
      <4>1. op[p].drift \in BOOLEAN
        BY <1>1 DEF Commands
      <4>2. op' = [op EXCEPT ![p].pc = "cleanup", ![p].drift = op[p].drift]
        BY <1>1, <3>1 DEF Recheck, Commands
      <4> QED
        BY <4>1, <4>2
    <3>2. CASE Assess(p)
      BY <3>2 DEF Assess, Drifted
    <3> QED
      BY <1>12, <3>1, <3>2
  <2> DEFINE r == [op[p] EXCEPT !.pc = pc, !.drift = drift]
  <2>2. op' = [op EXCEPT ![p] = r] /\ op'[p] = r
    BY <1>1, <2>1
  <2>3. r \in Commands /\ r.pc = pc
    BY <1>1 DEF Commands, Steps
  <2> HIDE DEF r
  <2>4. flipped' = flipped /\ verdict' = verdict
    BY <1>12 DEF Recheck, Assess, Within
  <2>5. EndInv(p)'
    BY <2>2, <2>3 DEF EndInv, Committed
  <2> QED
    BY <1>2, <2>2, <2>3, <2>4, <2>5 DEF Reports
<1>5. ASSUME CleanupResumes(p) PROVE Goal
  <2>1. PICK d \in Names \cup {NoName} :
          op' = [op EXCEPT ![p].pc = "bookmark", ![p].dest = d]
    <3>1. NoName \in Names \cup {NoName}
      OBVIOUS
    <3>2. DOMAIN retired \subseteq Names
      BY DEF CutoverInv, TypeOK
    <3> DEFINE n == <<op[p].id, 0>>
               spent == n \in DOMAIN retired /\ Whole(retired[n])
                          /\ retired[n].mail = op[p].snap
    <3>3. op' = [op EXCEPT ![p].pc = "bookmark",
                           ![p].dest = IF spent THEN n ELSE NoName]
      BY <1>5 DEF CleanupResumes
    <3>4. spent => n \in Names
      BY <3>2
    <3> HIDE DEF spent, n
    <3> QED
      BY <3>1, <3>3, <3>4
  <2> DEFINE r == [op[p] EXCEPT !.pc = "bookmark", !.dest = d]
  <2>2. op' = [op EXCEPT ![p] = r] /\ op'[p] = r
    BY <1>1, <2>1
  <2>3. r \in Commands /\ r.kind = op[p].kind /\ r.pc = "bookmark"
    BY <1>1 DEF Commands, Steps
  <2> HIDE DEF r
  <2>4. local'.parts = {} /\ flipped' = flipped /\ verdict' = verdict
      /\ UNCHANGED <<local, stray>> /\ OnlyDuring
    BY <1>5, EmptyTree DEF CleanupResumes, trees, Within
  <2>5. op[p].kind = "migrate"
    BY <1>1, <1>5 DEF Phase, CleanupResumes
  <2>6. EndInv(p)'
    BY <2>2, <2>3, <2>4, <2>5 DEF EndInv, Committed, OnlyDuring
  <2> QED
    BY <1>2, <2>2, <2>3, <2>4, <2>6 DEF Reports
<1>6. ASSUME Retire(p) PROVE Goal
  <2> DEFINE piece == NextPart(p)
             r == [op[p] EXCEPT !.left = @ \ {piece}]
  <2>1. /\ flipped' = flipped /\ verdict' = verdict /\ stray' = stray
        /\ op[p].pc = "retire" /\ op' = [op EXCEPT ![p] = r] /\ op'[p] = r
        /\ local'.parts = local.parts \ {piece}
        /\ local'.mail = IF piece = "inbox" THEN NoMail ELSE local.mail
    BY <1>1, <1>6 DEF Retire, PartDone, Within
  <2>2. /\ r \in Commands /\ r.kind = op[p].kind /\ r.pc = "retire"
        /\ r.left = op[p].left \ {piece}
    BY <1>1, <2>1 DEF Commands
  <2>3. piece = "inbox" <=> "inbox" \in op[p].left
    BY DEF NextPart
  <2> HIDE DEF piece, r
  <2>4. op[p].kind = "migrate" =>
          /\ local'.parts \subseteq r.left \cup {"inbox"}
          /\ "inbox" \notin r.left => OnlyDuring'
    <3> SUFFICES ASSUME op[p].kind = "migrate"
                 PROVE  /\ local'.parts \subseteq r.left \cup {"inbox"}
                        /\ OnlyDuring'
      OBVIOUS
    <3>1. CASE piece = "inbox"
      BY <2>1, <2>2, <3>1 DEF EndInv, OnlyDuring, NoMail
    <3>2. CASE piece # "inbox"
      BY <2>1, <2>2, <2>3, <3>2 DEF EndInv, OnlyDuring
    <3> QED
      BY <3>1, <3>2
  <2>5. EndInv(p)'
    BY <2>1, <2>2, <2>4 DEF EndInv, Committed, At
  <2> QED
    BY <1>2, <2>1, <2>2, <2>5 DEF Reports
<1>7. ASSUME RetireDone(p) PROVE Goal
  <2> DEFINE next == IF op[p].kind = "migrate" THEN "bookmark" ELSE "install"
             r == [op[p] EXCEPT !.pc = next,
                   !.left = IF op[p].kind = "migrate" THEN {} ELSE Parts,
                   !.dest = IF op[p].drift THEN NoName ELSE @]
  <2>1. op' = [op EXCEPT ![p] = r] /\ op'[p] = r
    BY <1>1, <1>7 DEF RetireDone
  <2>2. r \in Commands /\ r.kind = op[p].kind /\ r.pc = next
    BY <1>1 DEF Commands, Steps
  <2> HIDE DEF r
  <2>3. /\ flipped' = flipped /\ verdict' = verdict
        /\ UNCHANGED <<local, stray>>
        /\ op[p].pc = "retire" /\ op[p].left = {}
    BY <1>7 DEF RetireDone, trees, Within
  <2>4. EndInv(p)'
    BY <1>1, <2>1, <2>2, <2>3 DEF EndInv, Committed, At, OnlyDuring
  <2> QED
    BY <1>2, <2>1, <2>2, <2>3, <2>4 DEF Reports
<1>8. ASSUME InstallBookmark(p) \/ RemoveBookmark(p) PROVE Goal
  <2>1. PICK pc \in {"unlock", "withdraw"} :
          /\ op' = [op EXCEPT ![p].pc = pc]
          /\ pc = "unlock" => op[p].pc = "bookmark" /\ bookmark'
          /\ pc = "withdraw" => op[p].pc = "unmark" /\ ~bookmark'
    BY <1>8 DEF InstallBookmark, RemoveBookmark
  <2> DEFINE r == [op[p] EXCEPT !.pc = pc]
  <2>2. op' = [op EXCEPT ![p] = r] /\ op'[p] = r
    BY <1>1, <2>1
  <2>3. r \in Commands /\ r.kind = op[p].kind /\ r.pc = pc
    BY <1>1 DEF Commands, Steps
  <2> HIDE DEF r
  <2>4. local' = local /\ flipped' = flipped /\ verdict' = verdict
      /\ stray' = stray
    BY <1>8 DEF InstallBookmark, RemoveBookmark, trees, Within
  <2>5. pc = "unlock" => /\ op[p].kind = "migrate" /\ OnlyDuring
                         /\ local.parts \subseteq {"inbox"}
    BY <1>1, <2>1 DEF Phase, EndInv
  <2>6. pc = "withdraw" => op[p].kind = "rollback"
    BY <1>1, <2>1 DEF Phase
  <2>7. EndInv(p)'
    BY <2>1, <2>2, <2>3, <2>4, <2>5, <2>6 DEF EndInv, Committed, OnlyDuring
  <2> QED
    BY <1>2, <2>2, <2>3, <2>4, <2>7 DEF Reports
<1>9. ASSUME Unlock(p) PROVE Goal
  <2>1. CASE End(p, "ok")
    BY <2>1, EndReport, IdleEnds DEF CutoverInv
  <2>2. CASE op' = [op EXCEPT ![p].pc = "purge"]
             /\ UNCHANGED <<verdict, flipped>>
    <3> DEFINE r == [op[p] EXCEPT !.pc = "purge"]
    <3>1. op' = [op EXCEPT ![p] = r] /\ op'[p] = r
      BY <1>1, <2>2
    <3>2. r \in Commands /\ r.pc = "purge"
      BY <1>1 DEF Commands, Steps
    <3> HIDE DEF r
    <3>3. EndInv(p)'
      BY <3>1, <3>2 DEF EndInv
    <3> QED
      BY <1>2, <2>2, <3>1, <3>2, <3>3 DEF Reports
  <2> QED
    BY <1>9, <2>1, <2>2 DEF Unlock
<1>10. ASSUME Purge(p) PROVE Goal
  <2> DEFINE r == [op[p] EXCEPT !.inside = TRUE]
  <2>1. op' = [op EXCEPT ![p] = r] /\ op'[p] = r
    BY <1>1, <1>10 DEF Purge
  <2>2. r \in Commands /\ r.pc = "purge"
    BY <1>1, <1>10 DEF Commands, Purge
  <2> HIDE DEF r
  <2>3. flipped' = flipped /\ verdict' = verdict
    BY <1>10 DEF Purge, Within
  <2>4. EndInv(p)'
    BY <2>1, <2>2 DEF EndInv
  <2> QED
    BY <1>2, <2>1, <2>2, <2>3, <2>4 DEF Reports
<1>11. ASSUME Withdraw(p) \/ LeaveCandidate(p) PROVE Goal
  <2> DEFINE r == [op[p] EXCEPT !.pc = "unlock"]
  <2>1. op' = [op EXCEPT ![p] = r] /\ op'[p] = r
    BY <1>1, <1>11 DEF Withdraw, LeaveCandidate
  <2>2. r \in Commands /\ r.kind = op[p].kind /\ r.pc = "unlock"
      /\ r.base = op[p].base
    BY <1>1 DEF Commands, Steps
  <2> HIDE DEF r
  <2>3. /\ op[p].pc = "withdraw" /\ bookmark' = bookmark
        /\ flipped' = flipped /\ verdict' = verdict
        /\ ~BoundTo(central', op[p].base)
    BY <1>11 DEF Withdraw, LeaveCandidate, SetAside, BoundTo, Within, trees
  <2>4. op[p].kind = "rollback" /\ ~bookmark
    BY <1>1, <2>3 DEF Phase, EndInv
  <2>5. EndInv(p)'
    BY <2>1, <2>2, <2>3, <2>4 DEF EndInv, Committed, BoundTo
  <2> QED
    BY <1>2, <2>1, <2>2, <2>3, <2>5 DEF Reports
<1> QED
  BY <1>3, <1>4, <1>5, <1>6, <1>7, <1>8, <1>9, <1>10, <1>11, <1>12
     DEF Finishes

LEMMA Frame ==
  ASSUME NEW q \in Procs, EndInv(q), op'[q] = op[q], flipped'[q] = flipped[q],
         Holds(q) => UNCHANGED <<local, bookmark, central, stray>>
  PROVE  EndInv(q)'
<1>1. CASE Holds(q)
  BY <1>1 DEF EndInv, Committed, At, BoundTo, OnlyDuring
<1>2. CASE ~Holds(q)
  BY <1>2 DEF Holds, EndInv, Committed, At
<1> QED
  BY <1>1, <1>2

\* Whoever does not hold the lock leaves to its holder what it works on.
LEMMA HeldFrame ==
  ASSUME CutoverInv, NEW p \in Procs, NEW q \in Procs \ {p}, Holds(q),
         Command(p) \/ Refuse(p) \/ Step(p) \/ Fault(p)
  PROVE  UNCHANGED <<local, bookmark, central, stray>>
<1>1. op[p].pc \in {"idle", "purge"} /\ ~Unlocked
  BY DEF CutoverInv, Exclusive, Holds, Unlocked
<1>2. ~Command(p)
  BY <1>1 DEF Command, Start
<1>3. CASE Refuse(p) \/ Fault(p)
  BY <1>1, <1>3 DEF Refuse, Fault, Fail, Kill, FlipErrs, Holds, trees
<1>4. CASE Step(p)
  <2>1. Purge(p) \/ PurgeDone(p)
    <3>1. /\ ~ImportRecord(p) /\ ~ImportFails(p) /\ ~Rebind(p)
               /\ ~BeginForward(p)
          /\ ~ForwardRefused(p) /\ ~CopyBackup(p) /\ ~SealBackup(p)
               /\ ~CopyRefused(p)
          /\ ~WriteRecord(p) /\ ~Shelve(p) /\ ~Stage(p) /\ ~PublishCentral(p)
      BY <1>1 DEF ImportRecord, NeedsImport, ImportFails, Rebind,
         BeginForward, ForwardRefused, CopyBackup, SealBackup, CopyRefused,
         WriteRecord, Shelve, Stage, PublishCentral, At
    <3>2. /\ ~Prove(p) /\ ~Flip(p) /\ ~BeginRepair(p) /\ ~Cleanup(p)
          /\ ~Recheck(p) /\ ~RecheckFails(p) /\ ~Assess(p)
          /\ ~CleanupResumes(p) /\ ~Retire(p) /\ ~RetireLost(p)
               /\ ~RetireDone(p)
          /\ ~InstallBookmark(p) /\ ~Unlock(p)
      BY <1>1 DEF Prove, Flip, MayFlip, BeginRepair, Cleanup, CleanupResumes,
         Recheck, RecheckFails, Assess,
         Retire, RetireLost, RetireDone, InstallBookmark, Unlock, At
    <3>3. /\ ~BeginRollback(p) /\ ~RollbackRefused(p) /\ ~Displace(p)
          /\ ~NothingInTheWay(p) /\ ~Install(p) /\ ~WriteMarker(p)
          /\ ~VerifyInstalled(p) /\ ~BeginRollbackRepair(p)
               /\ ~RemoveBookmark(p) /\ ~InstallRefused(p)
          /\ ~Withdraw(p) /\ ~LeaveCandidate(p)
      BY <1>1 DEF BeginRollback, RollbackRefused, Displace, NothingInTheWay,
         Install, WriteMarker, VerifyInstalled, BeginRollbackRepair,
         InstallRefused, RemoveBookmark, Withdraw, LeaveCandidate, At
    <3> QED
      BY <1>4, <3>1, <3>2, <3>3 DEF Step
  <2> QED
    BY <2>1 DEF Purge, PurgeDone, Within
<1> QED
  BY <1>2, <1>3, <1>4

\* What a step of p does to the command of another, and to its own.
LEMMA StepEnds ==
  ASSUME MigrationAssumption, DoneInv, NEW p \in Procs,
         Command(p) \/ Refuse(p) \/ Step(p) \/ Fault(p)
  PROVE  /\ Reports' /\ EndInv(p)'
         /\ \A q \in Procs \ {p} :
              \/ op'[q] = op[q] /\ flipped'[q] = flipped[q]
              \/ op'[q] = Idle /\ ~flipped'[q] /\ verdict'[q] = "ok"
<1>1. TypeOK /\ Reports /\ EndInv(p)
  BY DEF DoneInv, CutoverInv
<1>2. CASE Ends(p)
  <2>1. PICK report : End(p, report)
    BY <1>2, EndsEnd
  <2> QED
    BY <1>1, <2>1, EndReport, IdleEnds
<1>3. CASE Prepares(p)
  BY <1>1, <1>3, PrepareStep DEF DoneInv
<1>4. CASE Finishes(p)
  BY <1>1, <1>4, FinishStep DEF DoneInv
<1>5. CASE PurgeDone(p)
  <2> DEFINE over == {p} \cup {q \in Procs : op[q].inside
                               /\ op[q].dest = op[p].dest}
  <2>1. /\ op' = [q \in Procs |-> IF q \in over THEN Idle ELSE op[q]]
        /\ verdict' = [q \in Procs |-> IF q \in over THEN "ok" ELSE verdict[q]]
        /\ flipped' = [q \in Procs |-> flipped[q] /\ q \notin over]
    BY <1>5 DEF PurgeDone
  <2>2. p \in over
    OBVIOUS
  <2> HIDE DEF over
  <2>3. Reports'
    BY <1>1, <2>1 DEF Reports
  <2>4. op'[p] = Idle /\ ~flipped'[p]
    BY <2>1, <2>2
  <2>5. \A q \in Procs \ {p} :
          \/ op'[q] = op[q] /\ flipped'[q] = flipped[q]
          \/ op'[q] = Idle /\ ~flipped'[q] /\ verdict'[q] = "ok"
    BY <1>1, <2>1 DEF Reports
  <2> QED
    BY <2>3, <2>4, <2>5, IdleEnds
<1> QED
  BY <1>2, <1>3, <1>4, <1>5, Kinds

\* The actions that leave the local tree alone.
SameTree(p) ==
  \/ Command(p) \/ Refuse(p) \/ Fail(p) \/ Kill(p) \/ FlipErrs(p)
  \/ ImportRecord(p) \/ ImportFails(p) \/ Rebind(p) \/ ForwardRefused(p)
  \/ CopyBackup(p) \/ SealBackup(p) \/ CopyRefused(p) \/ WriteRecord(p)
  \/ Shelve(p) \/ Stage(p) \/ PublishCentral(p) \/ Prove(p) \/ Flip(p)
  \/ Recheck(p) \/ RecheckFails(p) \/ BeginRepair(p) \/ Assess(p)
  \/ Cleanup(p) \/ CleanupResumes(p) \/ RetireLost(p) \/ RetireDone(p)
  \/ InstallBookmark(p) \/ Unlock(p) \/ Purge(p) \/ PurgeDone(p)
  \/ BeginRollback(p) \/ RollbackRefused(p) \/ Displace(p)
  \/ NothingInTheWay(p) \/ InstallRefused(p) \/ WriteMarker(p)
  \/ VerifyInstalled(p) \/ BeginRollbackRepair(p) \/ RemoveBookmark(p)
  \/ Withdraw(p) \/ LeaveCandidate(p)

LEMMA TreeKept ==
  ASSUME NEW p \in Procs, SameTree(p) PROVE local' = local
<1> USE DEF trees
<1>1. CASE \/ Command(p) \/ Refuse(p) \/ Fail(p) \/ Kill(p) \/ FlipErrs(p)
           \/ ImportRecord(p) \/ ImportFails(p) \/ Rebind(p)
           \/ ForwardRefused(p) \/ CopyRefused(p)
  BY <1>1 DEF Command, Start, Refuse, Refusal, Fail, Kill, FlipErrs,
     ImportRecord, ImportFails, Rebind, ForwardRefused, CopyRefused
<1>2. CASE \/ CopyBackup(p) \/ SealBackup(p) \/ WriteRecord(p) \/ Shelve(p)
           \/ Stage(p) \/ PublishCentral(p) \/ Prove(p) \/ Flip(p)
  BY <1>2 DEF CopyBackup, CopyInto, SealBackup, WriteRecord, Shelve, Stage,
     PublishCentral, Prove, Flip
<1>3. CASE \/ Recheck(p) \/ RecheckFails(p) \/ BeginRepair(p) \/ Assess(p)
           \/ Cleanup(p) \/ CleanupResumes(p) \/ RetireLost(p)
           \/ RetireDone(p) \/ InstallBookmark(p) \/ Unlock(p) \/ Purge(p)
           \/ PurgeDone(p)
  BY <1>3 DEF Recheck, RecheckFails, BeginRepair, Assess, Cleanup,
     MakeRetired, CleanupResumes, RetireLost, RetireDone, InstallBookmark,
     Unlock, Purge, PurgeDone
<1>4. CASE \/ BeginRollback(p) \/ RollbackRefused(p) \/ Displace(p)
           \/ NothingInTheWay(p) \/ InstallRefused(p) \/ WriteMarker(p)
           \/ VerifyInstalled(p) \/ BeginRollbackRepair(p)
           \/ RemoveBookmark(p) \/ Withdraw(p) \/ LeaveCandidate(p)
  BY <1>4 DEF BeginRollback, RollbackRefused, Refusal, Displace, MakeRetired,
     NothingInTheWay, InstallRefused, WriteMarker, VerifyInstalled,
     BeginRollbackRepair, RemoveBookmark, Withdraw, LeaveCandidate
<1> QED
  BY <1>1, <1>2, <1>3, <1>4 DEF SameTree

\* A hand disturbs no command: what it adds during one is marked as such.
LEMMA HandEnds ==
  ASSUME CutoverInv, NEW m \in Strays, WriteByHand(m), NEW q \in Procs,
         EndInv(q)
  PROVE  EndInv(q)'
<1>1. /\ UNCHANGED <<op, flipped, bookmark, central>>
      /\ stray' = stray \cup {<<m, IF Unlocked THEN "between"
                                              ELSE "during">>}
      /\ local'.parts = local.parts \cup {"inbox"}
      /\ local'.mail = [local.mail EXCEPT ![m] = "new"]
  BY DEF WriteByHand
<1>2. CASE ~Holds(q)
  BY <1>1, <1>2, Frame
<1>3. CASE Holds(q)
  <2>1. stray' = stray \cup {<<m, "during">>}
    BY <1>1, <1>3 DEF Unlocked
  <2>2. local.mail \in Contents
    BY MailType DEF CutoverInv
  <2>3. OnlyDuring => OnlyDuring'
    BY <1>1, <2>1, <2>2 DEF OnlyDuring, Contents
  <2> QED
    BY <1>1, <2>3 DEF EndInv, Committed, At, BoundTo
<1> QED
  BY <1>2, <1>3

\* The inbox comes with the mail and goes with it.
LEMMA TidyStep ==
  ASSUME CutoverInv, Tidy, [Next]_vars PROVE Tidy'
<1>1. local \in Trees /\ \A p \in Procs : op[p] \in Commands
  BY MailType DEF CutoverInv
<1>2. CASE local' = local
  BY <1>2 DEF Tidy
<1>3. ASSUME NEW m, NEW from, NEW to, InAuthority(m, from, to) PROVE Tidy'
  <2>1. CASE layout = "local"
    <3>1. local'.parts = local.parts /\ "inbox" \in local.parts
      BY <1>1, <1>3, <2>1 DEF InAuthority, Trees, CutoverInv, AuthorityWhole,
         Whole, MailParts
    <3> QED
      BY <3>1 DEF Tidy
  <2>2. CASE layout # "local"
    BY <1>2, <1>3, <2>2 DEF InAuthority
  <2> QED
    BY <2>1, <2>2
<1>4. ASSUME NEW m, WriteByHand(m) PROVE Tidy'
  BY <1>4 DEF WriteByHand, Tidy
<1>5. CASE DiscardArchive
  BY <1>2, <1>5 DEF DiscardArchive, trees
<1>6. ASSUME NEW p \in Procs, BeginForward(p) PROVE Tidy'
  BY <1>1, <1>6 DEF BeginForward, Tidy, Trees, Parts, MailParts
<1>7. ASSUME NEW p \in Procs, Retire(p) \/ Install(p) PROVE Tidy'
  <2>1. NextPart(p) # "inbox" =>
          local'.mail = local.mail
          /\ ("inbox" \in local'.parts <=> "inbox" \in local.parts)
    BY <1>7 DEF Retire, Install
  <2>2. NextPart(p) = "inbox" =>
          "inbox" \in local'.parts \/ local'.mail = NoMail
    BY <1>7 DEF Retire, Install
  <2> QED
    BY <2>1, <2>2 DEF Tidy
<1>8. ASSUME NEW p \in Procs, Command(p) \/ Refuse(p) \/ Step(p) \/ Fault(p),
             ~BeginForward(p), ~Retire(p), ~Install(p)
      PROVE  Tidy'
  <2>1. SameTree(p)
    BY <1>8 DEF Step, Fault, SameTree
  <2> QED
    BY <1>2, <2>1, TreeKept
<1> QED
  BY <1>2, <1>3, <1>4, <1>5, <1>6, <1>7, <1>8 DEF Next, Deliver, Read, vars,
     trees

LEMMA DoneStep == MigrationAssumption /\ DoneInv /\ [Next]_vars => DoneInv'
<1> SUFFICES ASSUME MigrationAssumption, DoneInv, [Next]_vars PROVE DoneInv'
  OBVIOUS
<1>1. CutoverInv' /\ Tidy'
  BY InvStep, TidyStep DEF DoneInv
<1>2. CASE UNCHANGED vars
  BY <1>1, <1>2, Frame DEF DoneInv, Reports, vars, trees
<1>3. CASE (\E m \in Mail : Deliver(m) \/ Read(m)) \/ DiscardArchive
  <2>1. /\ Unlocked /\ op' = op /\ flipped' = flipped /\ verdict' = verdict
    BY <1>3 DEF Deliver, Read, InAuthority, DiscardArchive
  <2>2. \A q \in Procs : EndInv(q)'
    BY <2>1, Frame DEF DoneInv, Unlocked
  <2> QED
    BY <1>1, <2>1, <2>2 DEF DoneInv, Reports
<1>5. ASSUME NEW m \in Strays, WriteByHand(m) PROVE DoneInv'
  <2>1. \A q \in Procs : EndInv(q)'
    BY <1>5, HandEnds DEF DoneInv
  <2>2. Reports'
    BY <1>5 DEF WriteByHand, DoneInv, Reports
  <2> QED
    BY <1>1, <2>1, <2>2 DEF DoneInv
<1>4. ASSUME NEW p \in Procs, Command(p) \/ Refuse(p) \/ Step(p) \/ Fault(p)
      PROVE  DoneInv'
  <2>1. ASSUME NEW q \in Procs \ {p} PROVE EndInv(q)'
    <3>1. CASE op'[q] = Idle /\ ~flipped'[q]
      BY <3>1, IdleEnds
    <3>2. CASE op'[q] = op[q] /\ flipped'[q] = flipped[q]
      <4>1. Holds(q) => UNCHANGED <<local, bookmark, central, stray>>
        BY <1>4, HeldFrame DEF DoneInv
      <4> QED
        BY <3>2, <4>1, Frame DEF DoneInv
    <3> QED
      BY <1>4, <3>1, <3>2, StepEnds
  <2> QED
    BY <1>1, <1>4, <2>1, StepEnds DEF DoneInv
<1> QED
  BY <1>2, <1>3, <1>4, <1>5 DEF Next, Mail

LEMMA DoneInit == MigrationAssumption /\ Init => DoneInv
<1> SUFFICES ASSUME MigrationAssumption, Init PROVE DoneInv
  OBVIOUS
<1>1. \A p \in Procs : EndInv(p)
  BY DEF Init, Idle, EndInv
<1>2. Reports /\ Tidy
  BY DEF Init, Reports, Tidy, NoTree, Parts, MailParts
<1> QED
  BY <1>1, <1>2, InitInv DEF DoneInv

\* A command that comes to its end leaves nothing half done: central with its
\* bookmark and no local mail beside it but what a hand wrote meanwhile, or
\* local without bookmark and without the rolled back generation.
THEOREM NothingLeftHalfDone == Spec => []NothingHalfDone
<1>1. DoneInv => NothingHalfDone
  <2> SUFFICES ASSUME DoneInv, NEW p \in Procs, op[p].pc = "unlock"
               PROVE  IF op[p].kind = "migrate"
                      THEN /\ layout = "central" /\ bookmark
                           /\ local.parts \subseteq {"inbox"} /\ OnlyDuring
                      ELSE /\ layout = "local" /\ ~bookmark
                           /\ ~BoundTo(central, op[p].base)
    BY DEF NothingHalfDone, OnlyDuring
  <2>1. op[p].kind \in {"migrate", "rollback"} /\ Phase(p) /\ EndInv(p)
    BY DEF DoneInv, CutoverInv, TypeOK, CommandInv, Commands
  <2> QED
    BY <2>1 DEF Phase, EndInv
<1> QED
  BY <1>1, DoneInit, DoneStep, MigrationAssumption, PTL DEF Spec

-----------------------------------------------------------------------------
(* What a command reports.                                                 *)

\* Before the flip there is nothing to take back; after it the layout is the
\* desired one.
LEMMA Standing ==
  ASSUME CutoverInv, NEW p \in Procs, EndInv(p)
  PROVE  /\ Committed(p) => layout = Desired(p)
         /\ ~Committed(p) /\ op[p].pc # "purge" => ~flipped[p]
<1>1. op[p].kind \in {"migrate", "rollback"} /\ Phase(p)
  BY DEF CutoverInv, TypeOK, CommandInv, Commands
<1> QED
  BY <1>1 DEF Phase, EndInv, Committed, At, Desired

LEMMA EndsTrue ==
  ASSUME MigrationAssumption, DoneInv, NEW p \in Procs, Ends(p)
  PROVE  /\ verdict'[p] = "failed" => ~flipped[p] /\ layout' = layout
         /\ verdict'[p] = "committed" => layout' = Desired(p)
<1>1. TypeOK /\ Reports /\ CutoverInv /\ EndInv(p)
  BY DEF DoneInv, CutoverInv
<1>2. CASE \/ Refuse(p) \/ ImportFails(p) \/ ForwardRefused(p)
                \/ CopyRefused(p)
           \/ RollbackRefused(p) \/ InstallRefused(p)
  <2>1. End(p, "failed") /\ layout' = layout
    BY <1>2 DEF Refuse, ImportFails, ForwardRefused, CopyRefused,
       RollbackRefused, InstallRefused, Refusal
  <2>2. op[p].pc \in {"begin", "seal", "publish", "displace", "install",
                       "mark"}
    BY <1>2 DEF Refuse, ImportFails, NeedsImport, ForwardRefused, CopyRefused,
       RollbackRefused, InstallRefused, At
  <2>3. ~Committed(p) /\ op[p].pc # "purge"
    BY <2>2 DEF Committed, At
  <2>4. verdict'[p] = "failed"
    BY <1>1, <2>1, EndReport
  <2> QED
    BY <1>1, <2>1, <2>3, <2>4, Standing
<1>3. CASE RetireLost(p) \/ Fail(p)
  <2>1. /\ End(p, IF Committed(p) THEN "committed" ELSE "failed")
        /\ layout' = layout /\ op[p].pc # "purge"
    BY <1>3 DEF RetireLost, Fail, Holds
  <2>2. verdict'[p] = IF Committed(p) THEN "committed" ELSE "failed"
    BY <1>1, <2>1, EndReport
  <2> QED
    BY <1>1, <2>1, <2>2, Standing
<1>6. CASE RecheckFails(p)
  <2>1. End(p, "committed") /\ layout' = layout /\ Committed(p)
    BY <1>6 DEF RecheckFails, Committed
  <2>2. verdict'[p] = "committed"
    BY <1>1, <2>1, EndReport
  <2> QED
    BY <1>1, <2>1, <2>2, Standing
<1>4. CASE Kill(p)
  <2>1. End(p, "none")
    BY <1>4 DEF Kill
  <2>2. verdict'[p] = "none"
    BY <1>1, <2>1, EndReport
  <2> QED
    BY <2>2
<1>5. CASE FlipErrs(p)
  <2>1. /\ layout' \in {layout, Desired(p)} /\ op[p].pc = "flip"
        /\ End(p, Probed(p)) \/ End(p, "unknown")
    BY <1>5 DEF FlipErrs
  <2>2. ~flipped[p]
    BY <1>1, <2>1, Standing DEF Committed, At
  <2>3. verdict'[p] = Probed(p) \/ verdict'[p] = "unknown"
    BY <1>1, <2>1, EndReport
  <2> QED
    BY <2>1, <2>2, <2>3 DEF Probed
<1> QED
  BY <1>2, <1>3, <1>4, <1>5, <1>6 DEF Ends

LEMMA StepTrue == MigrationAssumption /\ DoneInv /\ [Next]_vars => ReportTrue
<1> SUFFICES ASSUME MigrationAssumption, DoneInv, [Next]_vars, NEW q \in Procs,
                    op[q].pc # "idle", op'[q].pc = "idle"
             PROVE  /\ verdict'[q] = "failed"
                         => ~flipped[q] /\ layout' = layout
                    /\ verdict'[q] = "committed" => layout' = Desired(q)
  BY DEF ReportTrue
<1>1. PICK p \in Procs : Command(p) \/ Refuse(p) \/ Step(p) \/ Fault(p)
  <2>1. op' # op
    OBVIOUS
  <2> QED
    BY <2>1 DEF Next, vars, Deliver, Read, InAuthority, WriteByHand,
       DiscardArchive
<1>2. CASE q # p
  <2>1. verdict'[q] = "ok"
    BY <1>1, <1>2, StepEnds
  <2> QED
    BY <2>1
<1>3. CASE q = p
  <2>1. CASE Ends(p)
    BY <1>3, <2>1, EndsTrue
  <2>2. CASE Prepares(p)
    BY <1>3, <2>2, PrepareStep DEF DoneInv, CutoverInv
  <2>3. CASE Finishes(p)
    <3>1. verdict'[p] = "ok"
      BY <1>3, <2>3, FinishStep DEF DoneInv
    <3> QED
      BY <1>3, <3>1
  <2>4. CASE PurgeDone(p)
    <3>1. verdict'[p] = "ok"
      BY <2>4 DEF PurgeDone
    <3> QED
      BY <1>3, <3>1
  <2> QED
    BY <1>1, <2>1, <2>2, <2>3, <2>4, Kinds
<1> QED
  BY <1>2, <1>3

\* A report is true: "failed" only from a command that left the layout alone,
\* "committed" only when the layout is the one the command was to establish.
THEOREM ReportsAreTrue == Spec => ReportsTrue
<1>1. Spec => []DoneInv
  BY DoneInit, DoneStep, MigrationAssumption, PTL DEF Spec
<1>2. DoneInv /\ [Next]_vars => ReportTrue
  BY StepTrue, MigrationAssumption
<1> QED
  BY <1>1, <1>2, PTL DEF Spec, ReportsTrue

-----------------------------------------------------------------------------
(* Mail written by hand while no command had the lock.  A command sees that *)
(* the tree it is in has changed, so it is never part of what a command     *)
(* copies, publishes, or retires under a name that it goes on to purge.     *)

\* None of it was written by hand, unless during a command.
Clean(mail) ==
  \A m \in Strays : mail[m] # "absent" => <<m, "during">> \in stray

\* A command at such a step takes the local tree for what it has verified.
Trusting(r) ==
  \/ r.pc \in {"recheck", "cleanup"} /\ r.trusted
  \/ r.pc \in {"assessed", "retire"} /\ ~r.drift
  \/ r.kind = "rollback" /\ r.pc \in {"prove", "flip"}

\* The retired tree is purged when the command has given the lock back.
Purgeable(r) ==
  \/ r.pc = "retire" /\ ~r.drift
  \/ r.pc = "bookmark"
  \/ r.kind = "migrate" /\ r.pc = "unlock"

HandsOff(p) ==
  /\ Clean(op[p].snap) /\ Clean(op[p].copy) /\ Clean(op[p].backup)
  /\ Trusting(op[p]) => Clean(local.mail)
  /\ Purgeable(op[p]) /\ op[p].dest \in DOMAIN retired =>
       Clean(retired[op[p].dest].mail)

\* Each message is written once.
Once == \A v, w \in stray : v[1] = w[1] => v = w

\* What the commands publish and read back.
CleanStore ==
  /\ central # NoGeneration => Clean(central.mail)
  /\ \A i \in DOMAIN records : Clean(records[i].mail)
  /\ layout = "local" => Clean(local.mail)

StrayInv == Once /\ CleanStore /\ \A p \in Procs : HandsOff(p)

LEMMA CleanTorn ==
  ASSUME NEW mail \in Contents, Clean(mail), NEW c \in Torn(mail)
  PROVE  Clean(c)
BY DEF Clean, Torn, Contents, Mail

LEMMA CleanNone == Clean(NoMail) /\ Clean(NoMail)'
BY DEF Clean, NoMail, Mail

LEMMA IdleHandsOff ==
  ASSUME NEW q \in Procs, op'[q] = Idle PROVE HandsOff(q)'
BY CleanNone DEF HandsOff, Purgeable, Trusting, Idle

\* A command that another one leaves alone.
LEMMA LeftAlone ==
  ASSUME NEW q \in Procs, HandsOff(q), op'[q] = op[q], stray \subseteq stray',
         Holds(q) => local' = local,
         Holds(q) /\ op[q].dest \in DOMAIN retired' =>
           /\ op[q].dest \in DOMAIN retired
           /\ \/ retired'[op[q].dest] = retired[op[q].dest]
              \/ retired'[op[q].dest].mail = NoMail
  PROVE  HandsOff(q)'
<1>1. /\ Clean(op[q].snap) /\ Clean(op[q].copy) /\ Clean(op[q].backup)
      /\ Trusting(op[q]) => Clean(local.mail)
      /\ Purgeable(op[q]) /\ op[q].dest \in DOMAIN retired =>
           Clean(retired[op[q].dest].mail)
  BY DEF HandsOff
<1>2. /\ Clean(op[q].snap)' /\ Clean(op[q].copy)' /\ Clean(op[q].backup)'
  BY <1>1 DEF Clean
<1>3. Trusting(op[q]) \/ Purgeable(op[q]) => Holds(q)
  BY DEF Trusting, Purgeable, Holds
<1>4. Trusting(op[q])' => Clean(local.mail)'
  BY <1>1, <1>3 DEF Clean, Trusting
<1>5. ASSUME Purgeable(op[q]), op[q].dest \in DOMAIN retired'
      PROVE  Clean(retired[op[q].dest].mail)'
  <2>1. Holds(q) /\ op[q].dest \in DOMAIN retired
        /\ Clean(retired[op[q].dest].mail)
    BY <1>1, <1>3, <1>5
  <2>2. CASE retired'[op[q].dest] = retired[op[q].dest]
    BY <2>1, <2>2 DEF Clean
  <2>3. CASE retired'[op[q].dest].mail = NoMail
    BY <2>3, CleanNone DEF Clean
  <2> QED
    BY <1>5, <2>1, <2>2, <2>3
<1>6. Purgeable(op[q])' <=> Purgeable(op[q])
  BY DEF Purgeable
<1> QED
  BY <1>2, <1>4, <1>5, <1>6 DEF HandsOff

\* A step of p that leaves the mail where it is.
LEMMA MailStays ==
  ASSUME CutoverInv, StrayInv, NEW p \in Procs,
         \A q \in Procs \ {p} : op'[q] = op[q],
         UNCHANGED <<layout, trees, records, stray>>, HandsOff(p)'
  PROVE  StrayInv'
<1>1. Once' /\ CleanStore'
  BY DEF StrayInv, CleanStore, Once, trees, Clean
<1>2. \A q \in Procs \ {p} : HandsOff(q)'
  BY LeftAlone DEF StrayInv, trees
<1> QED
  BY <1>1, <1>2 DEF StrayInv

\* Commands that end.
LEMMA EndHandsOff ==
  ASSUME CutoverInv, StrayInv, NEW p \in Procs, NEW report, End(p, report),
         UNCHANGED <<layout, trees, records, stray>>
  PROVE  StrayInv'
<1>1. op'[p] = Idle /\ \A q \in Procs \ {p} : op'[q] = op[q]
  BY DEF End, CutoverInv, TypeOK
<1> QED
  BY <1>1, MailStays, IdleHandsOff

LEMMA StrayEnds ==
  ASSUME CutoverInv, StrayInv, NEW p \in Procs,
         \/ Refuse(p) \/ ImportFails(p) \/ ForwardRefused(p) \/ CopyRefused(p)
         \/ RollbackRefused(p) \/ RetireLost(p) \/ RecheckFails(p)
         \/ InstallRefused(p) \/ Fail(p) \/ Kill(p)
  PROVE  StrayInv'
<1>1. PICK report : End(p, report)
  BY EndsEnd DEF Ends
<1>2. UNCHANGED <<layout, trees, records, stray>>
  BY DEF Refuse, Refusal, ImportFails, ForwardRefused, CopyRefused,
     RollbackRefused, RetireLost, RecheckFails, InstallRefused, Fail, Kill,
     store
<1> QED
  BY <1>1, <1>2, EndHandsOff

\* What a command has copied, when it goes on as r.
Carries(p, r) ==
  /\ r.snap = op[p].snap /\ r.copy = op[p].copy /\ r.backup = op[p].backup

\* A command that goes on as r.
LEMMA GoesOnAs ==
  ASSUME CutoverInv, StrayInv, NEW p \in Procs, NEW r,
         op' = [op EXCEPT ![p] = r],
         UNCHANGED <<layout, trees, records, stray>>,
         Clean(r.snap), Clean(r.copy), Clean(r.backup),
         Trusting(r) => Clean(local.mail),
         Purgeable(r) /\ r.dest \in DOMAIN retired =>
           Clean(retired[r.dest].mail)
  PROVE  StrayInv'
<1>1. op'[p] = r /\ \A q \in Procs \ {p} : op'[q] = op[q]
  BY DEF CutoverInv, TypeOK
<1>2. HandsOff(p)'
  BY <1>1 DEF HandsOff, Clean, trees, Trusting, Purgeable
<1> QED
  BY <1>1, <1>2, MailStays

LEMMA StrayReads ==
  ASSUME CutoverInv, StrayInv, NEW p \in Procs,
         \/ Command(p) \/ CopyBackup(p) \/ SealBackup(p) \/ Stage(p)
         \/ Prove(p) \/ VerifyInstalled(p) \/ NothingInTheWay(p)
         \/ WriteMarker(p) \/ LeaveCandidate(p) \/ RemoveBookmark(p)
         \/ BeginRepair(p) \/ BeginRollback(p) \/ BeginRollbackRepair(p)
  PROVE  StrayInv'
<1>1. /\ TypeOK /\ op[p] \in Commands /\ HandsOff(p) /\ CleanStore
      /\ CommandInv(p)
  BY MailType DEF CutoverInv, StrayInv
<1>2. ASSUME NEW kind, NEW i, Start(p, kind, i) PROVE StrayInv'
  <2> DEFINE r == [Idle EXCEPT !.pc = "begin", !.kind = kind, !.asked = i]
  <2>1. op' = [op EXCEPT ![p] = r]
    BY <1>2 DEF Start
  <2>2. r.pc = "begin" /\ r.snap = NoMail /\ r.copy = NoMail
        /\ r.backup = NoMail
    BY DEF Idle
  <2> HIDE DEF r
  <2>3. ~Trusting(r) /\ ~Purgeable(r)
    BY <2>2 DEF Trusting, Purgeable
  <2>4. Clean(r.snap) /\ Clean(r.copy) /\ Clean(r.backup)
    BY <2>2, CleanNone
  <2>5. UNCHANGED <<layout, trees, records, stray>>
    BY <1>2 DEF Start, store, trees
  <2> QED
    BY <2>1, <2>3, <2>4, <2>5, GoesOnAs
<1>3. CASE Command(p)
  BY <1>2, <1>3 DEF Command
<1>4. ASSUME NEW mail \in Contents, Clean(mail),
             NEW next \in {"seal", "publish", "displace"},
             CopyInto(p, mail, next)
      PROVE  StrayInv'
  <2>1. PICK c : Clean(c) /\ op' = [op EXCEPT ![p].copy = c, ![p].pc = next]
    BY <1>4, CleanTorn DEF CopyInto
  <2> DEFINE r == [op[p] EXCEPT !.copy = c, !.pc = next]
  <2>2. op' = [op EXCEPT ![p] = r]
    BY <1>1, <2>1 DEF TypeOK
  <2>3. r.pc = next /\ r.copy = c /\ r.snap = op[p].snap
        /\ r.backup = op[p].backup
    BY <1>1 DEF Commands
  <2> HIDE DEF r
  <2>4. ~Trusting(r) /\ ~Purgeable(r)
    BY <2>3 DEF Trusting, Purgeable
  <2>5. Clean(r.snap) /\ Clean(r.copy) /\ Clean(r.backup)
    BY <1>1, <2>1, <2>3 DEF HandsOff
  <2> QED
    BY <1>4, <2>2, <2>4, <2>5, GoesOnAs DEF CopyInto, store
<1>5. CASE CopyBackup(p) \/ Stage(p)
  <2>1. op[p].snap \in Contents /\ op[p].backup \in Contents
        /\ Clean(op[p].snap) /\ Clean(op[p].backup)
    BY <1>1 DEF Commands, HandsOff
  <2> QED
    BY <1>4, <1>5, <2>1 DEF CopyBackup, Stage
<1>6. CASE SealBackup(p)
  <2> DEFINE r == [op[p] EXCEPT !.pc = "record", !.backup = op[p].copy]
  <2>1. op' = [op EXCEPT ![p] = r]
    BY <1>1, <1>6 DEF SealBackup, TypeOK
  <2>2. r.pc = "record" /\ r.copy = op[p].copy /\ r.snap = op[p].snap
        /\ r.backup = op[p].copy
    BY <1>1 DEF Commands
  <2> HIDE DEF r
  <2>3. ~Trusting(r) /\ ~Purgeable(r)
    BY <2>2 DEF Trusting, Purgeable
  <2>4. Clean(r.snap) /\ Clean(r.copy) /\ Clean(r.backup)
    BY <1>1, <2>2 DEF HandsOff
  <2> QED
    BY <1>6, <2>1, <2>3, <2>4, GoesOnAs DEF SealBackup, Within, store
<1>7. ASSUME NEW r, op' = [op EXCEPT ![p] = r], Carries(p, r),
             r.pc \in {"flip", "prove", "install", "mark", "unlock",
                       "withdraw"},
             r.kind = op[p].kind, r.pc = "unlock" => r.kind = "rollback",
             r.pc \in {"flip", "prove"} /\ r.kind = "rollback" =>
               Clean(local.mail),
             UNCHANGED <<layout, trees, records, stray>>
      PROVE  StrayInv'
  <2>1. Clean(r.snap) /\ Clean(r.copy) /\ Clean(r.backup)
    BY <1>1, <1>7 DEF HandsOff, Carries
  <2>2. Trusting(r) => Clean(local.mail)
    BY <1>7 DEF Trusting
  <2>3. ~Purgeable(r)
    BY <1>7 DEF Purgeable
  <2> QED
    BY <1>7, <2>1, <2>2, <2>3, GoesOnAs
<1>8. CASE \/ Prove(p) \/ VerifyInstalled(p) \/ WriteMarker(p)
           \/ RemoveBookmark(p) \/ LeaveCandidate(p)
  <2>1. PICK pc \in {"flip", "prove", "mark", "unlock", "withdraw"} :
          /\ op' = [op EXCEPT ![p].pc = pc]
          /\ pc = "flip" <=> op[p].pc = "prove"
          /\ pc = "prove" => local.mail = op[p].snap
          /\ pc = "unlock" => LeaveCandidate(p)
    BY <1>8 DEF Prove, VerifyInstalled, WriteMarker, RemoveBookmark,
       LeaveCandidate
  <2> DEFINE r == [op[p] EXCEPT !.pc = pc]
  <2>2. op' = [op EXCEPT ![p] = r]
    BY <1>1, <2>1 DEF TypeOK
  <2>3. r.pc = pc /\ r.kind = op[p].kind /\ Carries(p, r)
    BY <1>1 DEF Commands, Carries
  <2> HIDE DEF r
  <2>4. pc \in {"flip", "prove"} /\ op[p].kind = "rollback" =>
          Clean(local.mail)
    BY <1>1, <2>1 DEF HandsOff, Trusting
  <2>5. pc = "unlock" => op[p].kind = "rollback"
    BY <1>1, <2>1 DEF LeaveCandidate, CommandInv, Phase, Commands
  <2>6. UNCHANGED <<layout, trees, records, stray>>
    BY <1>8 DEF Prove, VerifyInstalled, WriteMarker, RemoveBookmark,
       LeaveCandidate, Within, store, trees
  <2> QED
    BY <1>7, <2>1, <2>2, <2>3, <2>4, <2>5, <2>6
<1>9. CASE NothingInTheWay(p)
  <2> DEFINE r == [op[p] EXCEPT !.pc = "install", !.left = Parts]
  <2>1. op' = [op EXCEPT ![p] = r]
    BY <1>1, <1>9 DEF NothingInTheWay, TypeOK
  <2>2. r.pc = "install" /\ r.kind = op[p].kind /\ Carries(p, r)
    BY <1>1 DEF Commands, Carries
  <2> HIDE DEF r
  <2> QED
    BY <1>7, <1>9, <2>1, <2>2 DEF NothingInTheWay, Within, store
<1>10. CASE BeginRepair(p)
  <2> DEFINE r == [op[p] EXCEPT !.id = central.op, !.pc = "cleanup",
                      !.snap = records[central.op].mail, !.trusted = FALSE]
  <2>1. op' = [op EXCEPT ![p] = r]
    BY <1>1, <1>10 DEF BeginRepair, TypeOK
  <2>2. /\ r.pc = "cleanup" /\ r.copy = op[p].copy /\ ~r.trusted
        /\ r.snap = records[central.op].mail /\ r.backup = op[p].backup
        /\ r.kind = op[p].kind
    BY <1>1 DEF Commands
  <2> HIDE DEF r
  <2>3. Clean(records[central.op].mail)
    BY <1>1, <1>10 DEF BeginRepair, Verified, CleanStore
  <2>4. ~Trusting(r) /\ ~Purgeable(r)
    BY <2>2 DEF Trusting, Purgeable
  <2>5. Clean(r.snap) /\ Clean(r.copy) /\ Clean(r.backup)
    BY <1>1, <2>2, <2>3 DEF HandsOff
  <2> QED
    BY <1>10, <2>1, <2>4, <2>5, GoesOnAs DEF BeginRepair, Within, store
<1>11. CASE BeginRollback(p)
  <2> DEFINE r == [op[p] EXCEPT !.id = lastId + 1, !.snap = central.mail,
                                !.base = central.op, !.pc = "backup"]
  <2>1. op' = [op EXCEPT ![p] = r]
    BY <1>1, <1>11 DEF BeginRollback, TypeOK
  <2>2. /\ r.pc = "backup" /\ r.copy = op[p].copy
        /\ r.snap = central.mail /\ r.backup = op[p].backup
    BY <1>1 DEF Commands
  <2> HIDE DEF r
  <2>3. Clean(central.mail)
    BY <1>1, <1>11 DEF BeginRollback, Verified, CleanStore
  <2>4. ~Trusting(r) /\ ~Purgeable(r)
    BY <2>2 DEF Trusting, Purgeable
  <2>5. Clean(r.snap) /\ Clean(r.copy) /\ Clean(r.backup)
    BY <1>1, <2>2, <2>3 DEF HandsOff
  <2> QED
    BY <1>11, <2>1, <2>4, <2>5, GoesOnAs DEF BeginRollback, Within, store
<1>12. CASE BeginRollbackRepair(p)
  <2> DEFINE r == [op[p] EXCEPT !.pc = "unmark", !.base = op[p].asked,
                                !.id = marker.rollback]
  <2>1. op' = [op EXCEPT ![p] = r]
    BY <1>1, <1>12 DEF BeginRollbackRepair, TypeOK
  <2>2. /\ r.pc = "unmark" /\ r.copy = op[p].copy
        /\ r.snap = op[p].snap /\ r.backup = op[p].backup
    BY <1>1 DEF Commands
  <2> HIDE DEF r
  <2>3. ~Trusting(r) /\ ~Purgeable(r)
    BY <2>2 DEF Trusting, Purgeable
  <2>4. Clean(r.snap) /\ Clean(r.copy) /\ Clean(r.backup)
    BY <1>1, <2>2 DEF HandsOff
  <2> QED
    BY <1>12, <2>1, <2>3, <2>4, GoesOnAs DEF BeginRollbackRepair, Within, store
<1> QED
  BY <1>3, <1>5, <1>6, <1>8, <1>9, <1>10, <1>11, <1>12

\* The way from the flip to the purge of the retired tree.
LEMMA StrayCleanups ==
  ASSUME CutoverInv, Tidy, StrayInv, NEW p \in Procs,
         \/ Recheck(p) \/ Assess(p) \/ CleanupResumes(p) \/ RetireDone(p)
         \/ InstallBookmark(p) \/ Unlock(p)
  PROVE  StrayInv'
<1>1. /\ TypeOK /\ op[p] \in Commands /\ HandsOff(p) /\ CleanStore
      /\ CommandInv(p)
  BY MailType DEF CutoverInv, StrayInv
<1>2. NoName \notin Names
  BY DEF NoName, Names
<1>3. ASSUME NEW r, op' = [op EXCEPT ![p] = r], Carries(p, r),
             Trusting(r) => Clean(local.mail),
             Purgeable(r) /\ r.dest \in DOMAIN retired =>
               Clean(retired[r.dest].mail),
             UNCHANGED <<layout, trees, records, stray>>
      PROVE  StrayInv'
  <2>1. Clean(r.snap) /\ Clean(r.copy) /\ Clean(r.backup)
    BY <1>1, <1>3 DEF HandsOff, Carries
  <2> QED
    BY <1>3, <2>1, GoesOnAs
<1>4. CASE Recheck(p)
  <2> DEFINE r == [op[p] EXCEPT !.pc = "cleanup"]
  <2>1. op' = [op EXCEPT ![p] = r]
    BY <1>1, <1>4 DEF Recheck, TypeOK
  <2>2. r.pc = "cleanup" /\ Carries(p, r)
    BY <1>1 DEF Commands, Carries
  <2> HIDE DEF r
  <2>3. Clean(local.mail) /\ ~Purgeable(r)
    BY <1>1, <1>4, <2>2 DEF Recheck, HandsOff, Purgeable
  <2> QED
    BY <1>3, <1>4, <2>1, <2>2, <2>3 DEF Recheck, Within, store
<1>5. CASE Assess(p)
  <2> DEFINE r == [op[p] EXCEPT !.pc = "assessed", !.drift = Drifted(p)]
  <2>1. op' = [op EXCEPT ![p] = r]
    BY <1>1, <1>5 DEF Assess, TypeOK
  <2>2. r.pc = "assessed" /\ Carries(p, r) /\ r.drift = Drifted(p)
        /\ r.kind = op[p].kind
    BY <1>1 DEF Commands, Carries
  <2> HIDE DEF r
  <2>3. ~Purgeable(r)
    BY <2>2 DEF Purgeable
  <2>4. ASSUME ~Drifted(p) PROVE Clean(local.mail)
    <3>1. CASE local.parts \cap MailParts = {}
      BY <3>1, CleanNone DEF Tidy, MailParts
    <3>2. CASE op[p].trusted
      BY <1>1, <1>5, <3>2 DEF Assess, HandsOff, Trusting
    <3>3. CASE local.mail = op[p].snap
      BY <1>1, <3>3 DEF HandsOff
    <3> QED
      BY <2>4, <3>1, <3>2, <3>3 DEF Drifted
  <2>5. Trusting(r) => Clean(local.mail)
    BY <2>2, <2>4 DEF Trusting
  <2> QED
    BY <1>3, <1>5, <2>1, <2>2, <2>3, <2>5 DEF Assess, Within, store
<1>6. CASE CleanupResumes(p)
  <2> DEFINE n == <<op[p].id, 0>>
             spent == n \in DOMAIN retired /\ Whole(retired[n])
                        /\ retired[n].mail = op[p].snap
             d == IF spent THEN n ELSE NoName
             r == [op[p] EXCEPT !.pc = "bookmark", !.dest = d]
  <2>1. op' = [op EXCEPT ![p] = r]
    BY <1>1, <1>6 DEF CleanupResumes, TypeOK
  <2>2. r.pc = "bookmark" /\ Carries(p, r) /\ r.dest = d
    BY <1>1 DEF Commands, Carries
  <2>3. UNCHANGED <<layout, trees, records, stray>>
    BY <1>6 DEF CleanupResumes, Within, store
  <2>4. d \in DOMAIN retired => Clean(retired[d].mail)
    BY <1>1, <1>2 DEF HandsOff, TypeOK
  <2> HIDE DEF d, r
  <2>5. ~Trusting(r)
    BY <2>2 DEF Trusting
  <2> QED
    BY <1>3, <2>1, <2>2, <2>3, <2>4, <2>5
<1>7. CASE RetireDone(p)
  <2> DEFINE pc == IF op[p].kind = "migrate" THEN "bookmark" ELSE "install"
             d == IF op[p].drift THEN NoName ELSE op[p].dest
             r == [op[p] EXCEPT !.pc = pc,
                     !.left = IF op[p].kind = "migrate" THEN {} ELSE Parts,
                     !.dest = d]
  <2>1. op' = [op EXCEPT ![p] = r]
    BY <1>1, <1>7 DEF RetireDone, TypeOK
  <2>2. r.pc = pc /\ Carries(p, r) /\ r.dest = d
    BY <1>1 DEF Commands, Carries
  <2>3. UNCHANGED <<layout, trees, records, stray>>
    BY <1>7 DEF RetireDone, Within, store
  <2>4. d \in DOMAIN retired => Clean(retired[d].mail)
    BY <1>1, <1>2, <1>7 DEF RetireDone, HandsOff, Purgeable, TypeOK
  <2>5. pc \in {"bookmark", "install"}
    OBVIOUS
  <2> HIDE DEF pc, d, r
  <2>6. ~Trusting(r)
    BY <2>2, <2>5 DEF Trusting
  <2> QED
    BY <1>3, <2>1, <2>2, <2>3, <2>4, <2>6
<1>8. ASSUME NEW pc \in {"unlock", "purge"}, Purgeable(op[p]),
             op' = [op EXCEPT ![p].pc = pc],
             UNCHANGED <<layout, trees, records, stray>>
      PROVE  StrayInv'
  <2> DEFINE r == [op[p] EXCEPT !.pc = pc]
  <2>1. op' = [op EXCEPT ![p] = r]
    BY <1>1, <1>8 DEF TypeOK
  <2>2. r.pc = pc /\ Carries(p, r) /\ r.dest = op[p].dest
    BY <1>1 DEF Commands, Carries
  <2> HIDE DEF r
  <2>3. ~Trusting(r)
    BY <2>2 DEF Trusting
  <2>4. r.dest \in DOMAIN retired => Clean(retired[r.dest].mail)
    BY <1>1, <1>8, <2>2 DEF HandsOff
  <2> QED
    BY <1>3, <1>8, <2>1, <2>2, <2>3, <2>4
<1>9. CASE InstallBookmark(p)
  <2>1. Purgeable(op[p])
    BY <1>9 DEF InstallBookmark, Purgeable
  <2> QED
    BY <1>8, <1>9, <2>1 DEF InstallBookmark, Within, store
<1>10. CASE Unlock(p)
  <2>1. CASE At(p, "migrate", "unlock") /\ op[p].dest # NoName
    <3>1. Purgeable(op[p])
      BY <2>1 DEF At, Purgeable
    <3> QED
      BY <1>8, <1>10, <2>1, <3>1 DEF Unlock, store
  <2>2. CASE End(p, "ok")
    BY <1>10, <2>2, EndHandsOff DEF Unlock, store
  <2> QED
    BY <1>10, <2>1, <2>2 DEF Unlock
<1> QED
  BY <1>4, <1>5, <1>6, <1>7, <1>9, <1>10

\* A step of p, which holds the lock.
LEMMA LockedStep ==
  ASSUME CutoverInv, StrayInv, NEW p \in Procs, Holds(p),
         \A q \in Procs \ {p} : op'[q] = op[q], stray' = stray,
         HandsOff(p)', CleanStore'
  PROVE  StrayInv'
<1>1. \A q \in Procs \ {p} : ~Holds(q)
  BY DEF CutoverInv, Exclusive
<1>2. \A q \in Procs \ {p} : HandsOff(q)'
  BY <1>1, LeftAlone DEF StrayInv
<1> QED
  BY <1>2 DEF StrayInv, Once

\* The registry names the other tree.
LEMMA StrayFlips ==
  ASSUME CutoverInv, StrayInv, NEW p \in Procs, Flip(p) \/ FlipErrs(p)
  PROVE  StrayInv'
<1>1. /\ TypeOK /\ op[p] \in Commands /\ HandsOff(p) /\ CleanStore
      /\ CommandInv(p) /\ Holds(p) /\ op[p].pc = "flip"
  BY MailType DEF CutoverInv, StrayInv, Flip, MayFlip, FlipErrs, Holds
<1>2. Clean(local.mail)
  <2>1. CASE op[p].kind = "migrate"
    BY <1>1, <2>1 DEF CommandInv, Phase, Forward, CleanStore
  <2>2. CASE op[p].kind = "rollback"
    BY <1>1, <2>2 DEF HandsOff, Trusting
  <2> QED
    BY <1>1, <2>1, <2>2 DEF Commands
<1>3. UNCHANGED <<trees, records, stray>>
  BY DEF Flip, FlipErrs, Within, store
<1>4. CleanStore'
  BY <1>1, <1>2, <1>3 DEF CleanStore, trees, Clean
<1>5. CASE Flip(p)
  <2> DEFINE pc == IF op[p].kind = "migrate" THEN "recheck" ELSE "unmark"
             r == [op[p] EXCEPT !.pc = pc, !.trusted = TRUE]
  <2>1. op' = [op EXCEPT ![p] = r] /\ op'[p] = r
        /\ \A q \in Procs \ {p} : op'[q] = op[q]
    BY <1>1, <1>5 DEF Flip, TypeOK
  <2>2. r.pc = pc /\ Carries(p, r)
    BY <1>1 DEF Commands, Carries
  <2>3. pc \in {"recheck", "unmark"}
    OBVIOUS
  <2> HIDE DEF pc, r
  <2>4. HandsOff(p)'
    BY <1>1, <1>2, <1>3, <2>1, <2>2, <2>3
       DEF HandsOff, Purgeable, Carries, Clean, trees
  <2> QED
    BY <1>1, <1>3, <1>4, <2>1, <2>4, LockedStep
<1>6. CASE FlipErrs(p)
  <2>1. op'[p] = Idle /\ \A q \in Procs \ {p} : op'[q] = op[q]
    BY <1>1, <1>6 DEF FlipErrs, End, TypeOK
  <2> QED
    BY <1>1, <1>3, <1>4, <2>1, IdleHandsOff, LockedStep
<1> QED
  BY <1>5, <1>6

\* A command that is where nothing it does next depends on local mail.
Detached(r) ==
  /\ Clean(r.snap) /\ Clean(r.copy) /\ Clean(r.backup)
  /\ ~Trusting(r) /\ ~Purgeable(r)

\* A step of p that holds the lock, goes on as r and moves nothing away.
LEMMA LockedAs ==
  ASSUME CutoverInv, StrayInv, NEW p \in Procs, Holds(p), NEW r,
         op' = [op EXCEPT ![p] = r], Detached(r),
         stray' = stray, CleanStore'
  PROVE  StrayInv'
<1>1. op'[p] = r /\ \A q \in Procs \ {p} : op'[q] = op[q]
  BY DEF CutoverInv, TypeOK
<1>2. HandsOff(p)'
  BY <1>1 DEF Detached, HandsOff, Purgeable, Trusting, Clean
<1> QED
  BY <1>1, <1>2, LockedStep

LEMMA StrayWrites ==
  ASSUME CutoverInv, StrayInv, NEW p \in Procs,
         \/ ImportRecord(p) \/ WriteRecord(p) \/ Rebind(p) \/ Shelve(p)
         \/ Withdraw(p) \/ PublishCentral(p) \/ BeginForward(p) \/ Install(p)
  PROVE  StrayInv'
<1>1. /\ TypeOK /\ op[p] \in Commands /\ HandsOff(p) /\ CleanStore
      /\ CommandInv(p) /\ Holds(p)
  BY MailType DEF CutoverInv, StrayInv, Holds, ImportRecord, NeedsImport,
     WriteRecord, Rebind, Shelve, Withdraw, PublishCentral, BeginForward,
     Install, At
<1>2. Clean(op[p].snap) /\ Clean(op[p].copy) /\ Clean(op[p].backup)
  BY <1>1 DEF HandsOff
<1>3. ASSUME NEW i, NEW rec, Clean(rec.mail), records' = With(records, i, rec),
             NEW pc \in {"rebind", "shelve", "stage"},
             op' = [op EXCEPT ![p].pc = pc],
             UNCHANGED <<layout, trees, stray>>
      PROVE  StrayInv'
  <2> DEFINE r == [op[p] EXCEPT !.pc = pc]
  <2>1. op' = [op EXCEPT ![p] = r]
    BY <1>1, <1>3 DEF TypeOK
  <2>2. r.pc = pc /\ r.copy = op[p].copy /\ r.snap = op[p].snap
        /\ r.backup = op[p].backup
    BY <1>1 DEF Commands
  <2> HIDE DEF r
  <2>3. \A j \in DOMAIN records' : Clean(records'[j].mail)
    BY <1>1, <1>3 DEF With, CleanStore
  <2>4. CleanStore'
    BY <1>1, <1>3, <2>3 DEF CleanStore, trees, Clean
  <2> QED
    <3>1. Detached(r)
      BY <1>2, <2>2 DEF Detached, Trusting, Purgeable
    <3> QED
      BY <1>1, <1>3, <2>1, <2>4, <3>1, LockedAs
<1>4. CASE ImportRecord(p)
  <2>1. PICK i, rec : Clean(rec.mail) /\ records' = With(records, i, rec)
    BY <1>4, CleanNone DEF ImportRecord
  <2> QED
    BY <1>3, <1>4, <2>1 DEF ImportRecord, Within
<1>5. CASE WriteRecord(p)
  <2> DEFINE rec == [kind |-> op[p].kind, mail |-> op[p].snap,
                     source |-> op[p].base]
  <2>1. Clean(rec.mail) /\ records' = With(records, op[p].id, rec)
    BY <1>2, <1>5 DEF WriteRecord
  <2> HIDE DEF rec
  <2> QED
    BY <1>3, <1>5, <2>1 DEF WriteRecord, Within
<1>6. ASSUME NEW pc \in {"begin", "stage", "unlock"},
             pc = "unlock" => op[p].kind = "rollback",
             op' = [op EXCEPT ![p].pc = pc],
             central' # NoGeneration => Clean(central'.mail),
             UNCHANGED <<layout, local, retired, records, stray>>
      PROVE  StrayInv'
  <2> DEFINE r == [op[p] EXCEPT !.pc = pc]
  <2>1. op' = [op EXCEPT ![p] = r]
    BY <1>1, <1>6 DEF TypeOK
  <2>2. r.pc = pc /\ r.copy = op[p].copy /\ r.snap = op[p].snap
        /\ r.backup = op[p].backup /\ r.kind = op[p].kind
    BY <1>1 DEF Commands
  <2> HIDE DEF r
  <2>3. CleanStore'
    BY <1>1, <1>6 DEF CleanStore, Clean
  <2> QED
    <3>1. Detached(r)
      BY <1>2, <1>6, <2>2 DEF Detached, Trusting, Purgeable
    <3> QED
      BY <1>1, <1>6, <2>1, <2>3, <3>1, LockedAs
<1>7. CASE Rebind(p)
  <2>1. central # NoGeneration /\ central \in Generations
    BY <1>1, <1>7 DEF Rebind, CommandInv, Imported, TypeOK
  <2>2. central'.mail = central.mail
    BY <1>7, <2>1 DEF Rebind, Generations
  <2>3. Clean(central'.mail)
    BY <1>1, <2>1, <2>2 DEF CleanStore
  <2> QED
    BY <1>6, <1>7, <2>3 DEF Rebind, Within, store
<1>8. CASE Shelve(p)
  BY <1>6, <1>8 DEF Shelve, SetAside, Within
<1>9. CASE Withdraw(p)
  <2>1. op[p].kind = "rollback"
    BY <1>1, <1>9 DEF Withdraw, CommandInv, Phase, Commands
  <2> QED
    BY <1>6, <1>9, <2>1 DEF Withdraw, SetAside, Within
<1>10. CASE PublishCentral(p)
  <2> DEFINE r == [op[p] EXCEPT !.base = op[p].id, !.pc = "prove"]
  <2>1. op' = [op EXCEPT ![p] = r]
    BY <1>1, <1>10 DEF PublishCentral, TypeOK
  <2>2. r.pc = "prove" /\ r.copy = op[p].copy /\ r.snap = op[p].snap
        /\ r.backup = op[p].backup /\ r.kind = op[p].kind
    BY <1>1 DEF Commands
  <2> HIDE DEF r
  <2>3. central'.mail = op[p].copy
        /\ UNCHANGED <<layout, local, retired, records, stray>>
    BY <1>10 DEF PublishCentral, Within, store
  <2>4. CleanStore'
    BY <1>1, <1>2, <2>3 DEF CleanStore, Clean
  <2>5. op[p].kind = "migrate"
    BY <1>1, <1>10 DEF PublishCentral, CommandInv, Phase, Commands
  <2> QED
    <3>1. Detached(r)
      BY <1>2, <2>2, <2>5 DEF Detached, Trusting, Purgeable
    <3> QED
      BY <1>1, <2>1, <2>3, <2>4, <3>1, LockedAs
<1>11. CASE BeginForward(p)
  <2> DEFINE reusable == /\ central # NoGeneration
                         /\ records[central.op].mail = local.mail
             r == [op[p] EXCEPT !.id = lastId + 1,
                          !.snap = local.mail,
                          !.base = IF central = NoGeneration THEN 0
                                      ELSE central.op,
                          !.stale = central # NoGeneration /\ ~reusable,
                          !.pc = IF reusable THEN "prove" ELSE "backup"]
  <2>1. op' = [op EXCEPT ![p] = r] /\ op[p].kind = "migrate"
    BY <1>1, <1>11 DEF BeginForward, At, TypeOK
  <2>2. r.pc \in {"prove", "backup"} /\ r.copy = op[p].copy
        /\ r.snap = local.mail /\ r.backup = op[p].backup
        /\ r.kind = op[p].kind
    BY <1>1 DEF Commands
  <2> HIDE DEF r
  <2>3. /\ Clean(local.mail) /\ local'.mail = local.mail
        /\ UNCHANGED <<layout, central, retired, records, stray>>
    BY <1>1, <1>11, MailType DEF BeginForward, Within, store, CleanStore, Trees
  <2>4. CleanStore'
    BY <1>1, <2>3 DEF CleanStore, Clean
  <2> QED
    <3>1. Detached(r)
      BY <1>2, <2>1, <2>2, <2>3 DEF Detached, Trusting, Purgeable
    <3> QED
      BY <1>1, <2>1, <2>3, <2>4, <3>1, LockedAs
<1>12. CASE Install(p)
  <2> DEFINE r == [op[p] EXCEPT !.left = @ \ {NextPart(p)}]
  <2>1. op' = [op EXCEPT ![p] = r] /\ op[p].pc = "install"
        /\ UNCHANGED <<layout, central, retired, records, stray>>
    BY <1>1, <1>12 DEF Install, PartDone, Within, store, TypeOK
  <2>2. r.pc = "install" /\ r.copy = op[p].copy
        /\ r.snap = op[p].snap /\ r.backup = op[p].backup
    BY <1>1, <2>1 DEF Commands
  <2> HIDE DEF r
  <2>3. layout = "central"
    BY <1>1, <2>1 DEF CommandInv, Phase, Backward, Commands
  <2>4. CleanStore'
    BY <1>1, <2>1, <2>3 DEF CleanStore, Clean
  <2> QED
    <3>1. Detached(r)
      BY <1>2, <2>2 DEF Detached, Trusting, Purgeable
    <3> QED
      BY <1>1, <2>1, <2>4, <3>1, LockedAs
<1> QED
  BY <1>4, <1>5, <1>7, <1>8, <1>9, <1>10, <1>11, <1>12

\* A directory for the local tree, with nothing in it.
LEMMA StrayMakes ==
  ASSUME CutoverInv, StrayInv, NEW p \in Procs, Cleanup(p) \/ Displace(p)
  PROVE  StrayInv'
<1>1. /\ TypeOK /\ op[p] \in Commands /\ HandsOff(p) /\ CleanStore
      /\ CommandInv(p) /\ Holds(p)
  BY MailType DEF CutoverInv, StrayInv, Holds, Cleanup, Displace
<1>2. PICK drift \in BOOLEAN :
        /\ MakeRetired(p, drift)
        /\ ~drift => op[p].pc = "assessed" /\ ~op[p].drift
  BY <1>1 DEF Cleanup, Displace, Commands
<1> DEFINE n == RetiredName(op[p].id)
           r == [op[p] EXCEPT !.pc = "retire", !.drift = drift,
                              !.left = local.parts, !.dest = n]
<1>3. op' = [op EXCEPT ![p] = r] /\ op'[p] = r
      /\ \A q \in Procs \ {p} : op'[q] = op[q]
  BY <1>1, <1>2 DEF MakeRetired, TypeOK
<1>4. r.pc = "retire" /\ Carries(p, r) /\ r.drift = drift /\ r.dest = n
  BY <1>1 DEF Commands, Carries
<1>5. retired' = With(retired, n, NoTree)
      /\ UNCHANGED <<layout, local, central, records, stray>>
  BY <1>2 DEF MakeRetired, Within, store
<1>6. ~drift => Clean(local.mail)
  BY <1>1, <1>2 DEF HandsOff, Trusting
<1> HIDE DEF n, r
<1>7. retired'[n].mail = NoMail
  BY <1>5 DEF With, NoTree
<1>8. Clean(retired[op[p].dest].mail)'
  <2>1. retired'[op'[p].dest].mail = NoMail
    BY <1>3, <1>4, <1>7
  <2> QED
    BY <2>1, CleanNone DEF Clean
<1>9. Clean(op[p].snap)' /\ Clean(op[p].copy)' /\ Clean(op[p].backup)'
  <2>1. Clean(op[p].snap) /\ Clean(op[p].copy) /\ Clean(op[p].backup)
    BY <1>1 DEF HandsOff
  <2>2. /\ op'[p].snap = op[p].snap /\ op'[p].copy = op[p].copy
        /\ op'[p].backup = op[p].backup
    BY <1>3, <1>4 DEF Carries
  <2> QED
    BY <1>5, <2>1, <2>2 DEF Clean
<1>10. Trusting(op[p])' => Clean(local.mail)'
  <2>1. op'[p].pc = "retire" /\ op'[p].drift = drift
    BY <1>3, <1>4
  <2>2. CASE ~drift
    <3>1. Clean(local.mail)
      BY <1>6, <2>2
    <3> QED
      BY <1>5, <3>1 DEF Clean
  <2>3. CASE drift
    BY <2>1, <2>3 DEF Trusting
  <2> QED
    BY <2>2, <2>3
<1>11. HandsOff(p)'
  BY <1>8, <1>9, <1>10 DEF HandsOff
<1>12. CleanStore'
  BY <1>1, <1>5 DEF CleanStore, Clean
<1> QED
  BY <1>1, <1>3, <1>5, <1>11, <1>12, LockedStep

\* A part of the local tree goes into the retired one.
LEMMA StrayRetires ==
  ASSUME CutoverInv, StrayInv, NEW p \in Procs, Retire(p)
  PROVE  StrayInv'
<1>1. /\ TypeOK /\ op[p] \in Commands /\ HandsOff(p) /\ CleanStore
      /\ Holds(p) /\ op[p].pc = "retire" /\ CommandInv(p)
  BY MailType DEF CutoverInv, StrayInv, Holds, Retire
<1> DEFINE d == op[p].dest
           r == [op[p] EXCEPT !.left = @ \ {NextPart(p)}]
<1>2. /\ op' = [op EXCEPT ![p] = r] /\ op'[p] = r /\ d \in DOMAIN retired
      /\ \A q \in Procs \ {p} : op'[q] = op[q]
      /\ UNCHANGED <<layout, central, records, stray>>
  BY <1>1 DEF Retire, PartDone, Within, store, TypeOK
<1>3. /\ r.pc = "retire" /\ Carries(p, r) /\ r.dest = d
      /\ r.drift = op[p].drift /\ r.kind = op[p].kind
  BY <1>1 DEF Commands, Carries
<1>4. layout = "central"
  BY <1>1 DEF CommandInv, Phase, Backward, Commands
<1>5. /\ retired'[d].mail = IF NextPart(p) = "inbox" THEN local.mail
                            ELSE retired[d].mail
      /\ local'.mail = IF NextPart(p) = "inbox" THEN NoMail ELSE local.mail
  <2>1. retired[d] \in Trees
    BY <1>1, <1>2 DEF TypeOK
  <2> QED
    BY <1>2, <2>1 DEF Retire, Trees
<1> HIDE DEF r
<1>6. ASSUME ~op[p].drift
      PROVE  Clean(local.mail)' /\ Clean(retired[op[p].dest].mail)'
  <2>1. Clean(local.mail) /\ Clean(retired[d].mail)
    BY <1>1, <1>2, <1>6 DEF HandsOff, Trusting, Purgeable
  <2>2. retired'[op'[p].dest].mail = retired'[d].mail
    BY <1>2, <1>3
  <2> QED
    BY <1>2, <1>5, <2>1, <2>2, CleanNone DEF Clean
<1>7. HandsOff(p)'
  <2>1. Clean(op[p].snap)' /\ Clean(op[p].copy)' /\ Clean(op[p].backup)'
    <3>1. Clean(op[p].snap) /\ Clean(op[p].copy) /\ Clean(op[p].backup)
      BY <1>1 DEF HandsOff
    <3>2. /\ op'[p].snap = op[p].snap /\ op'[p].copy = op[p].copy
          /\ op'[p].backup = op[p].backup
      BY <1>2, <1>3 DEF Carries
    <3> QED
      BY <1>2, <3>1, <3>2 DEF Clean
  <2>2. /\ op'[p].pc = "retire" /\ op'[p].dest = d
        /\ op'[p].drift = op[p].drift
    BY <1>2, <1>3
  <2>3. CASE ~op[p].drift
    <3>1. Clean(local.mail)' /\ Clean(retired[op[p].dest].mail)'
      BY <1>6, <2>3
    <3> QED
      BY <2>1, <3>1 DEF HandsOff
  <2>4. CASE op[p].drift
    BY <2>1, <2>2, <2>4 DEF HandsOff, Trusting, Purgeable
  <2> QED
    BY <2>3, <2>4
<1>8. CleanStore'
  BY <1>1, <1>2, <1>4 DEF CleanStore, Clean
<1> QED
  BY <1>1, <1>2, <1>7, <1>8, LockedStep

\* The purge, which no lock protects.
LEMMA StrayPurges ==
  ASSUME CutoverInv, StrayInv, NEW p \in Procs, Purge(p) \/ PurgeDone(p)
  PROVE  StrayInv'
<1>1. /\ TypeOK /\ op[p] \in Commands /\ CleanStore /\ op[p].pc = "purge"
  BY MailType DEF CutoverInv, StrayInv, Purge, PurgeDone
<1> DEFINE d == op[p].dest
<1>2. UNCHANGED <<layout, local, central, records, stray>>
  BY DEF Purge, PurgeDone, Within, store
<1>3. \A k \in DOMAIN retired' :
        /\ k \in DOMAIN retired
        /\ \/ retired'[k] = retired[k]
           \/ retired'[k].mail = NoMail
           \/ retired'[k].mail = retired[k].mail
  <2>1. CASE Purge(p)
    BY <2>1 DEF Purge
  <2>2. CASE PurgeDone(p)
    BY <2>2 DEF PurgeDone, Without
  <2> QED
    BY <2>1, <2>2
<1>4. ASSUME NEW q \in Procs PROVE HandsOff(q)'
  <2>1. CASE op'[q] = Idle
    BY <2>1, IdleHandsOff
  <2>2. CASE op'[q] # Idle
    <3>1. HandsOff(q)
      BY DEF StrayInv
    <3>2. op'[q].pc = op[q].pc /\ op'[q].kind = op[q].kind
          /\ op'[q].snap = op[q].snap /\ op'[q].copy = op[q].copy
          /\ op'[q].backup = op[q].backup /\ op'[q].drift = op[q].drift
          /\ op'[q].trusted = op[q].trusted /\ op'[q].dest = op[q].dest
      <4>1. op[q] \in Commands /\ op \in [Procs -> Commands]
        BY <1>1 DEF TypeOK
      <4>2. op'[q] = op[q] \/ op'[q] = [op[q] EXCEPT !.inside = TRUE]
        BY <2>2, <4>1 DEF Purge, PurgeDone
      <4> QED
        BY <4>1, <4>2 DEF Commands
    <3>3. /\ Trusting(op[q])' <=> Trusting(op[q])
          /\ Purgeable(op[q])' <=> Purgeable(op[q])
      BY <3>2 DEF Trusting, Purgeable
    <3>4. op[q].dest \in DOMAIN retired'
          /\ Clean(retired[op[q].dest].mail) =>
            Clean(retired[op[q].dest].mail)'
      BY <1>2, <1>3, <3>2, CleanNone DEF Clean
    <3>5. /\ Clean(op[q].snap)' /\ Clean(op[q].copy)' /\ Clean(op[q].backup)'
      BY <1>2, <3>1, <3>2 DEF HandsOff, Clean
    <3>6. Clean(local.mail) => Clean(local.mail)'
      BY <1>2 DEF Clean
    <3> QED
      BY <1>3, <3>1, <3>2, <3>3, <3>4, <3>5, <3>6 DEF HandsOff
  <2> QED
    BY <2>1, <2>2
<1>5. Once' /\ CleanStore'
  BY <1>1, <1>2 DEF StrayInv, Once, CleanStore, Clean
<1> QED
  BY <1>4, <1>5 DEF StrayInv

\* The mail tools.
LEMMA StrayMails ==
  ASSUME CutoverInv, StrayInv,
         \/ \E m \in Messages : Deliver(m)
         \/ \E m \in Mail : Read(m)
         \/ DiscardArchive
  PROVE  StrayInv'
<1>1. /\ TypeOK /\ CleanStore /\ Once /\ Unlocked
      /\ op' = op /\ retired' = retired /\ records' = records
      /\ layout' = layout /\ stray' = stray
  BY DEF CutoverInv, StrayInv, Deliver, Read, InAuthority, DiscardArchive,
     trees, store
<1>2. \A q \in Procs : HandsOff(q)'
  BY <1>1, LeftAlone DEF StrayInv, Unlocked
<1>3. ASSUME NEW m \in Mail, NEW from, NEW to, InAuthority(m, from, to),
             m \notin Strays \/ from # "absent"
      PROVE  CleanStore'
  <2>1. CASE layout = "local"
    <3>1. central' = central /\ local.mail[m] = from
          /\ local'.mail = [local.mail EXCEPT ![m] = to]
      BY <1>3, <2>1, MailType, <1>1 DEF InAuthority, Trees
    <3>2. local.mail \in Contents
      BY <1>1, MailType
    <3>3. Clean(local.mail)'
      BY <1>1, <1>3, <2>1, <3>1, <3>2 DEF CleanStore, Clean, Contents, Mail
    <3> QED
      BY <1>1, <3>1, <3>3 DEF CleanStore, Clean
  <2>2. CASE layout # "local"
    <3>1. central' = [central EXCEPT !.mail[m] = to] /\ local' = local
          /\ central.mail[m] = from
      BY <1>3, <2>2 DEF InAuthority
    <3>2. central # NoGeneration /\ central \in Generations
      BY <1>1, <2>2 DEF CutoverInv, AuthorityWhole, TypeOK
    <3>3. central.mail \in Contents
          /\ central'.mail = [central.mail EXCEPT ![m] = to]
      BY <3>1, <3>2 DEF Generations
    <3>4. Clean(central.mail)'
      BY <1>1, <1>3, <3>1, <3>2, <3>3 DEF CleanStore, Clean, Contents, Mail
    <3> QED
      BY <1>1, <2>2, <3>1, <3>4 DEF CleanStore, Clean
  <2> QED
    BY <2>1, <2>2
<1>4. ASSUME DiscardArchive PROVE CleanStore'
  BY <1>1, <1>4 DEF DiscardArchive, trees, CleanStore, Clean
<1>5. ASSUME NEW m \in Messages, Deliver(m) PROVE CleanStore'
  <2>1. m \in Mail /\ m \notin Strays
    BY MigrationAssumption DEF MigrationAssumption, Mail
  <2> QED
    BY <1>3, <1>5, <2>1 DEF Deliver
<1>6. ASSUME NEW m \in Mail, Read(m) PROVE CleanStore'
  BY <1>3, <1>6 DEF Read
<1> QED
  BY <1>1, <1>2, <1>4, <1>5, <1>6 DEF StrayInv, Once

\* The hand.
LEMMA StrayHand ==
  ASSUME CutoverInv, StrayInv, NEW m \in Strays, WriteByHand(m)
  PROVE  StrayInv'
<1> DEFINE how == IF Unlocked THEN "between" ELSE "during"
<1>1. /\ TypeOK /\ CleanStore /\ Once
      /\ UNCHANGED <<op, layout, central, retired, records>>
      /\ layout = "central" /\ stray' = stray \cup {<<m, how>>}
      /\ local'.mail = [local.mail EXCEPT ![m] = "new"]
      /\ \A w \in stray : w[1] # m
  BY DEF CutoverInv, StrayInv, WriteByHand, store
<1> HIDE DEF how
<1>2. Once'
  BY <1>1 DEF Once
<1>3. CleanStore'
  BY <1>1 DEF CleanStore, Clean
<1>4. ASSUME NEW q \in Procs PROVE HandsOff(q)'
  <2>1. CASE ~Holds(q)
    BY <1>1, <2>1, LeftAlone DEF StrayInv
  <2>2. CASE Holds(q)
    <3>1. stray' = stray \cup {<<m, "during">>} /\ local.mail \in Contents
      BY <1>1, <2>2, MailType DEF Unlocked, how
    <3>2. Clean(local.mail) => Clean(local.mail)'
      BY <1>1, <3>1 DEF Clean, Contents, Mail
    <3>3. HandsOff(q)
      BY DEF StrayInv
    <3>4. /\ Clean(op[q].snap)' /\ Clean(op[q].copy)' /\ Clean(op[q].backup)'
      BY <1>1, <3>3 DEF HandsOff, Clean
    <3>5. Clean(retired[op[q].dest].mail) => Clean(retired[op[q].dest].mail)'
      BY <1>1 DEF Clean
    <3> QED
      BY <1>1, <3>2, <3>3, <3>4, <3>5 DEF HandsOff, Trusting, Purgeable
  <2> QED
    BY <2>1, <2>2
<1> QED
  BY <1>2, <1>3, <1>4 DEF StrayInv

LEMMA StrayInit == Init => StrayInv
<1> SUFFICES ASSUME Init PROVE StrayInv
  OBVIOUS
<1>1. \A p \in Procs : HandsOff(p)
  BY CleanNone DEF Init, HandsOff, Purgeable, Trusting, Idle
<1>2. CleanStore /\ Once
  BY CleanNone DEF Init, CleanStore, Once, Nothing, NoTree
<1> QED
  BY <1>1, <1>2 DEF StrayInv

LEMMA StrayStep == DoneInv /\ StrayInv /\ [Next]_vars => StrayInv'
<1> SUFFICES ASSUME DoneInv, StrayInv, [Next]_vars PROVE StrayInv'
  OBVIOUS
<1>1. CutoverInv /\ Tidy
  BY DEF DoneInv
<1>2. CASE UNCHANGED vars
  BY <1>2 DEF vars, trees, store, StrayInv, Once, CleanStore, HandsOff,
     Trusting, Purgeable, Clean
<1>3. ASSUME NEW p \in Procs, Command(p) \/ Refuse(p) \/ Step(p) \/ Fault(p)
      PROVE  StrayInv'
  BY <1>1, <1>3, StrayEnds, StrayReads, StrayCleanups, StrayFlips,
     StrayWrites, StrayMakes, StrayRetires, StrayPurges DEF Step, Fault
<1> QED
  BY <1>1, <1>2, <1>3, StrayMails, StrayHand DEF Next

\* A command that gives the lock back spares the mail that was written by hand
\* before it, whatever it was copied with, moved to or found beside.
LEMMA Spared == DoneInv /\ StrayInv => SettledSpared
<1> SUFFICES ASSUME DoneInv, StrayInv, NEW p \in Procs,
                    At(p, "migrate", "unlock"), NEW m \in Settled
             PROVE  Retired(op[p].dest).mail[m] = "absent"
  BY DEF SettledSpared
<1>1. m \in Strays /\ <<m, "during">> \notin stray
  <2>1. <<m, "between">>[1] = <<m, "during">>[1]
        /\ <<m, "between">> # <<m, "during">>
    OBVIOUS
  <2> QED
    BY <2>1 DEF Settled, StrayInv, Once
<1>2. CASE op[p].dest \in DOMAIN retired
  BY <1>1, <1>2 DEF At, StrayInv, HandsOff, Purgeable, Clean, Retired
<1>3. CASE op[p].dest \notin DOMAIN retired
  BY <1>1, <1>3 DEF Retired, NoTree, NoMail, Mail
<1> QED
  BY <1>2, <1>3

LEMMA MailboxPart == MCSpec => Spec
<1>1. MCInit => Init
  BY DEF MCInit
<1>2. [MCNext]_<<part, vars, registryVars, installVars, prefixVars>>
        => [Next]_vars
  BY DEF MCNext
<1> QED
  BY <1>1, <1>2, PTL DEF MCSpec, Spec

\* However commands overlap, fail, are killed and rerun, and whenever a hand
\* writes into the local tree: the registry names a complete mailbox, a command
\* that gets to its end leaves nothing half done, and when it gives the lock
\* back it is not about to purge mail written by hand between two commands.
THEOREM CutoverIsWhole == MCSpec => []CutoverWhole
<1>1. Spec => []DoneInv
  BY DoneInit, DoneStep, MigrationAssumption, PTL DEF Spec
<1>2. Init => StrayInv
  BY StrayInit
<1>3. DoneInv /\ StrayInv /\ [Next]_vars => StrayInv'
  BY StrayStep
<1>4. Spec => []StrayInv
  BY <1>1, <1>2, <1>3, PTL DEF Spec
<1>5. TypeOK /\ AuthorityWhole /\ NothingHalfDone /\ SettledSpared
        => CutoverWhole
  BY DEF CutoverWhole
<1> QED
  BY <1>1, <1>4, <1>5, Spared, TypeCorrect, AuthoritySafe,
     NothingLeftHalfDone, MailboxPart, PTL

-----------------------------------------------------------------------------
(* The upgrade of the registry, for any number of roots, commands, kills   *)
(* and edits.  The lock makes one command the only one that is under way;  *)
(* its plan names every root of the old file once; a root that is no       *)
(* longer left to mark has the marker that is planned for it; and once the *)
(* new file is there nothing that it was made of can change.               *)

\* Each root of the old file has an identity of its own in the plan.
UpPlanExact(p) ==
  /\ \A r \in Roots : (p[r] # none) <=> (r \in legacy)
  /\ \A q, r \in legacy : p[q] = p[r] => q = r

UpCommandInv(c) ==
  /\ up[c].pc # "idle" => lock = c
  /\ up[c].pc \in {"plan", "backup", "mark"} => schema = "v1"
  /\ up[c].pc \in {"backup", "mark"} =>
       /\ UpPlanExact(up[c].plan)
       /\ \A r \in legacy \ up[c].left : mark[r] = up[c].plan[r]
  /\ up[c].pc = "mark" => backup = legacy

UpgradeInv == Up!TypeOK /\ Up!UpgradeExact /\ \A c \in Procs : UpCommandInv(c)

UpStates == [pc: {"idle", "plan", "backup", "mark", "sync"},
             plan: [Roots -> Uuids \cup {none}], left: SUBSET Roots]

LEMMA UpIdleType == Up!Idle \in UpStates
BY DEF Up!Idle, Up!NoRows, UpStates

LEMMA UpInitInv == Up!UpgradeAssumption /\ Up!Init => UpgradeInv
<1> SUFFICES ASSUME Up!UpgradeAssumption, Up!Init PROVE UpgradeInv
  OBVIOUS
<1>1. (CHOOSE u \in Uuids : TRUE) \in Uuids
  BY DEF Up!UpgradeAssumption
<1>2. mark \in [Roots -> Uuids \cup {none}]
  BY <1>1 DEF Up!Init
<1>3. Up!TypeOK
  BY <1>2, UpIdleType DEF Up!Init, Up!TypeOK, Up!UpgradeAssumption, Up!NoRows,
     UpStates
<1>4. \A c \in Procs : UpCommandInv(c)
  BY DEF Up!Init, Up!Idle, UpCommandInv
<1> QED
  BY <1>3, <1>4 DEF Up!Init, UpgradeInv, Up!UpgradeExact

\* A plan gives every root of the old file, and no other, a UUID.
LEMMA UpPlansExact ==
  ASSUME Up!UpgradeAssumption, Up!TypeOK, NEW p \in Up!Plans
  PROVE  p \in [Roots -> Uuids \cup {none}] /\ UpPlanExact(p)
<1> DEFINE new == {r \in legacy : mark[r] = none}
           used == {mark[r] : r \in Roots}
<1>1. PICK f \in [new -> Uuids \ used] :
        p = [r \in Roots |-> IF r \notin legacy THEN none
                             ELSE IF r \in new THEN f[r] ELSE mark[r]]
  BY DEF Up!Plans
<1>2. \A q, r \in legacy : p[q] = p[r] => q = r
  BY DEF Up!Plans
<1>3. \A r \in legacy : r \in Roots /\ mark[r] \in Uuids \cup {none}
  BY DEF Up!TypeOK
<1>4. \A r \in legacy : p[r] \in Uuids
  BY <1>1, <1>3
<1>5. \A r \in Roots \ legacy : p[r] = none
  BY <1>1
<1>6. p \in [Roots -> Uuids \cup {none}]
  BY <1>1, <1>4, <1>5
<1> QED
  BY <1>2, <1>4, <1>5, <1>6 DEF UpPlanExact, Up!UpgradeAssumption

\* Only the command that holds the lock is under way.
LEMMA UpOthersIdle ==
  ASSUME Up!UpgradeAssumption, UpgradeInv, NEW c \in Procs, NEW d \in Procs,
         c # d,
         lock = c \/ lock = none
  PROVE  up[d].pc = "idle"
BY DEF UpgradeInv, UpCommandInv, Up!UpgradeAssumption

\* A step by c that keeps c's own part of the invariant keeps all of it.
LEMMA UpByOne ==
  ASSUME Up!UpgradeAssumption, UpgradeInv, NEW c \in Procs, lock = c
         \/ lock = none,
         NEW r \in UpStates, up' = [up EXCEPT ![c] = r],
         Up!TypeOK', Up!UpgradeExact', UpCommandInv(c)'
  PROVE  UpgradeInv'
<1>1. ASSUME NEW d \in Procs, d # c PROVE UpCommandInv(d)'
  <2>1. up'[d].pc = "idle"
    BY <1>1, UpOthersIdle DEF UpgradeInv, Up!TypeOK
  <2> QED
    BY <2>1 DEF UpCommandInv
<1> QED
  BY <1>1 DEF UpgradeInv

\* The end of a command, however it ends.
LEMMA UpEndInv ==
  ASSUME Up!UpgradeAssumption, UpgradeInv, NEW c \in Procs, up[c].pc # "idle",
         lock' = none, up' = [up EXCEPT ![c] = Up!Idle],
           upFaults' \in 0..UpFaults,
         UNCHANGED <<schema, legacy, rows, backup, mark, present, upEdits>>
  PROVE  UpgradeInv'
<1>1. Up!TypeOK'
  BY UpIdleType DEF UpgradeInv, Up!TypeOK, UpStates
<1>2. UpCommandInv(c)'
  BY DEF UpgradeInv, Up!TypeOK, UpCommandInv, Up!Idle
<1>3. Up!UpgradeExact' /\ lock = c
  BY DEF UpgradeInv, Up!UpgradeExact, UpCommandInv
<1> QED
  BY <1>1, <1>2, <1>3, UpIdleType, UpByOne

LEMMA UpOutsideInv ==
  ASSUME Up!UpgradeAssumption, UpgradeInv, NEW r \in Roots,
         Up!LegacyAdd(r) \/ Up!Unmount(r) \/ Up!Mount(r)
  PROVE  UpgradeInv'
<1>1. upEdits' \in 0..UpEdits
  BY DEF Up!LegacyAdd, Up!Unmount, Up!Mount, UpgradeInv, Up!TypeOK,
     Up!UpgradeAssumption
<1>2. CASE Up!LegacyAdd(r)
  <2>1. Up!TypeOK' /\ Up!UpgradeExact'
    BY <1>1, <1>2 DEF Up!LegacyAdd, UpgradeInv, Up!TypeOK, Up!UpgradeExact
  <2>2. \A c \in Procs : up[c].pc = "idle" /\ up' = up
    BY <1>2 DEF Up!LegacyAdd, UpgradeInv, UpCommandInv, Up!UpgradeAssumption
  <2>3. \A c \in Procs : UpCommandInv(c)'
    BY <2>2 DEF UpCommandInv
  <2> QED
    BY <2>1, <2>3 DEF UpgradeInv
<1>3. CASE Up!Unmount(r) \/ Up!Mount(r)
  <2>1. Up!TypeOK'
    BY <1>1, <1>3 DEF Up!Unmount, Up!Mount, UpgradeInv, Up!TypeOK
  <2>2. UNCHANGED <<schema, legacy, rows, backup, mark, lock, up>>
    BY <1>3 DEF Up!Unmount, Up!Mount
  <2> QED
    BY <2>1, <2>2 DEF UpgradeInv, Up!UpgradeExact, UpCommandInv, UpPlanExact
<1> QED
  BY <1>2, <1>3

LEMMA UpStepInv ==
  ASSUME Up!UpgradeAssumption, UpgradeInv, NEW c \in Procs, Up!Step(c)
         \/ Up!Die(c)
  PROVE  UpgradeInv'
<1>1. Up!TypeOK /\ Up!UpgradeExact /\ UpCommandInv(c) /\ up[c] \in UpStates
  BY DEF UpgradeInv, Up!TypeOK, UpStates
<1>2. CASE Up!Acquire(c)
  <2> DEFINE r == [up[c] EXCEPT !.pc = "plan"]
  <2>1. r \in UpStates /\ up' = [up EXCEPT ![c] = r] /\ up'[c] = r
      /\ r.pc = "plan"
    BY <1>1, <1>2 DEF Up!Acquire, UpStates, Up!TypeOK
  <2> HIDE DEF r
  <2>2. Up!TypeOK'
    BY <1>1, <1>2, <2>1 DEF Up!Acquire, Up!Kept, Up!TypeOK, UpStates
  <2>3. Up!UpgradeExact' /\ UpCommandInv(c)'
    BY <1>1, <1>2, <2>1 DEF Up!Acquire, Up!Kept, Up!UpgradeExact, UpCommandInv
  <2> QED
    BY <1>2, <2>1, <2>2, <2>3, UpByOne DEF Up!Acquire
<1>3. CASE Up!Plan(c)
  <2>1. PICK p \in Up!Plans : up'
      = [up EXCEPT ![c] = [pc |-> "backup", plan |-> p, left |-> legacy]]
    BY <1>3 DEF Up!Plan
  <2> DEFINE r == [pc |-> "backup", plan |-> p, left |-> legacy]
  <2>2. p \in [Roots -> Uuids \cup {none}] /\ UpPlanExact(p)
    BY <1>1, UpPlansExact
  <2>3. r \in UpStates /\ up'[c] = r /\ r.pc = "backup" /\ r.plan = p
      /\ r.left = legacy
    BY <1>1, <2>1, <2>2 DEF UpStates, Up!TypeOK
  <2>4. up' = [up EXCEPT ![c] = r]
    BY <2>1
  <2> HIDE DEF r
  <2>5. Up!TypeOK'
    BY <1>1, <1>3, <2>3, <2>4 DEF Up!Plan, Up!TypeOK, UpStates
  <2>6. Up!UpgradeExact'
    BY <1>1, <1>3 DEF Up!Plan, Up!UpgradeExact
  <2>7. UpCommandInv(c)'
    BY <1>1, <1>3, <2>2, <2>3 DEF Up!Plan, UpCommandInv, UpPlanExact
  <2> QED
    BY <1>1, <1>3, <2>3, <2>4, <2>5, <2>6, <2>7, UpByOne DEF Up!Plan,
       UpCommandInv
<1>4. CASE Up!Backup(c)
  <2> DEFINE r == [up[c] EXCEPT !.pc = "mark"]
  <2>1. /\ r \in UpStates /\ up' = [up EXCEPT ![c] = r] /\ up'[c] = r
        /\ r.pc = "mark" /\ r.plan = up[c].plan /\ r.left = up[c].left
    BY <1>1, <1>4 DEF Up!Backup, UpStates, Up!TypeOK
  <2> HIDE DEF r
  <2>2. Up!TypeOK'
    BY <1>1, <1>4, <2>1 DEF Up!Backup, Up!TypeOK, UpStates
  <2>3. Up!UpgradeExact' /\ lock = c
    BY <1>1, <1>4 DEF Up!Backup, Up!UpgradeExact, UpCommandInv
  <2>4. UpCommandInv(c)'
    BY <1>1, <1>4, <2>1 DEF Up!Backup, UpCommandInv, UpPlanExact
  <2> QED
    BY <2>1, <2>2, <2>3, <2>4, UpByOne
<1>5. CASE Up!Mark(c)
  <2>1. PICK s \in up[c].left \cap present :
          /\ mark[s] \in {none, up[c].plan[s]}
          /\ mark' = [mark EXCEPT ![s] = up[c].plan[s]]
          /\ up' = [up EXCEPT ![c].left = @ \ {s}]
    BY <1>5 DEF Up!Mark
  <2> DEFINE r == [up[c] EXCEPT !.left = @ \ {s}]
  <2>2. /\ r \in UpStates /\ up' = [up EXCEPT ![c] = r] /\ up'[c] = r
        /\ r.pc = "mark" /\ r.plan = up[c].plan /\ r.left = up[c].left \ {s}
    BY <1>1, <1>5, <2>1 DEF Up!Mark, UpStates, Up!TypeOK
  <2> HIDE DEF r
  <2>3. /\ mark' \in [Roots -> Uuids \cup {none}] /\ mark'[s] = up[c].plan[s]
        /\ \A q \in Roots \ {s} : mark'[q] = mark[q]
    BY <1>1, <2>1 DEF UpStates, Up!TypeOK
  <2>4. Up!TypeOK'
    BY <1>1, <1>5, <2>2, <2>3 DEF Up!Mark, Up!TypeOK, UpStates
  <2>5. schema = "v1" /\ lock = c /\ Up!UpgradeExact'
    BY <1>1, <1>5 DEF Up!Mark, Up!UpgradeExact, UpCommandInv
  <2>6. UpCommandInv(c)'
    BY <1>1, <1>5, <2>2, <2>3 DEF Up!Mark, UpCommandInv, UpPlanExact, Up!TypeOK
  <2> QED
    BY <2>2, <2>4, <2>5, <2>6, UpByOne
<1>6. CASE Up!Flip(c)
  <2> DEFINE r == [up[c] EXCEPT !.pc = "sync"]
  <2>1. r \in UpStates /\ up' = [up EXCEPT ![c] = r] /\ up'[c] = r
      /\ r.pc = "sync"
    BY <1>1, <1>6 DEF Up!Flip, UpStates, Up!TypeOK
  <2> HIDE DEF r
  <2>2. Up!TypeOK'
    BY <1>1, <1>6, <2>1 DEF Up!Flip, Up!TypeOK, UpStates
  <2>3. lock = c /\ Up!UpgradeExact'
    BY <1>1, <1>6 DEF Up!Flip, Up!MarksLeft, Up!UpgradeExact, UpCommandInv,
       UpPlanExact
  <2>4. UpCommandInv(c)'
    BY <1>1, <1>6, <2>1 DEF Up!Flip, UpCommandInv
  <2> QED
    BY <2>1, <2>2, <2>3, <2>4, UpByOne
<1>7. CASE Up!Finish(c) \/ Up!Refuse(c)
  BY <1>1, <1>7, UpEndInv DEF Up!Finish, Up!Refuse, Up!Kept, Up!TypeOK
<1>8. CASE Up!Die(c)
  <2>1. upFaults' \in 0..UpFaults
    BY <1>1, <1>8 DEF Up!Die, Up!TypeOK, Up!UpgradeAssumption
  <2> QED
    BY <1>8, <2>1, UpEndInv DEF Up!Die
<1> QED
  BY <1>2, <1>3, <1>4, <1>5, <1>6, <1>7, <1>8 DEF Up!Step

THEOREM UpInvariance == Up!UpgradeAssumption => (Up!Spec => []UpgradeInv)
<1> SUFFICES ASSUME Up!UpgradeAssumption PROVE Up!Spec => []UpgradeInv
  OBVIOUS
<1>1. Up!Init => UpgradeInv
  BY UpInitInv
<1>2. UpgradeInv /\ [Up!Next]_(Up!vars) => UpgradeInv'
  <2> SUFFICES ASSUME UpgradeInv, [Up!Next]_(Up!vars) PROVE UpgradeInv'
    OBVIOUS
  <2>1. CASE UNCHANGED Up!vars
    BY <2>1 DEF Up!vars, UpgradeInv, Up!TypeOK, Up!UpgradeExact, UpCommandInv,
       UpPlanExact
  <2> QED
    BY <2>1, UpOutsideInv, UpStepInv DEF Up!Next
<1> QED
  BY <1>1, <1>2, PTL DEF Up!Spec

\* The sum of the upgrades runs this one or leaves it alone.
LEMMA UpPart == MCSpec => Up!Spec
<1>1. MCInit => Up!Init
  BY DEF MCInit
<1>2. [MCNext]_<<part, vars, registryVars, installVars, prefixVars>>
        => [Up!Next]_(Up!vars)
  BY DEF MCNext, registryVars, Up!vars
<1> QED
  BY <1>1, <1>2, PTL DEF MCSpec, Up!Spec

\* However often rt-projects upgrade is killed and rerun, and whatever an older
\* release adds in between: the new registry lists exactly the old roots, each
\* under the UUID of its own marker, no UUID twice, and the backup is the file
\* it replaced.
THEOREM Exact == MCSpec => []UpgradeExact
<1>1. UpgradeInv => UpgradeExact
  BY DEF UpgradeInv, UpgradeExact
<1> QED
  BY <1>1, UpInvariance, UpPart, MCUpgradesAssumption, PTL

\* No attempt of the upgrade ever gives a root that has a marker another UUID.
THEOREM MarkersKept == Up!UpgradeAssumption => (Up!Spec => Up!MarkersFinal)
<1> SUFFICES ASSUME Up!UpgradeAssumption PROVE Up!Spec => Up!MarkersFinal
  OBVIOUS
<1>1. Up!Spec => []UpgradeInv
  BY UpInvariance
<1>2. UpgradeInv /\ [Up!Next]_(Up!vars)
    => [\A r \in Roots : mark[r] # none => mark'[r] = mark[r]]_(Up!vars)
  <2> SUFFICES ASSUME UpgradeInv, Up!Next, NEW r \in Roots, mark[r] # none
               PROVE  mark'[r] = mark[r]
    OBVIOUS
  <2>1. ASSUME NEW q \in Roots, Up!LegacyAdd(q) \/ Up!Unmount(q) \/ Up!Mount(q)
        PROVE  mark' = mark
    BY <2>1 DEF Up!LegacyAdd, Up!Unmount, Up!Mount
  <2>2. ASSUME NEW c \in Procs, Up!Mark(c) PROVE mark'[r] = mark[r]
    <3>1. PICK s \in up[c].left \cap present :
            /\ mark[s] \in {none, up[c].plan[s]}
            /\ mark' = [mark EXCEPT ![s] = up[c].plan[s]]
      BY <2>2 DEF Up!Mark
    <3> QED
      BY <3>1 DEF UpgradeInv, Up!TypeOK
  <2>3. ASSUME NEW c \in Procs, ~Up!Mark(c), Up!Step(c)
               \/ Up!Die(c) PROVE mark' = mark
    BY <2>3 DEF Up!Step, Up!Acquire, Up!Plan, Up!Backup, Up!Flip, Up!Finish,
       Up!Refuse, Up!Die, Up!Kept
  <2> QED
    BY <2>1, <2>2, <2>3 DEF Up!Next
<1> QED
  BY <1>1, <1>2, PTL DEF Up!Spec, Up!MarkersFinal

-----------------------------------------------------------------------------

PrePcs == {"idle", "rename", "symlink", "install", "commands", "setup",
           "config",
           "links", "pending", "mark", "rest", "ensure", "finish"}
PreStates == [pc : PrePcs, todo : SUBSET (CmdLinks \cup HLinks),
              links : SUBSET HLinks]

PrefixTypes ==
  /\ home \in {"none", "dir", "link"} /\ prefix \in BOOLEAN
  /\ install \in {none, "old", "new"} /\ setup \in {none, "old", "new"}
  /\ command \in [CmdLinks -> {none, mine, "old", "new"}]
  /\ oldLink \in [HLinks -> {none, mine, "old"}]
  /\ newLink \in [HLinks -> {none, "new"}]
  /\ pending \subseteq HLinks
  /\ prefixPr \in [Procs -> PreStates]
  /\ moved \in BOOLEAN /\ installed \in BOOLEAN /\ smooth \in BOOLEAN
  /\ prefixEdits \in Nat

\* Where an install is, and what holds while it is there.
PrefixMoving == {"symlink", "install", "commands", "setup", "config", "links",
                 "pending", "mark"}
PrefixPlace(c) ==
  /\ ~Pre!At(c, "idle") /\ ~Pre!At(c, "rename") => home # "dir"
  /\ prefixPr[c].pc \in PrefixMoving => prefix
  /\ Pre!At(c, "commands") => prefixPr[c].todo \subseteq CmdLinks
  /\ Pre!At(c, "links") \/ Pre!At(c, "ensure")
       => prefixPr[c].todo \subseteq HLinks
  /\ \A h \in prefixPr[c].links : oldLink[h] # "old"
  /\ Pre!At(c, "ensure") \/ Pre!At(c, "finish") =>
       \A k \in CmdLinks : command[k] \in {none, "new"}
  /\ prefixPr[c].pc \in {"pending", "mark", "rest", "ensure", "finish"} =>
       setup # "old"

PrefixPlaces ==
  /\ \A c \in Procs : PrefixPlace(c)
  /\ Pre!InOnePlace
  /\ \A h \in pending : oldLink[h] # "old"
  /\ installed => setup # "old" /\ \A k \in CmdLinks : command[k] # "old"
  /\ setup = "old" => home = "dir" \/ prefix
  /\ setup = "new" => prefix

\* While no install was interrupted or ran beside another.
Remade == \A h \in HLinks : newLink[h] = "new"
PrefixSmooth ==
  smooth =>
    /\ \A c, d \in Procs : ~Pre!At(c, "idle") /\ ~Pre!At(d, "idle") => c = d
    /\ moved => home = "link" \/ \E c \in Procs : Pre!At(c, "symlink")
    /\ setup = "new" =>
         (\E c \in Procs : Pre!At(c, "pending")) \/ pending = HLinks \/ Remade
    /\ installed /\ setup = "new" => Remade
    /\ \A c \in Procs :
         /\ Pre!At(c, "config") \/ Pre!At(c, "links") => setup = "old"
         /\ Pre!At(c, "links")
              => HLinks \subseteq prefixPr[c].todo \cup prefixPr[c].links
         /\ Pre!At(c, "pending") => prefixPr[c].links = HLinks
         /\ Pre!At(c, "ensure") /\ setup = "new" =>
              \A h \in HLinks : h \in prefixPr[c].todo \/ newLink[h] = "new"
         /\ Pre!At(c, "finish") /\ setup = "new" => Remade

PrefixInv == PrefixTypes /\ PrefixPlaces /\ PrefixSmooth

\* An install moves, and no other one with it.
PreTo(c, pc, todo, links) ==
  /\ prefixPr' \in [Procs -> PreStates]
  /\ prefixPr'[c].pc = pc /\ prefixPr'[c].todo = todo
       /\ prefixPr'[c].links = links
  /\ \A d \in Procs : d # c => prefixPr'[d] = prefixPr[d]

LEMMA PrefixShape ==
  ASSUME PrefixTypes, NEW c \in Procs, NEW pc \in PrePcs,
         NEW todo \in SUBSET (CmdLinks \cup HLinks), Pre!Goto(c, pc, todo)
  PROVE  PreTo(c, pc, todo, prefixPr[c].links)
<1>1. prefixPr[c] \in PreStates
  BY DEF PrefixTypes
<1> QED
  BY <1>1 DEF Pre!Goto, PreTo, PrefixTypes, PreStates

LEMMA PrefixIdles ==
  ASSUME PrefixTypes, NEW c \in Procs,
         prefixPr' = [prefixPr EXCEPT ![c] = Pre!Idle]
  PROVE  PreTo(c, "idle", {}, {})
BY DEF Pre!Idle, PreTo, PrefixTypes, PreStates, PrePcs

LEMMA PrefixShrinks ==
  ASSUME PrefixTypes, NEW c \in Procs, NEW h,
         prefixPr' = [prefixPr EXCEPT ![c].todo = @ \ {h}]
  PROVE  PreTo(c, prefixPr[c].pc, prefixPr[c].todo \ {h}, prefixPr[c].links)
<1>1. prefixPr[c] \in PreStates
  BY DEF PrefixTypes
<1> QED
  BY <1>1 DEF PreTo, PrefixTypes, PreStates

LEMMA PreShapes ==
  ASSUME PrefixTypes, NEW c \in Procs
  PROVE
    /\ Pre!Look(c) =>
         \/ PreTo(c, "rename", {}, prefixPr[c].links) /\ home = "dir"
         \/ /\ PreTo(c, "install", {}, prefixPr[c].links)
            /\ home # "dir" /\ prefix
         \/ /\ PreTo(c, "rest", {}, prefixPr[c].links)
            /\ home # "dir" /\ ~prefix
    /\ Pre!Rename(c) =>
         \/ PreTo(c, "symlink", {}, prefixPr[c].links) /\ prefix' = TRUE
            /\ home = "dir" /\ home' = "none" /\ moved' = TRUE
         \/ PreTo(c, "idle", {}, {}) /\ UNCHANGED <<home, prefix, moved>>
    /\ Pre!Symlink(c) => PreTo(c, "install", {}, prefixPr[c].links)
    /\ Pre!LoadInstall(c) =>
         \/ PreTo(c, "commands", CmdLinks, prefixPr[c].links)
         \/ PreTo(c, "setup", {}, prefixPr[c].links)
    /\ \A k \in CmdLinks :
         Pre!Relink(c, k)
           => PreTo(c, "commands", prefixPr[c].todo \ {k}, prefixPr[c].links)
    /\ Pre!PublishInstall(c) => PreTo(c, "setup", {}, prefixPr[c].links)
    /\ Pre!LoadSetup(c) =>
         \/ PreTo(c, "config", {}, prefixPr[c].links) /\ setup = "old"
         \/ PreTo(c, "mark", {}, prefixPr[c].links) /\ setup # "old"
    /\ Pre!Rewrite(c) => PreTo(c, "links", HLinks, {})
    /\ \A h \in HLinks :
         Pre!TakeOut(c, h)
           => PreTo(c, "links", prefixPr[c].todo \ {h},
                    prefixPr[c].links \cup {h})
    /\ Pre!PublishSetup(c) => PreTo(c, "pending", {}, prefixPr[c].links)
    /\ Pre!PublishPending(c) => PreTo(c, "mark", {}, prefixPr[c].links)
    /\ Pre!Mark(c) => PreTo(c, "rest", {}, prefixPr[c].links)
    /\ Pre!Rest(c) =>
         \/ /\ PreTo(c, "ensure", IF setup = "new" THEN pending ELSE {},
                     prefixPr[c].links)
            /\ prefix
         \/ PreTo(c, "finish", IF setup = "new" THEN pending ELSE {},
                  prefixPr[c].links) /\ ~prefix
    /\ \A h \in HLinks :
         Pre!Ensure(c, h)
           => PreTo(c, "ensure", prefixPr[c].todo \ {h}, prefixPr[c].links)
    /\ Pre!EnsureDone(c) => PreTo(c, "finish", {}, prefixPr[c].links)
    /\ Pre!RestFails(c) \/ Pre!Finish(c) \/ Pre!Refuse(c)
         \/ Pre!Interrupt(c) =>
         PreTo(c, "idle", {}, {})
<1>0. /\ {} \in SUBSET (CmdLinks \cup HLinks)
      /\ CmdLinks \in SUBSET (CmdLinks \cup HLinks)
      /\ (IF setup = "new" THEN pending ELSE {})
           \in SUBSET (CmdLinks \cup HLinks)
  BY DEF PrefixTypes
<1>1. /\ Pre!Symlink(c) => PreTo(c, "install", {}, prefixPr[c].links)
      /\ Pre!LoadInstall(c) =>
           \/ PreTo(c, "commands", CmdLinks, prefixPr[c].links)
           \/ PreTo(c, "setup", {}, prefixPr[c].links)
      /\ Pre!PublishInstall(c) => PreTo(c, "setup", {}, prefixPr[c].links)
      /\ Pre!PublishSetup(c) => PreTo(c, "pending", {}, prefixPr[c].links)
      /\ Pre!PublishPending(c) => PreTo(c, "mark", {}, prefixPr[c].links)
      /\ Pre!Mark(c) => PreTo(c, "rest", {}, prefixPr[c].links)
      /\ Pre!EnsureDone(c) => PreTo(c, "finish", {}, prefixPr[c].links)
  BY <1>0, PrefixShape DEF Pre!Symlink, Pre!LoadInstall, Pre!PublishInstall,
     Pre!PublishSetup, Pre!PublishPending, Pre!Mark, Pre!EnsureDone, PrePcs
<1>2. /\ Pre!Look(c) =>
           \/ PreTo(c, "rename", {}, prefixPr[c].links) /\ home = "dir"
           \/ /\ PreTo(c, "install", {}, prefixPr[c].links)
            /\ home # "dir" /\ prefix
           \/ /\ PreTo(c, "rest", {}, prefixPr[c].links)
            /\ home # "dir" /\ ~prefix
      /\ Pre!LoadSetup(c) =>
           \/ PreTo(c, "config", {}, prefixPr[c].links) /\ setup = "old"
           \/ PreTo(c, "mark", {}, prefixPr[c].links) /\ setup # "old"
  BY <1>0, PrefixShape DEF Pre!Look, Pre!LoadSetup, PrePcs
<1>3. Pre!Rename(c) =>
        \/ PreTo(c, "symlink", {}, prefixPr[c].links) /\ prefix' = TRUE
           /\ home = "dir" /\ home' = "none" /\ moved' = TRUE
        \/ PreTo(c, "idle", {}, {}) /\ UNCHANGED <<home, prefix, moved>>
  BY <1>0, PrefixShape, PrefixIdles DEF Pre!Rename, Pre!Dirs, PrePcs
<1>4. Pre!Rest(c) =>
        \/ /\ PreTo(c, "ensure", IF setup = "new" THEN pending ELSE {},
                    prefixPr[c].links)
           /\ prefix
        \/ PreTo(c, "finish", IF setup = "new" THEN pending ELSE {},
                 prefixPr[c].links) /\ ~prefix
  BY <1>0, PrefixShape DEF Pre!Rest, PrePcs
<1>5. /\ \A k \in CmdLinks :
           Pre!Relink(c, k)
             => PreTo(c, "commands", prefixPr[c].todo \ {k}, prefixPr[c].links)
      /\ \A h \in HLinks :
           Pre!Ensure(c, h)
             => PreTo(c, "ensure", prefixPr[c].todo \ {h}, prefixPr[c].links)
  BY PrefixShrinks DEF Pre!Relink, Pre!Ensure, Pre!At
<1>6. Pre!RestFails(c) \/ Pre!Finish(c) \/ Pre!Refuse(c) \/ Pre!Interrupt(c) =>
         PreTo(c, "idle", {}, {})
  BY PrefixIdles DEF Pre!RestFails, Pre!Finish, Pre!Refuse, Pre!Interrupt
<1>7. Pre!Rewrite(c) => PreTo(c, "links", HLinks, {})
  <2>1. prefixPr[c] \in PreStates /\ HLinks \in SUBSET (CmdLinks \cup HLinks)
    BY DEF PrefixTypes
  <2> SUFFICES ASSUME Pre!Rewrite(c) PROVE PreTo(c, "links", HLinks, {})
    OBVIOUS
  <2>2. prefixPr \in [Procs -> PreStates]
    BY DEF PrefixTypes
  <2>3. prefixPr' = [prefixPr EXCEPT ![c].pc = "links", ![c].todo = HLinks,
                     ![c].links = {}]
    BY DEF Pre!Rewrite
  <2>4. prefixPr' = [prefixPr EXCEPT ![c] =
                 [prefixPr[c] EXCEPT !.pc = "links", !.todo = HLinks,
                  !.links = {}]]
    BY <2>2, <2>3
  <2> DEFINE there ==
               [prefixPr[c] EXCEPT !.pc = "links", !.todo = HLinks,
                !.links = {}]
  <2>6. /\ there \in PreStates /\ there.pc = "links" /\ there.todo = HLinks
        /\ there.links = {}
    BY <2>1 DEF PreStates, PrePcs
  <2>7. prefixPr' = [prefixPr EXCEPT ![c] = there]
    BY <2>4
  <2> HIDE DEF there
  <2> QED
    BY <2>2, <2>6, <2>7 DEF PreTo
<1>8. ASSUME NEW h \in HLinks, Pre!TakeOut(c, h)
      PROVE  PreTo(c, "links", prefixPr[c].todo \ {h},
                   prefixPr[c].links \cup {h})
  <2>1. /\ prefixPr[c] \in PreStates /\ prefixPr[c].pc = "links"
        /\ prefixPr[c].links \cup {h} \in SUBSET HLinks
        /\ prefixPr[c].todo \ {h} \in SUBSET (CmdLinks \cup HLinks)
    BY <1>8 DEF PrefixTypes, PreStates, Pre!TakeOut, Pre!At
  <2>2. prefixPr' = [prefixPr EXCEPT ![c].todo = prefixPr[c].todo \ {h},
                         ![c].links = prefixPr[c].links \cup {h}]
    BY <1>8 DEF Pre!TakeOut, PrefixTypes
  <2> DEFINE todo == prefixPr[c].todo \ {h}
             links == prefixPr[c].links \cup {h}
  <2>3. todo \in SUBSET (CmdLinks \cup HLinks) /\ links \in SUBSET HLinks
        /\ prefixPr' = [prefixPr EXCEPT ![c].todo = todo, ![c].links = links]
    BY <2>1, <2>2
  <2> HIDE DEF todo, links
  <2>4. PreTo(c, "links", todo, links)
    BY <2>1, <2>3 DEF PreTo, PrefixTypes, PreStates
  <2> QED
    BY <2>4 DEF todo, links
<1> QED
  BY <1>1, <1>2, <1>3, <1>4, <1>5, <1>6, <1>7, <1>8

LEMMA PrefixStepTypes ==
  ASSUME PrefixTypes, NEW c \in Procs, Pre!Step(c)
  PROVE  PrefixTypes'
<1>1. prefixPr' \in [Procs -> PreStates]
  BY PreShapes DEF Pre!Step, PreTo
<1>2. /\ home' \in {"none", "dir", "link"} /\ prefix' \in BOOLEAN
      /\ install' \in {none, "old", "new"} /\ setup' \in {none, "old", "new"}
      /\ moved' \in BOOLEAN /\ installed' \in BOOLEAN /\ smooth' \in BOOLEAN
      /\ prefixEdits' = prefixEdits
  <2>1. UNCHANGED <<home, prefix>> \/ Pre!Rename(c) \/ Pre!Symlink(c)
      \/ Pre!Finish(c)
    BY DEF Pre!Step, Pre!Look, Pre!LoadInstall, Pre!Relink, Pre!PublishInstall,
       Pre!LoadSetup, Pre!Rewrite, Pre!TakeOut, Pre!PublishSetup,
       Pre!PublishPending, Pre!Mark, Pre!RestFails, Pre!Rest, Pre!Ensure,
       Pre!EnsureDone, Pre!Refuse, Pre!Interrupt, Pre!Dirs
  <2>2. /\ home' \in {"none", "dir", "link"} /\ prefix' \in BOOLEAN
    BY <2>1 DEF Pre!Rename, Pre!Symlink, Pre!Finish, Pre!Dirs, PrefixTypes
  <2>3. install' \in {install, "new"} /\ setup' \in {setup, "new"}
    BY DEF Pre!Step, Pre!Look, Pre!Rename, Pre!Symlink, Pre!LoadInstall,
       Pre!Relink, Pre!PublishInstall, Pre!LoadSetup, Pre!Rewrite, Pre!TakeOut,
       Pre!PublishSetup, Pre!PublishPending, Pre!Mark, Pre!RestFails, Pre!Rest,
       Pre!Ensure, Pre!EnsureDone, Pre!Finish, Pre!Refuse, Pre!Interrupt,
       Pre!OfInstall, Pre!OfSetup
  <2>4. /\ moved' \in {moved, TRUE} /\ installed' \in {installed, TRUE}
        /\ prefixEdits' = prefixEdits
    BY DEF Pre!Step, Pre!Look, Pre!Rename, Pre!Symlink, Pre!LoadInstall,
       Pre!Relink, Pre!PublishInstall, Pre!LoadSetup, Pre!Rewrite, Pre!TakeOut,
       Pre!PublishSetup, Pre!PublishPending, Pre!Mark, Pre!RestFails, Pre!Rest,
       Pre!Ensure, Pre!EnsureDone, Pre!Finish, Pre!Refuse, Pre!Interrupt,
       Pre!Ghosts, Pre!Past
  <2>5. smooth' \in BOOLEAN
    BY DEF Pre!Step, Pre!Look, Pre!Rename, Pre!Symlink, Pre!LoadInstall,
       Pre!Relink, Pre!PublishInstall, Pre!LoadSetup, Pre!Rewrite, Pre!TakeOut,
       Pre!PublishSetup, Pre!PublishPending, Pre!Mark, Pre!RestFails, Pre!Rest,
       Pre!Ensure, Pre!EnsureDone, Pre!Finish, Pre!Refuse, Pre!Interrupt,
       Pre!Ghosts, PrefixTypes
  <2> QED
    BY <2>2, <2>3, <2>4, <2>5 DEF PrefixTypes
<1>3. /\ command' \in [CmdLinks -> {none, mine, "old", "new"}]
      /\ \A k \in CmdLinks :
           \/ command'[k] = command[k]
           \/ command[k] \in {none, "old"} /\ command'[k] \in {none, "new"}
           \/ Pre!Finish(c) /\ command'[k] = "new"
  <2>1. CASE Pre!Finish(c)
    BY <2>1 DEF Pre!Finish
  <2>2. ASSUME NEW k \in CmdLinks, Pre!Relink(c, k)
        PROVE  <1>3!1 /\ <1>3!2
    BY <2>2 DEF Pre!Relink, PrefixTypes
  <2>3. ASSUME ~Pre!Finish(c), ~\E k \in CmdLinks : Pre!Relink(c, k)
        PROVE  command' = command
    BY <2>3 DEF Pre!Step, Pre!Look, Pre!Rename, Pre!Symlink, Pre!LoadInstall,
       Pre!PublishInstall, Pre!LoadSetup, Pre!Rewrite, Pre!TakeOut,
       Pre!PublishSetup, Pre!PublishPending, Pre!Mark, Pre!RestFails, Pre!Rest,
       Pre!Ensure, Pre!EnsureDone, Pre!Refuse, Pre!Interrupt, Pre!OfInstall
  <2> QED
    BY <2>1, <2>2, <2>3 DEF PrefixTypes
<1>4. /\ oldLink' \in [HLinks -> {none, mine, "old"}]
      /\ newLink' \in [HLinks -> {none, "new"}] /\ pending' \subseteq HLinks
  <2>1. ASSUME NEW h \in HLinks, Pre!TakeOut(c, h) \/ Pre!Ensure(c, h)
        PROVE  <1>4
    BY <2>1 DEF Pre!TakeOut, Pre!Ensure, PrefixTypes
  <2>2. CASE Pre!PublishPending(c) \/ Pre!EnsureDone(c)
    BY <2>2 DEF Pre!PublishPending, Pre!EnsureDone, PrefixTypes, PreStates
  <2>3. ASSUME ~Pre!PublishPending(c), ~Pre!EnsureDone(c),
               ~\E h \in HLinks : Pre!TakeOut(c, h) \/ Pre!Ensure(c, h)
        PROVE  UNCHANGED <<oldLink, newLink, pending>>
    BY <2>3 DEF Pre!Step, Pre!Look, Pre!Rename, Pre!Symlink, Pre!LoadInstall,
       Pre!Relink, Pre!PublishInstall, Pre!LoadSetup, Pre!Rewrite,
       Pre!PublishSetup, Pre!Mark, Pre!RestFails, Pre!Rest, Pre!Finish,
       Pre!Refuse, Pre!Interrupt, Pre!OfSetup
  <2> QED
    BY <2>1, <2>2, <2>3 DEF PrefixTypes
<1> QED
  BY <1>1, <1>2, <1>3, <1>4 DEF PrefixTypes

\* What no install takes back.
LEMMA PrefixMonotone ==
  ASSUME PrefixTypes, PrefixPlaces, NEW c \in Procs, Pre!Step(c)
  PROVE  /\ home' = "dir" => home = "dir"
         /\ prefix => prefix'
         /\ setup' = "old" => setup = "old"
         /\ \A h \in HLinks : oldLink'[h] \in {oldLink[h], none}
         /\ \A h \in HLinks : newLink[h] = "new" => newLink'[h] = "new"
         /\ \A k \in CmdLinks :
              /\ command'[k] = "old" => command[k] = "old"
              /\ command[k] \in {none, "new"} => command'[k] \in {none, "new"}
<1>1. /\ (home' = "dir" => home = "dir")
      /\ setup' = "old" => setup = "old"
  BY DEF Pre!Step, Pre!Look, Pre!Rename, Pre!Symlink, Pre!LoadInstall,
     Pre!Relink, Pre!PublishInstall, Pre!LoadSetup, Pre!Rewrite, Pre!TakeOut,
     Pre!PublishSetup, Pre!PublishPending, Pre!Mark, Pre!RestFails, Pre!Rest,
     Pre!Ensure, Pre!EnsureDone, Pre!Finish, Pre!Refuse, Pre!Interrupt,
     Pre!OfSetup, Pre!Dirs, Pre!Ghosts, Pre!Past
<1>4. ASSUME prefix PROVE prefix'
  BY <1>4 DEF Pre!Step, Pre!Look, Pre!Rename, Pre!Symlink, Pre!LoadInstall,
     Pre!Relink, Pre!PublishInstall, Pre!LoadSetup, Pre!Rewrite, Pre!TakeOut,
     Pre!PublishSetup, Pre!PublishPending, Pre!Mark, Pre!RestFails, Pre!Rest,
     Pre!Ensure, Pre!EnsureDone, Pre!Finish, Pre!Refuse, Pre!Interrupt,
     Pre!OfSetup, Pre!Dirs, Pre!Ghosts, Pre!Past
<1>2. /\ \A h \in HLinks : oldLink'[h] \in {oldLink[h], none}
      /\ \A h \in HLinks : newLink[h] = "new" => newLink'[h] = "new"
  BY DEF Pre!Step, Pre!Look, Pre!Rename, Pre!Symlink, Pre!LoadInstall,
     Pre!Relink, Pre!PublishInstall, Pre!LoadSetup, Pre!Rewrite, Pre!TakeOut,
     Pre!PublishSetup, Pre!PublishPending, Pre!Mark, Pre!RestFails, Pre!Rest,
     Pre!Ensure, Pre!EnsureDone, Pre!Finish, Pre!Refuse, Pre!Interrupt,
     Pre!OfSetup, PrefixTypes
<1>3. \A k \in CmdLinks :
        /\ command'[k] = "old" => command[k] = "old"
        /\ command[k] \in {none, "new"} => command'[k] \in {none, "new"}
  BY DEF Pre!Step, Pre!Look, Pre!Rename, Pre!Symlink, Pre!LoadInstall,
     Pre!Relink, Pre!PublishInstall, Pre!LoadSetup, Pre!Rewrite, Pre!TakeOut,
     Pre!PublishSetup, Pre!PublishPending, Pre!Mark, Pre!RestFails, Pre!Rest,
     Pre!Ensure, Pre!EnsureDone, Pre!Finish, Pre!Refuse, Pre!Interrupt,
     Pre!OfInstall, PrefixTypes
<1> QED
  BY <1>1, <1>2, <1>3, <1>4

\* What holds where an install is.
LEMMA PrefixStepPlaces ==
  ASSUME Pre!PrefixAssumption, PrefixTypes, PrefixPlaces, NEW c \in Procs,
         Pre!Step(c)
  PROVE  PrefixPlaces'
<1>0. /\ home' = "dir" => home = "dir"
      /\ (prefix => prefix')
      /\ (setup' = "old" => setup = "old")
      /\ \A h \in HLinks : oldLink'[h] \in {oldLink[h], none}
      /\ \A h \in HLinks : newLink[h] = "new" => newLink'[h] = "new"
      /\ \A k \in CmdLinks :
           /\ command'[k] = "old" => command[k] = "old"
           /\ command[k] \in {none, "new"} => command'[k] \in {none, "new"}
      /\ none # "old"
  BY PrefixMonotone DEF Pre!PrefixAssumption
<1>1. \A d \in Procs : d # c => prefixPr'[d] = prefixPr[d]
  BY PreShapes DEF Pre!Step, PreTo
<1>2. ASSUME NEW d \in Procs, d # c PROVE PrefixPlace(d)'
  <2>1. PrefixPlace(d) /\ prefixPr'[d] = prefixPr[d]
      /\ prefixPr[d].links \subseteq HLinks
    BY <1>1, <1>2 DEF PrefixPlaces, PrefixTypes, PreStates
  <2> QED
    BY <1>0, <2>1 DEF PrefixPlace, Pre!At
<1>3. PrefixPlace(c)'
  <2>0. PrefixPlace(c) /\ Pre!InOnePlace /\ prefixPr[c].links \subseteq HLinks
    BY DEF PrefixPlaces, PrefixTypes, PreStates
  <2>1. CASE Pre!Look(c)
    BY <1>0, <2>0, <2>1, PreShapes DEF Pre!Look, PrefixPlace, PreTo, Pre!At,
       PrefixPlaces, PrefixMoving
  <2>2. CASE Pre!Rename(c) \/ Pre!Symlink(c) \/ Pre!LoadInstall(c)
    BY <1>0, <2>0, <2>2, PreShapes DEF Pre!Rename, Pre!Symlink,
       Pre!LoadInstall, PrefixPlace, PreTo, Pre!At, PrefixMoving
  <2>3. CASE (\E k \in CmdLinks : Pre!Relink(c, k)) \/ Pre!PublishInstall(c)
             \/ Pre!LoadSetup(c)
    BY <1>0, <2>0, <2>3, PreShapes DEF Pre!Relink, Pre!PublishInstall,
       Pre!LoadSetup, PrefixPlace, PreTo, Pre!At, PrefixMoving
  <2>4. CASE Pre!Rewrite(c) \/ Pre!PublishSetup(c) \/ Pre!PublishPending(c)
             \/ Pre!Mark(c)
    BY <1>0, <2>0, <2>4, PreShapes DEF Pre!Rewrite, Pre!PublishSetup,
       Pre!PublishPending, Pre!Mark, PrefixPlace, PreTo, Pre!At, PrefixMoving
  <2>5. CASE \E h \in HLinks : Pre!TakeOut(c, h)
    <3>1. PICK h \in HLinks : Pre!TakeOut(c, h)
      BY <2>5
    <3>2. oldLink'[h] = none
      BY <3>1 DEF Pre!TakeOut, PrefixTypes
    <3>3. /\ prefixPr[c].pc = "links" /\ prefixPr'[c].pc = "links"
          /\ prefixPr'[c].todo = prefixPr[c].todo \ {h}
          /\ prefixPr'[c].links = prefixPr[c].links \cup {h}
          /\ UNCHANGED <<home, prefix>>
      BY <3>1, PreShapes DEF Pre!TakeOut, PreTo, Pre!At, Pre!Dirs
    <3>4. \A g \in prefixPr'[c].links : oldLink'[g] # "old"
      BY <1>0, <2>0, <3>2, <3>3 DEF PrefixPlace
    <3> QED
      BY <2>0, <3>3, <3>4 DEF PrefixPlace, Pre!At, PrefixMoving
  <2>6. CASE Pre!Rest(c)
    <3>1. UNCHANGED <<home, command, setup>> /\ prefixPr[c].pc = "rest"
          /\ \A k \in CmdLinks : command[k] \in {none, "new"}
      BY <2>6 DEF Pre!Rest, Pre!At, Pre!Dirs, Pre!OfInstall, Pre!OfSetup
    <3>2. /\ prefixPr'[c].pc \in {"ensure", "finish"}
          /\ prefixPr'[c].links = prefixPr[c].links
          /\ prefixPr'[c].todo \subseteq HLinks
      BY <2>6, PreShapes DEF PreTo, PrefixTypes
    <3> QED
      BY <1>0, <2>0, <3>1, <3>2 DEF PrefixPlace, Pre!At, PrefixMoving
  <2>8. CASE (\E h \in HLinks : Pre!Ensure(c, h)) \/ Pre!EnsureDone(c)
    <3>1. UNCHANGED <<home, command, setup>> /\ prefixPr[c].pc = "ensure"
      BY <2>8 DEF Pre!Ensure, Pre!EnsureDone, Pre!At, Pre!Dirs, Pre!OfInstall
    <3>2. /\ prefixPr'[c].pc \in {"ensure", "finish"}
          /\ prefixPr'[c].links = prefixPr[c].links
          /\ prefixPr'[c].todo \subseteq prefixPr[c].todo
      BY <2>8, PreShapes DEF PreTo
    <3> QED
      BY <1>0, <2>0, <3>1, <3>2 DEF PrefixPlace, Pre!At, PrefixMoving
  <2>7. CASE Pre!RestFails(c) \/ Pre!Finish(c) \/ Pre!Refuse(c)
             \/ Pre!Interrupt(c)
    BY <2>7, PreShapes DEF PrefixPlace, PreTo, Pre!At, PrefixMoving
  <2> QED
    BY <2>1, <2>2, <2>3, <2>4, <2>5, <2>6, <2>7, <2>8 DEF Pre!Step
<1>4. Pre!InOnePlace' /\ (setup' = "old" => home' = "dir" \/ prefix')
      /\ (setup' = "new" => prefix')
  <2>1. CASE Pre!Rename(c)
    BY <2>1 DEF Pre!Rename, PrefixPlaces, Pre!InOnePlace, Pre!Dirs, Pre!OfSetup
  <2>2. CASE Pre!Symlink(c)
    BY <2>2 DEF Pre!Symlink, PrefixPlaces, PrefixPlace, Pre!InOnePlace,
       Pre!Dirs, Pre!OfSetup, Pre!At, PrefixMoving
  <2>3. CASE Pre!Finish(c)
    BY <2>3 DEF Pre!Finish, PrefixPlaces, PrefixPlace, Pre!InOnePlace,
       Pre!Dirs, Pre!OfSetup, Pre!At, PrefixMoving
  <2>4. CASE Pre!PublishSetup(c)
    BY <2>4 DEF Pre!PublishSetup, PrefixPlaces, PrefixPlace, Pre!InOnePlace,
       Pre!Dirs, Pre!At, PrefixMoving
  <2>5. CASE ~(Pre!Rename(c) \/ Pre!Symlink(c) \/ Pre!Finish(c)
               \/ Pre!PublishSetup(c))
    <3>1. UNCHANGED <<home, prefix, setup>>
      BY <2>5 DEF Pre!Step, Pre!Look, Pre!LoadInstall, Pre!Relink,
         Pre!PublishInstall, Pre!LoadSetup, Pre!Rewrite, Pre!TakeOut,
         Pre!PublishPending, Pre!Mark, Pre!RestFails, Pre!Rest, Pre!Ensure,
         Pre!EnsureDone, Pre!Refuse, Pre!Interrupt, Pre!Dirs, Pre!OfSetup
    <3> QED
      BY <3>1 DEF PrefixPlaces, Pre!InOnePlace
  <2> QED
    BY <2>1, <2>2, <2>3, <2>4, <2>5
<1>5. \A h \in pending' : oldLink'[h] # "old"
  <2>1. CASE Pre!PublishPending(c)
    BY <1>0, <2>1 DEF Pre!PublishPending, PrefixPlaces, PrefixPlace,
       PrefixTypes, PreStates
  <2>2. CASE ~Pre!PublishPending(c)
    <3>1. pending' \in {pending, {}}
      BY <2>2 DEF Pre!Step, Pre!Look, Pre!Rename, Pre!Symlink, Pre!LoadInstall,
         Pre!Relink, Pre!PublishInstall, Pre!LoadSetup, Pre!Rewrite,
         Pre!TakeOut, Pre!PublishSetup, Pre!Mark, Pre!RestFails, Pre!Rest,
         Pre!Ensure, Pre!EnsureDone, Pre!Finish, Pre!Refuse, Pre!Interrupt,
         Pre!OfSetup
    <3> QED
      BY <1>0, <3>1 DEF PrefixPlaces, PrefixTypes
  <2> QED
    BY <2>1, <2>2
<1>6. installed' => setup' # "old" /\ \A k \in CmdLinks : command'[k] # "old"
  <2>1. CASE Pre!Finish(c)
    BY <1>0, <2>1 DEF Pre!Finish, PrefixPlaces, PrefixPlace, Pre!At
  <2>2. CASE ~Pre!Finish(c)
    <3>1. installed' = installed
      BY <2>2 DEF Pre!Step, Pre!Look, Pre!Rename, Pre!Symlink, Pre!LoadInstall,
         Pre!Relink, Pre!PublishInstall, Pre!LoadSetup, Pre!Rewrite,
         Pre!TakeOut, Pre!PublishSetup, Pre!PublishPending, Pre!Mark,
         Pre!RestFails, Pre!Rest, Pre!Ensure, Pre!EnsureDone, Pre!Refuse,
         Pre!Interrupt, Pre!Ghosts, Pre!Past
    <3> QED
      BY <1>0, <3>1 DEF PrefixPlaces
  <2> QED
    BY <2>1, <2>2
<1> QED
  BY <1>2, <1>3, <1>4, <1>5, <1>6 DEF PrefixPlaces

\* As long as no install was interrupted or ran beside another.
LEMMA PrefixStepSmooth ==
  ASSUME Pre!PrefixAssumption, PrefixTypes, PrefixPlaces, PrefixSmooth,
         NEW c \in Procs, Pre!Step(c)
  PROVE  PrefixSmooth'
<1> SUFFICES ASSUME smooth' PROVE PrefixSmooth'
  BY DEF PrefixSmooth
<1>0. smooth /\ ~Pre!Interrupt(c) /\ (Pre!At(c, "idle") => Pre!Quiet)
  BY DEF Pre!Step, Pre!Look, Pre!Rename, Pre!Symlink, Pre!LoadInstall,
     Pre!Relink, Pre!PublishInstall, Pre!LoadSetup, Pre!Rewrite, Pre!TakeOut,
     Pre!PublishSetup, Pre!PublishPending, Pre!Mark, Pre!RestFails, Pre!Rest,
     Pre!Ensure, Pre!EnsureDone, Pre!Finish, Pre!Refuse, Pre!Interrupt,
     Pre!Ghosts, Pre!At, PrefixTypes
<1>1. \A d \in Procs : d # c
    => prefixPr[d].pc = "idle" /\ prefixPr'[d].pc = "idle"
  <2>1. \A d \in Procs : d # c => prefixPr'[d] = prefixPr[d]
    BY PreShapes DEF Pre!Step, PreTo
  <2> QED
    BY <1>0, <2>1 DEF PrefixSmooth, Pre!At, Pre!Quiet
<1>2. \A d, e \in Procs : ~Pre!At(d, "idle")' /\ ~Pre!At(e, "idle")' => d = e
  BY <1>1 DEF Pre!At
<1>3. moved' => home' = "link" \/ \E d \in Procs : Pre!At(d, "symlink")'
  <2>1. CASE Pre!Rename(c)
    BY <1>0, <1>1, <2>1, PreShapes DEF PrefixSmooth, Pre!At, PreTo, Pre!Rename
  <2>2. CASE Pre!Symlink(c)
    BY <2>2 DEF Pre!Symlink
  <2>3. CASE ~Pre!Rename(c) /\ ~Pre!Symlink(c)
    <3>1. UNCHANGED <<home, moved>> /\ ~Pre!At(c, "symlink")
      BY <1>0, <2>3 DEF Pre!Step, Pre!Look, Pre!LoadInstall, Pre!Relink,
         Pre!PublishInstall, Pre!LoadSetup, Pre!Rewrite, Pre!TakeOut,
         Pre!PublishSetup, Pre!PublishPending, Pre!Mark, Pre!RestFails,
         Pre!Rest, Pre!Ensure, Pre!EnsureDone, Pre!Finish, Pre!Refuse,
         Pre!Dirs, Pre!Ghosts, Pre!Past, Pre!At
    <3> QED
      BY <1>0, <1>1, <3>1 DEF PrefixSmooth, Pre!At
  <2> QED
    BY <2>1, <2>2, <2>3
<1>4. Remade => Remade'
  BY PrefixMonotone DEF Remade
<1>5. ASSUME NEW d \in Procs, d # c
      PROVE  ~Pre!At(d, "config")' /\ ~Pre!At(d, "links")'
             /\ ~Pre!At(d, "pending")'
             /\ ~Pre!At(d, "ensure")' /\ ~Pre!At(d, "finish")'
  BY <1>1, <1>5 DEF Pre!At
<1> DEFINE Mine ==
      /\ Pre!At(c, "config") \/ Pre!At(c, "links") => setup = "old"
      /\ Pre!At(c, "links")
           => HLinks \subseteq prefixPr[c].todo \cup prefixPr[c].links
      /\ Pre!At(c, "pending") => prefixPr[c].links = HLinks
      /\ Pre!At(c, "ensure") /\ setup = "new" =>
           \A h \in HLinks : h \in prefixPr[c].todo \/ newLink[h] = "new"
      /\ Pre!At(c, "finish") /\ setup = "new" => Remade
           Listed == setup = "new"
             => Pre!At(c, "pending") \/ pending = HLinks \/ Remade
           Ended == installed /\ setup = "new" => Remade
<1>6. Mine /\ Listed /\ Ended /\ prefixPr[c].links \subseteq HLinks
  BY <1>0, <1>1 DEF PrefixSmooth, Pre!At, PrefixTypes, PreStates
<1>7. Mine' /\ Listed' /\ Ended'
  <2>1. CASE Pre!Look(c) \/ Pre!Rename(c) \/ Pre!Symlink(c)
             \/ Pre!LoadInstall(c)
             \/ (\E k \in CmdLinks : Pre!Relink(c, k)) \/ Pre!PublishInstall(c)
    <3>1. /\ UNCHANGED <<setup, newLink, pending, installed>>
          /\ prefixPr'[c].pc \in {"idle", "rename", "symlink", "install",
                                  "commands",
                                  "setup", "rest"}
          /\ ~Pre!At(c, "pending")
      BY <2>1, PreShapes DEF PreTo, Pre!At, Pre!Look, Pre!Rename, Pre!Symlink,
         Pre!LoadInstall, Pre!Relink, Pre!PublishInstall, Pre!OfSetup,
         Pre!Ghosts, Pre!Past
    <3> QED
      BY <1>6, <3>1 DEF Pre!At, Remade
  <2>2. CASE Pre!LoadSetup(c) \/ Pre!Rewrite(c)
    <3>1. /\ UNCHANGED <<setup, newLink, pending, installed>>
          /\ ~Pre!At(c, "pending")
          /\ \/ prefixPr'[c].pc = "config" /\ setup = "old"
             \/ prefixPr'[c].pc = "mark"
             \/ prefixPr'[c].pc = "links" /\ prefixPr'[c].todo = HLinks
                  /\ Pre!At(c, "config")
      BY <2>2, PreShapes DEF PreTo, Pre!At, Pre!LoadSetup, Pre!Rewrite,
         Pre!OfSetup, Pre!Ghosts, Pre!Past
    <3> QED
      BY <1>6, <3>1 DEF Pre!At, Remade
  <2>3. CASE \E h \in HLinks : Pre!TakeOut(c, h)
    <3>1. PICK h \in HLinks : Pre!TakeOut(c, h)
      BY <2>3
    <3>2. /\ UNCHANGED <<setup, newLink, pending, installed>>
          /\ Pre!At(c, "links") /\ prefixPr'[c].pc = "links"
          /\ prefixPr'[c].todo = prefixPr[c].todo \ {h}
          /\ prefixPr'[c].links = prefixPr[c].links \cup {h}
      BY <3>1, PreShapes DEF Pre!TakeOut, PreTo, Pre!Ghosts, Pre!Past
    <3> QED
      BY <1>6, <3>2 DEF Pre!At, Remade
  <2>4. CASE Pre!PublishSetup(c)
    <3>1. /\ setup' = "new" /\ UNCHANGED installed
          /\ Pre!At(c, "links") /\ prefixPr[c].todo = {}
          /\ prefixPr'[c].pc = "pending"
               /\ prefixPr'[c].links = prefixPr[c].links
      BY <2>4, PreShapes DEF Pre!PublishSetup, PreTo, Pre!Ghosts, Pre!Past
    <3>2. ~installed
      BY <1>6, <3>1 DEF PrefixPlaces
    <3> QED
      BY <1>6, <3>1, <3>2 DEF Pre!At
  <2>5. CASE Pre!PublishPending(c) \/ Pre!Mark(c)
    <3>1. /\ UNCHANGED <<setup, newLink, installed>>
          /\ \/ Pre!At(c, "pending") /\ pending' = prefixPr[c].links
             \/ ~Pre!At(c, "pending") /\ pending' = pending
          /\ prefixPr'[c].pc \in {"mark", "rest"}
      BY <2>5, PreShapes DEF Pre!PublishPending, Pre!Mark, PreTo, Pre!OfSetup,
         Pre!Ghosts, Pre!Past, Pre!At
    <3> QED
      BY <1>6, <3>1 DEF Pre!At, Remade
  <2>6. CASE Pre!Rest(c)
    <3>1. /\ UNCHANGED <<setup, newLink, installed, pending>>
          /\ Pre!At(c, "rest")
          /\ \/ /\ prefixPr'[c].pc = "ensure"
                /\ prefixPr'[c].todo = IF setup = "new" THEN pending ELSE {}
             \/ prefixPr'[c].pc = "finish" /\ ~prefix
      BY <2>6, PreShapes DEF Pre!Rest, PreTo, Pre!OfSetup, Pre!Ghosts, Pre!Past
    <3>2. setup = "new" => prefix
      BY DEF PrefixPlaces
    <3> QED
      BY <1>6, <3>1, <3>2 DEF Pre!At, Remade
  <2>7. CASE \E h \in HLinks : Pre!Ensure(c, h)
    <3>1. PICK h \in HLinks : Pre!Ensure(c, h)
      BY <2>7
    <3>2. /\ UNCHANGED <<setup, installed, pending>>
          /\ Pre!At(c, "ensure") /\ prefixPr'[c].pc = "ensure"
          /\ prefixPr'[c].todo = prefixPr[c].todo \ {h} /\ newLink'[h] = "new"
          /\ \A g \in HLinks : newLink[g] = "new" => newLink'[g] = "new"
      <4>1. UNCHANGED <<setup, installed, pending>> /\ Pre!At(c, "ensure")
            /\ newLink' = [newLink EXCEPT ![h] = "new"]
            /\ prefixPr' = [prefixPr EXCEPT ![c].todo = @ \ {h}]
        BY <3>1 DEF Pre!Ensure, Pre!Ghosts, Pre!Past
      <4>2. prefixPr'[c].pc = prefixPr[c].pc
          /\ prefixPr'[c].todo = prefixPr[c].todo \ {h}
        BY <4>1 DEF PrefixTypes, PreStates
      <4>3. newLink'[h] = "new"
            /\ \A g \in HLinks : newLink[g] = "new" => newLink'[g] = "new"
        BY <4>1 DEF PrefixTypes
      <4> QED
        BY <4>1, <4>2, <4>3 DEF Pre!At
    <3> QED
      BY <1>6, <3>2 DEF Pre!At, Remade
  <2>8. CASE Pre!EnsureDone(c)
    <3>1. /\ UNCHANGED <<setup, installed, newLink>>
          /\ Pre!At(c, "ensure") /\ prefixPr'[c].pc = "finish"
               /\ prefixPr[c].todo = {}
      BY <2>8, PreShapes DEF Pre!EnsureDone, PreTo, Pre!Ghosts, Pre!Past
    <3> QED
      BY <1>6, <3>1 DEF Pre!At, Remade
  <2>9. CASE Pre!Finish(c)
    <3>1. /\ UNCHANGED <<setup, newLink, pending>>
          /\ Pre!At(c, "finish") /\ prefixPr'[c].pc = "idle"
      BY <2>9, PreShapes DEF Pre!Finish, PreTo, Pre!OfSetup
    <3> QED
      BY <1>6, <3>1 DEF Pre!At, Remade
  <2>10. CASE Pre!RestFails(c) \/ Pre!Refuse(c)
    <3>1. /\ UNCHANGED <<setup, newLink, pending, installed>>
          /\ ~Pre!At(c, "pending") /\ prefixPr'[c].pc = "idle"
      BY <2>10, PreShapes DEF Pre!RestFails, Pre!Refuse, PreTo, Pre!OfSetup,
         Pre!At, Pre!Ghosts, Pre!Past
    <3> QED
      BY <1>6, <3>1 DEF Pre!At, Remade
  <2> QED
    BY <1>0, <2>1, <2>2, <2>3, <2>4, <2>5, <2>6, <2>7, <2>8, <2>9, <2>10 DEF
       Pre!Step
<1> QED
  BY <1>2, <1>3, <1>5, <1>7 DEF PrefixSmooth

LEMMA PrefixUserStep ==
  ASSUME Pre!PrefixAssumption, PrefixInv, Pre!UserChange
  PROVE  PrefixInv' /\ prefixEdits' # prefixEdits
<1>1. UNCHANGED <<home, prefix, install, setup, newLink, pending, prefixPr,
                  moved,
                  installed, smooth>>
      /\ Pre!Quiet /\ prefixEdits' = prefixEdits + 1
  BY DEF Pre!UserChange
<1>2. /\ command' \in [CmdLinks -> {none, mine, "old", "new"}]
      /\ oldLink' \in [HLinks -> {none, mine, "old"}]
      /\ \A k \in CmdLinks : command'[k] \in {command[k], none, mine}
      /\ \A h \in HLinks : oldLink'[h] \in {oldLink[h], none, mine}
  BY DEF Pre!UserChange, PrefixInv, PrefixTypes
<1>3. none # "old" /\ mine # "old"
  BY DEF Pre!PrefixAssumption
<1>4. PrefixTypes' /\ prefixEdits' # prefixEdits
  BY <1>1, <1>2 DEF PrefixInv, PrefixTypes
<1>5. \A c \in Procs : PrefixPlace(c)' 
  <2>1. \A c \in Procs : PrefixPlace(c) /\ prefixPr[c].links \subseteq HLinks
    BY DEF PrefixInv, PrefixPlaces, PrefixTypes, PreStates
  <2> QED
    BY <1>1, <1>2, <1>3, <2>1 DEF PrefixPlace, Pre!Quiet, Pre!At
<1>6. PrefixPlaces'
  BY <1>1, <1>2, <1>3, <1>5 DEF PrefixInv, PrefixPlaces, PrefixTypes,
     Pre!InOnePlace
<1>7. PrefixSmooth'
  BY <1>1 DEF PrefixInv, PrefixSmooth, Pre!At, Remade
<1> QED
  BY <1>4, <1>6, <1>7 DEF PrefixInv

LEMMA PrefixInit == Pre!PrefixAssumption /\ Pre!Init => PrefixInv
<1> SUFFICES ASSUME Pre!PrefixAssumption, Pre!Init PROVE PrefixInv
  OBVIOUS
<1>1. /\ \A c \in Procs : prefixPr[c].pc = "idle" /\ prefixPr[c].links = {}
      /\ prefixPr \in [Procs -> PreStates]
  BY DEF Pre!Init, Pre!Idle, PreStates, PrePcs
<1>2. PICK there \in BOOLEAN, i \in {none, "old"}, s \in {none, "old"} :
        /\ there \/ (i = none /\ s = none)
        /\ home = (IF there THEN "dir" ELSE "none")
        /\ install = i /\ setup = s
        /\ command = [k \in CmdLinks |-> i]
        /\ oldLink = [h \in HLinks |-> s]
  BY DEF Pre!Init
<1>3. PrefixTypes
  BY <1>1, <1>2 DEF Pre!Init, PrefixTypes
<1>4. PrefixPlaces
  BY <1>1, <1>2 DEF Pre!Init, PrefixPlaces, PrefixPlace, Pre!At,
     Pre!InOnePlace, PrefixMoving, Pre!PrefixAssumption
<1>5. PrefixSmooth
  BY <1>1, <1>2 DEF Pre!Init, PrefixSmooth, Pre!At, Pre!PrefixAssumption
<1> QED
  BY <1>3, <1>4, <1>5 DEF PrefixInv

LEMMA PrefixNext == Pre!PrefixAssumption /\ PrefixInv /\ [Pre!Next]_(Pre!vars)
                    => PrefixInv'
<1> SUFFICES ASSUME Pre!PrefixAssumption, PrefixInv,
                    [Pre!Next]_(Pre!vars) PROVE PrefixInv'
  OBVIOUS
<1>1. ASSUME NEW c \in Procs, Pre!Step(c) PROVE PrefixInv'
  BY <1>1, PrefixStepTypes, PrefixStepPlaces, PrefixStepSmooth DEF PrefixInv
<1>2. CASE Pre!UserChange
  BY <1>2, PrefixUserStep
<1>3. CASE UNCHANGED Pre!vars
  BY <1>3 DEF Pre!vars, PrefixInv, PrefixTypes, PrefixPlaces, PrefixPlace,
     PrefixSmooth, Pre!At, Remade, Pre!InOnePlace
<1> QED
  BY <1>1, <1>2, <1>3 DEF Pre!Next

THEOREM PrefixInvariance == Pre!PrefixAssumption => (Pre!Spec => []PrefixInv)
<1> SUFFICES ASSUME Pre!PrefixAssumption PROVE Pre!Spec => []PrefixInv
  OBVIOUS
<1>1. Pre!Init => PrefixInv
  BY PrefixInit
<1>2. PrefixInv /\ [Pre!Next]_(Pre!vars) => PrefixInv'
  BY PrefixNext
<1> QED
  BY <1>1, <1>2, PTL DEF Pre!Spec

\* The state predicates.
LEMMA PrefixWhole == PrefixInv => Pre!TypeOK /\ Pre!InOnePlace /\ Pre!Arrived
<1> SUFFICES ASSUME PrefixInv PROVE Pre!TypeOK /\ Pre!InOnePlace /\ Pre!Arrived
  OBVIOUS
<1>1. Pre!TypeOK
  BY DEF PrefixInv, PrefixTypes, PrefixPlaces, Pre!TypeOK
<1>2. Pre!Arrived
  BY DEF PrefixInv, PrefixTypes, PrefixPlaces, PrefixSmooth, Pre!Arrived,
     Pre!Quiet, Pre!At, Remade
<1> QED
  BY <1>1, <1>2 DEF PrefixInv, PrefixPlaces

LEMMA PrefixUsers ==
  ASSUME Pre!PrefixAssumption, PrefixInv, [Pre!Next]_(Pre!vars),
         prefixEdits' = prefixEdits
  PROVE  /\ \A k \in CmdLinks : command[k] = mine => command'[k] = mine
         /\ \A h \in HLinks : oldLink[h] = mine => oldLink'[h] = mine
<1>1. ~Pre!UserChange
  BY PrefixUserStep
<1>2. CASE UNCHANGED Pre!vars
  BY <1>2 DEF Pre!vars
<1>3. ASSUME NEW c \in Procs, Pre!Step(c)
      PROVE  /\ \A k \in CmdLinks : command[k] = mine => command'[k] = mine
             /\ \A h \in HLinks : oldLink[h] = mine => oldLink'[h] = mine
  <2>1. mine \notin {none, "old", "new"}
    BY DEF Pre!PrefixAssumption
  <2>2. ASSUME NEW k \in CmdLinks, command[k] = mine PROVE command'[k] = mine
    <3>1. ~Pre!Finish(c)
      BY <2>1, <2>2 DEF PrefixInv, PrefixPlaces, PrefixPlace, Pre!Finish
    <3> QED
      BY <1>3, <2>1, <2>2, <3>1 DEF Pre!Step, Pre!Look, Pre!Rename,
         Pre!Symlink, Pre!LoadInstall, Pre!Relink, Pre!PublishInstall,
         Pre!LoadSetup, Pre!Rewrite, Pre!TakeOut, Pre!PublishSetup,
         Pre!PublishPending, Pre!Mark, Pre!RestFails, Pre!Rest, Pre!Ensure,
         Pre!EnsureDone, Pre!Refuse, Pre!Interrupt, Pre!OfInstall, PrefixInv,
         PrefixTypes
  <2>3. ASSUME NEW h \in HLinks, oldLink[h] = mine PROVE oldLink'[h] = mine
    BY <1>3, <2>1, <2>3 DEF Pre!Step, Pre!Look, Pre!Rename, Pre!Symlink,
       Pre!LoadInstall, Pre!Relink, Pre!PublishInstall, Pre!LoadSetup,
       Pre!Rewrite, Pre!TakeOut, Pre!PublishSetup, Pre!PublishPending,
       Pre!Mark, Pre!RestFails, Pre!Rest, Pre!Ensure, Pre!EnsureDone,
       Pre!Finish, Pre!Refuse, Pre!Interrupt, Pre!OfSetup, PrefixInv,
       PrefixTypes
  <2> QED
    BY <2>2, <2>3
<1> QED
  BY <1>1, <1>2, <1>3 DEF Pre!Next

\* The sum of the upgrades runs this one or leaves it alone.
LEMMA PrePart == MCSpec => Pre!Spec
<1>1. MCInit => Pre!Init
  BY DEF MCInit
<1>2. [MCNext]_<<part, vars, registryVars, installVars, prefixVars>>
        => [Pre!Next]_(Pre!vars)
  BY DEF MCNext, prefixVars, Pre!vars
<1> QED
  BY <1>1, <1>2, PTL DEF MCSpec, Pre!Spec

-----------------------------------------------------------------------------
(* The install and the uninstall of the package, for any number of paths,  *)
(* releases, commands, faults and edits.  The argument: a command that has *)
(* checked the paths found nothing of the user's there, and the user acts  *)
(* between commands only; what is still on its list of steps, and in what  *)
(* order, says what it has made or removed so far; and an uninstall is     *)
(* alone.  Where no command was killed or at work beside another one, its  *)
(* manifest is the present one; where none has failed either, the manifest *)
(* says what is at every path and which versions are there.                *)

Manifests ==
  {Inst!NoManifest} \cup
  {m \in [has : {TRUE}, gen : Inst!Gens, vers : SUBSET Inst!Gens] :
     m.gen \in m.vers}
Chores == {"build", "write", "publish", "agent", "unlink", "rmtree", "forget"}
Items == [do : Chores, at : Inst!Paths \cup Inst!Gens \cup {none}]
Tasks == [pc : {"idle", "check", "go", "building"},
          cmd : {none, "install", "uninstall"}, gen : 0..MaxGen,
          prev : Manifests, todo : Seq(Items)]

InstTypes ==
  /\ path \in [Inst!Paths -> Inst!Gens \cup {none, mine}]
  /\ ver \in [Inst!Gens -> {"none", "partial", "torn", "whole"}]
  /\ man \in Manifests
  /\ agent \in {none, mine, 1}
  /\ pr \in [Procs -> Tasks]
  /\ tried \in 0..MaxGen /\ edits \in Nat /\ instFaults \in Nat
  /\ upset \in BOOLEAN
  /\ user = {p \in Inst!Paths : path[p] = mine}

\* What is left of a command's steps, and in what order they are made.
Left(s) == {s[i] : i \in 1..Len(s)}
Rank(do) == IF do \in {"build", "agent"} THEN 1
            ELSE IF do \in {"write", "unlink"} THEN 2
            ELSE IF do = "rmtree" THEN 3 ELSE 4
Sorted(s) == \A i, j \in 1..Len(s) : i <= j => Rank(s[i].do) <= Rank(s[j].do)
ByInstall(g) ==
  {Inst!Do("build", g), Inst!Do("publish", none)}
    \cup {Inst!Do("write", p) : p \in Inst!Paths}
ByUninstall(m) ==
  {Inst!Do("agent", none), Inst!Do("forget", none)}
    \cup {Inst!Do("unlink", p) : p \in Inst!Paths}
    \cup {Inst!Do("rmtree", v) : v \in m.vers}

Runs(c) == pr[c].pc \in {"go", "building"}
ToDo(c, do, at) == Inst!Do(do, at) \in Left(pr[c].todo)

\* What one command has found and done.
Course(c) ==
  /\ pr[c].pc = "idle" => pr[c].cmd = none
  /\ pr[c].pc # "idle" /\ pr[c].cmd # "install" =>
       pr[c].cmd = "uninstall" /\ pr[c].prev.has
  /\ pr[c].cmd = "install" => pr[c].gen \in Inst!Gens
  /\ Runs(c) => user = {} /\ pr[c].todo # <<>> /\ Sorted(pr[c].todo)
  /\ Runs(c) /\ pr[c].cmd = "install" =>
       /\ Left(pr[c].todo) \subseteq ByInstall(pr[c].gen)
       /\ ToDo(c, "publish", none)
       /\ pr[c].pc = "go" =>
            ToDo(c, "build", pr[c].gen) \/ ver[pr[c].gen] = "whole"
  /\ pr[c].pc = "building" =>
       /\ pr[c].cmd = "install"
       /\ Head(pr[c].todo) = Inst!Do("build", pr[c].gen)
       /\ ver[pr[c].gen] = "partial"
  /\ Runs(c) /\ pr[c].cmd = "uninstall" =>
       /\ Left(pr[c].todo) \subseteq ByUninstall(pr[c].prev)
       /\ ToDo(c, "forget", none)
       /\ \A p \in Inst!Paths :
            /\ path[p] \in {none} \cup Inst!Recorded(pr[c].prev, p)
            /\ ToDo(c, "unlink", p) \/ path[p] = none

\* An uninstall is alone, and no two commands build the same version.
Company ==
  /\ \A c, d \in Procs :
       pr[c].cmd = "uninstall" /\ pr[d].pc # "idle" => c = d
  /\ \A c, d \in Procs :
       pr[c].pc = "building" /\ pr[d].pc = "building"
         /\ pr[c].gen = pr[d].gen => c = d

\* Where no command was killed or at work beside another one.
Resting == \A c \in Procs : ~Runs(c)
First(g) == \A p \in Wrappers \cup Links :
              path[p] \in {none, mine, Inst!Payload(p, g)}
Calm ==
  ~upset =>
    /\ \A c, d \in Procs : pr[c].pc # "idle" /\ pr[d].pc # "idle" => c = d
    /\ \A c \in Procs : pr[c].pc # "idle" => pr[c].prev = man
    /\ man.has => tried = 0
    /\ Resting /\ tried # 0 => First(tried) /\ ver[tried] \in {"none", "whole"}
    /\ \A c \in Procs : Runs(c) /\ ~pr[c].prev.has =>
         /\ First(pr[c].gen)
         /\ pr[c].pc = "go" => ver[pr[c].gen] \in {"none", "whole"}

\* Where no step has failed either.
Listed(g) == IF g \in man.vers THEN "whole" ELSE "none"
Flawless ==
  ~upset /\ instFaults = 0 =>
    /\ Resting =>
         /\ \A p \in Inst!Paths :
              path[p] \in {none, mine} \cup Inst!Recorded(man, p)
         /\ \A g \in Inst!Gens : ver[g] = Listed(g)
    /\ \A c \in Procs : Runs(c) /\ pr[c].cmd = "install" =>
         /\ \A p \in Inst!Paths :
              \/ path[p] = Inst!Payload(p, pr[c].gen)
              \/ /\ path[p] \in {none} \cup Inst!Recorded(man, p)
                 /\ ToDo(c, "write", p)
         /\ \A g \in Inst!Gens : ver[g] = Listed(g) \/ g = pr[c].gen
         /\ pr[c].pc = "go" =>
              ver[pr[c].gen] \in {Listed(pr[c].gen), "whole"}
    /\ \A c \in Procs : Runs(c) /\ pr[c].cmd = "uninstall" =>
         \A g \in Inst!Gens :
           \/ ver[g] = "none"
           \/ ver[g] = "whole" /\ ToDo(c, "rmtree", g)

InstInv ==
  /\ InstTypes
  /\ \A c \in Procs : Course(c)
  /\ Company /\ Inst!CurrentWhole /\ Calm /\ Flawless

-----------------------------------------------------------------------------
(* Lists of steps.                                                         *)

LEMMA Ranks == \A d : Rank(d) \in 1..4
BY DEF Rank

\* A command that makes the first step of its list has the others left.
LEMMA LeftTail ==
  ASSUME NEW X, NEW s \in Seq(X), s # <<>>
  PROVE  /\ Tail(s) \in Seq(X) /\ Head(s) \in X
         /\ Left(s) = {Head(s)} \cup Left(Tail(s))
         /\ Sorted(s) => /\ Sorted(Tail(s))
                         /\ \A x \in Left(s) : Rank(Head(s).do) <= Rank(x.do)
<1>1. /\ Tail(s) \in Seq(X) /\ Head(s) \in X /\ Head(s) = s[1]
      /\ Len(s) \in Nat /\ Len(s) >= 1 /\ Len(Tail(s)) = Len(s) - 1
      /\ \A i \in 1..(Len(s) - 1) : Tail(s)[i] = s[i + 1]
  OBVIOUS
<1>2. Left(s) = {Head(s)} \cup Left(Tail(s))
  <2>1. ASSUME NEW i \in 1..Len(s) PROVE s[i] \in {Head(s)} \cup Left(Tail(s))
    <3>1. CASE i = 1
      BY <1>1, <3>1
    <3>2. CASE i > 1
      <4>1. i - 1 \in 1..(Len(s) - 1) /\ s[i] = Tail(s)[i - 1]
        BY <1>1, <3>2
      <4> QED
        BY <1>1, <4>1 DEF Left
    <3> QED
      BY <1>1, <3>1, <3>2
  <2>2. ASSUME NEW i \in 1..Len(Tail(s)) PROVE Tail(s)[i] \in Left(s)
    <3>1. i + 1 \in 1..Len(s) /\ Tail(s)[i] = s[i + 1]
      BY <1>1
    <3> QED
      BY <3>1 DEF Left
  <2>3. Head(s) \in Left(s)
    BY <1>1 DEF Left
  <2> QED
    BY <2>1, <2>2, <2>3 DEF Left
<1>3. ASSUME Sorted(s)
      PROVE  /\ Sorted(Tail(s))
             /\ \A x \in Left(s) : Rank(Head(s).do) <= Rank(x.do)
  <2>1. ASSUME NEW i \in 1..Len(Tail(s)), NEW j \in 1..Len(Tail(s)), i <= j
        PROVE  Rank(Tail(s)[i].do) <= Rank(Tail(s)[j].do)
    <3>1. /\ i + 1 \in 1..Len(s) /\ j + 1 \in 1..Len(s) /\ i + 1 <= j + 1
          /\ Tail(s)[i] = s[i + 1] /\ Tail(s)[j] = s[j + 1]
      BY <1>1, <2>1
    <3> QED
      BY <1>3, <3>1 DEF Sorted
  <2>2. \A i \in 1..Len(s) : Rank(s[1].do) <= Rank(s[i].do)
    BY <1>1, <1>3 DEF Sorted
  <2>3. Sorted(Tail(s))
    BY <2>1 DEF Sorted
  <2> QED
    BY <1>1, <2>2, <2>3 DEF Left
<1> QED
  BY <1>1, <1>2, <1>3

LEMMA LeftConcat ==
  ASSUME NEW X, NEW s \in Seq(X), NEW t \in Seq(X)
  PROVE  /\ s \o t \in Seq(X) /\ Left(s \o t) = Left(s) \cup Left(t)
         /\ /\ Sorted(s) /\ Sorted(t)
            /\ \A a \in Left(s), b \in Left(t) : Rank(a.do) <= Rank(b.do)
            => Sorted(s \o t)
<1> DEFINE st == s \o t
<1>1. /\ st \in Seq(X) /\ Len(s) \in Nat /\ Len(t) \in Nat
      /\ Len(st) = Len(s) + Len(t)
      /\ \A i \in 1..Len(st) :
           st[i] = IF i <= Len(s) THEN s[i] ELSE t[i - Len(s)]
  OBVIOUS
<1> HIDE DEF st
<1>2. ASSUME NEW i \in 1..Len(st)
      PROVE  \/ i \in 1..Len(s) /\ st[i] = s[i]
             \/ i > Len(s) /\ i - Len(s) \in 1..Len(t) /\ st[i] = t[i - Len(s)]
  BY <1>1
<1>3. Left(st) = Left(s) \cup Left(t)
  <2>1. Left(st) \subseteq Left(s) \cup Left(t)
    BY <1>2 DEF Left
  <2>2. ASSUME NEW i \in 1..Len(s) PROVE s[i] \in Left(st)
    <3>1. i \in 1..Len(st) /\ st[i] = s[i]
      BY <1>1
    <3> QED
      BY <3>1 DEF Left
  <2>3. ASSUME NEW i \in 1..Len(t) PROVE t[i] \in Left(st)
    <3> DEFINE k == i + Len(s)
    <3>0. k \in 1..Len(st) /\ k - Len(s) = i /\ ~(k <= Len(s))
      BY <1>1
    <3> HIDE DEF k
    <3>1. k \in 1..Len(st) /\ st[k] = t[i]
      BY <1>1, <3>0
    <3> QED
      BY <3>1 DEF Left
  <2> QED
    BY <2>1, <2>2, <2>3 DEF Left
<1>4. ASSUME Sorted(s), Sorted(t),
             \A a \in Left(s), b \in Left(t) : Rank(a.do) <= Rank(b.do)
      PROVE  Sorted(st)
  <2> SUFFICES ASSUME NEW i \in 1..Len(st), NEW j \in 1..Len(st), i <= j
               PROVE  Rank(st[i].do) <= Rank(st[j].do)
    BY DEF Sorted
  <2>1. CASE j \in 1..Len(s)
    <3>1. i \in 1..Len(s) /\ st[i] = s[i] /\ st[j] = s[j]
      BY <1>1, <1>2, <2>1
    <3> QED
      BY <1>4, <2>1, <3>1 DEF Sorted
  <2>2. CASE i > Len(s)
    <3>1. /\ i - Len(s) \in 1..Len(t) /\ j - Len(s) \in 1..Len(t)
          /\ i - Len(s) <= j - Len(s)
          /\ st[i] = t[i - Len(s)] /\ st[j] = t[j - Len(s)]
      BY <1>1, <2>2
    <3> QED
      BY <1>4, <3>1 DEF Sorted
  <2>3. CASE i \in 1..Len(s) /\ j > Len(s)
    <3>1. st[i] \in Left(s) /\ st[j] \in Left(t)
      BY <1>1, <1>2, <2>3 DEF Left
    <3> QED
      BY <1>4, <3>1
  <2> QED
    BY <1>1, <2>1, <2>2, <2>3
<1> QED
  BY <1>1, <1>3, <1>4 DEF st

LEMMA LeftOne ==
  ASSUME NEW x
  PROVE  <<x>> \in Seq({x}) /\ Left(<<x>>) = {x} /\ Sorted(<<x>>)
BY Ranks DEF Left, Sorted

\* One step for each element of a finite set.
LEMMA LeftEach ==
  ASSUME NEW what, NEW S, IsFiniteSet(S)
  PROVE  LET e == Inst!Each(what, S)
             all == {Inst!Do(what, a) : a \in S}
         IN  e \in Seq(all) /\ Left(e) = all /\ Sorted(e)
<1> DEFINE s == Inst!SetToSeq(S)
           n == Cardinality(S)
           e == Inst!Each(what, S)
<1>1. Cardinality(S) = Inst!Cardinality(S) /\ n \in Nat
  BY FS_CardinalityType DEF Cardinality, Inst!Cardinality
<1>2. \E f : f \in [1..n -> S] /\ Inst!IsInjective(f)
  BY FS_CardinalityType
     DEF ExistsBijection, Bijection, Injection, IsInjective, Inst!IsInjective
<1>3. s \in [1..n -> S] /\ Inst!IsInjective(s)
  BY <1>1, <1>2 DEF Inst!SetToSeq
<1>4. s \in Injection(1..n, S)
  BY <1>3 DEF Injection, IsInjective, Inst!IsInjective
<1>5. IsFiniteSet(1..n) /\ Cardinality(1..n) = n
  BY <1>1, FS_Interval
<1>6. s \in Surjection(1..n, S)
  BY <1>4, <1>5, FS_Injection
<1>7. \A a \in S : \E i \in 1..n : s[i] = a
  BY <1>6 DEF Surjection
<1> HIDE DEF s, n
<1>8. e = [i \in 1..n |-> Inst!Do(what, s[i])]
  BY <1>3 DEF Inst!Each, s
<1>9. e \in Seq({Inst!Do(what, a) : a \in S}) /\ Len(e) = n
  BY <1>1, <1>3, <1>8 DEF n
<1>10. \A i \in 1..n : e[i] = Inst!Do(what, s[i]) /\ e[i].do = what
  BY <1>8 DEF Inst!Do
<1>11. Sorted(e)
  BY <1>9, <1>10, Ranks DEF Sorted
<1>12. Left(e) = {Inst!Do(what, a) : a \in S}
  BY <1>3, <1>7, <1>9, <1>10 DEF Left
<1> QED
  BY <1>9, <1>11, <1>12

LEMMA InSeq ==
  ASSUME NEW Y, NEW X, Y \subseteq X, NEW s \in Seq(Y)
  PROVE  s \in Seq(X)
OBVIOUS

LEMMA InstAssumed ==
  ASSUME Inst!InstallationAssumption
  PROVE  /\ MaxGen \in Nat \ {0} /\ Inst!Gens = 1..MaxGen
         /\ IsFiniteSet(Wrappers) /\ IsFiniteSet(Links)
         /\ none # mine /\ none \notin Inst!Gens /\ mine \notin Inst!Gens
         /\ none \notin {"install", "uninstall"}
         /\ "current" \in Inst!Paths /\ "current" \notin Links
         /\ Wrappers \cup Links \subseteq Inst!Paths
         /\ \A p, g : Inst!Payload(p, g) \in {1, g}
         /\ \A g : Inst!Payload("current", g) = g
         /\ \A p, g : p \in Inst!Paths /\ g \in Inst!Gens =>
              Inst!Payload(p, g) \in Inst!Gens
<1>1. /\ MaxGen \in Nat \ {0} /\ Inst!Gens = 1..MaxGen
      /\ none # mine /\ none \notin Inst!Gens /\ mine \notin Inst!Gens
      /\ none \notin {"install", "uninstall"} /\ "current" \notin Links
  BY DEF Inst!InstallationAssumption, Inst!Gens
<1>2. IsFiniteSet(Wrappers) /\ IsFiniteSet(Links)
  BY DEF Inst!InstallationAssumption, Inst!IsFiniteSet, IsFiniteSet
<1>3. /\ \A p, g : Inst!Payload(p, g) \in {1, g}
      /\ \A g : Inst!Payload("current", g) = g
  BY <1>1 DEF Inst!Payload
<1>4. "current" \in Inst!Paths /\ Wrappers \cup Links \subseteq Inst!Paths
  BY DEF Inst!Paths
<1>5. 1 \in Inst!Gens
  BY <1>1
<1>6. \A p, g : p \in Inst!Paths /\ g \in Inst!Gens =>
        Inst!Payload(p, g) \in Inst!Gens
  BY <1>3, <1>5
<1> QED
  BY <1>1, <1>2, <1>3, <1>4, <1>6

LEMMA ManifestsListed ==
  ASSUME Inst!InstallationAssumption, NEW m \in Manifests
  PROVE  /\ m.has \in BOOLEAN /\ m.vers \subseteq Inst!Gens
         /\ m.gen \in 0..MaxGen
         /\ m.has => m.gen \in Inst!Gens /\ m.gen \in m.vers
         /\ ~m.has => m = Inst!NoManifest /\ m.vers = {}
         /\ \A p \in Inst!Paths :
              /\ Inst!Recorded(m, p) \subseteq Inst!Gens
              /\ m.has => Inst!Recorded(m, p) = {Inst!Payload(p, m.gen)}
              /\ ~m.has => Inst!Recorded(m, p) = {}
<1>1. /\ m.has \in BOOLEAN /\ m.vers \subseteq Inst!Gens
      /\ m.gen \in 0..MaxGen
      /\ (m.has => m.gen \in Inst!Gens /\ m.gen \in m.vers)
      /\ (~m.has => m = Inst!NoManifest /\ m.vers = {})
  <2>1. CASE m = Inst!NoManifest
    <3>1. m.has = FALSE
      BY <2>1, Zenon DEF Inst!NoManifest
    <3>2. m.gen = 0
      BY <2>1, Zenon DEF Inst!NoManifest
    <3>3. m.vers = {}
      BY <2>1, Zenon DEF Inst!NoManifest
    <3>4. m.gen \in 0..MaxGen
      BY <3>2, InstAssumed
    <3> QED
      BY <2>1, <3>1, <3>3, <3>4, Zenon
  <2>2. CASE m # Inst!NoManifest
    <3>1. /\ m \in [has : {TRUE}, gen : Inst!Gens, vers : SUBSET Inst!Gens]
          /\ m.gen \in m.vers
      BY <2>2 DEF Manifests
    <3>2. m.has = TRUE
      BY <3>1, Zenon
    <3>3. m.gen \in Inst!Gens
      BY <3>1, Zenon
    <3>4. m.vers \in SUBSET Inst!Gens
      BY <3>1, Zenon
    <3>5. m.gen \in 0..MaxGen
      BY <3>3, InstAssumed
    <3> QED
      BY <3>1, <3>2, <3>3, <3>4, <3>5, Zenon
  <2> QED
    BY <2>1, <2>2
<1> QED
  BY <1>1, InstAssumed DEF Inst!Recorded

LEMMA PlanIn ==
  ASSUME NEW what \in Chores, NEW S,
         S \subseteq Inst!Paths \cup Inst!Gens \cup {none}
  PROVE  {Inst!Do(what, a) : a \in S} \subseteq Items
BY DEF Items, Inst!Do

\* One more step, or one more for each element of a set, behind a plan.
LEMMA PlanMore ==
  ASSUME NEW s \in Seq(Items), Sorted(s), NEW what \in Chores,
         \A x \in Left(s) : Rank(x.do) <= Rank(what)
  PROVE  /\ \A a \in Inst!Paths \cup Inst!Gens \cup {none} :
              LET t == s \o <<Inst!Do(what, a)>>
              IN  /\ t \in Seq(Items) /\ Sorted(t)
                  /\ Left(t) = Left(s) \cup {Inst!Do(what, a)}
         /\ \A S : IsFiniteSet(S) /\ S \subseteq Inst!Paths \cup Inst!Gens =>
              LET t == s \o Inst!Each(what, S)
              IN  /\ t \in Seq(Items) /\ Sorted(t)
                  /\ Left(t) = Left(s) \cup {Inst!Do(what, a) : a \in S}
<1>1. \A a : Inst!Do(what, a).do = what
  BY DEF Inst!Do
<1>2. ASSUME NEW a \in Inst!Paths \cup Inst!Gens \cup {none}
      PROVE  LET t == s \o <<Inst!Do(what, a)>>
             IN  /\ t \in Seq(Items) /\ Sorted(t)
                 /\ Left(t) = Left(s) \cup {Inst!Do(what, a)}
  <2> DEFINE u == <<Inst!Do(what, a)>>
  <2>1. Inst!Do(what, a) \in Items
    BY DEF Items, Inst!Do
  <2>2. u \in Seq(Items) /\ Left(u) = {Inst!Do(what, a)} /\ Sorted(u)
    BY <2>1, LeftOne
  <2> HIDE DEF u
  <2>3. \A x \in Left(s), y \in Left(u) : Rank(x.do) <= Rank(y.do)
    BY <1>1, <2>2
  <2>4. s \o u \in Seq(Items) /\ Sorted(s \o u)
        /\ Left(s \o u) = Left(s) \cup Left(u)
    BY <2>2, <2>3, LeftConcat
  <2> QED
    BY <2>2, <2>4 DEF u
<1>3. ASSUME NEW S, IsFiniteSet(S), S \subseteq Inst!Paths \cup Inst!Gens
      PROVE  LET t == s \o Inst!Each(what, S)
             IN  /\ t \in Seq(Items) /\ Sorted(t)
                 /\ Left(t) = Left(s) \cup {Inst!Do(what, a) : a \in S}
  <2> DEFINE u == Inst!Each(what, S)
             all == {Inst!Do(what, a) : a \in S}
  <2>1. all \subseteq Items
    BY <1>3, PlanIn
  <2>2. u \in Seq(all) /\ Left(u) = all /\ Sorted(u)
    BY <1>3, LeftEach
  <2>3. \A y \in all : y.do = what
    BY <1>1
  <2> HIDE DEF u, all
  <2>4. u \in Seq(Items)
    BY <2>1, <2>2, InSeq
  <2>5. \A x \in Left(s), y \in Left(u) : Rank(x.do) <= Rank(y.do)
    BY <2>2, <2>3
  <2>6. s \o u \in Seq(Items) /\ Sorted(s \o u)
        /\ Left(s \o u) = Left(s) \cup Left(u)
    BY <2>2, <2>4, <2>5, LeftConcat
  <2> QED
    BY <2>2, <2>6 DEF u, all
<1> QED
  BY <1>2, <1>3

LEMMA Nonempty ==
  ASSUME NEW X, NEW s \in Seq(X), Left(s) # {}
  PROVE  s # <<>>
BY DEF Left

LEMMA InstallPlan ==
  ASSUME Inst!InstallationAssumption, NEW c, pr[c].gen \in Inst!Gens
  PROVE  LET s == Inst!InstallSteps(c)
         IN  /\ s \in Seq(Items) /\ s # <<>> /\ Sorted(s)
             /\ Left(s) = ByInstall(pr[c].gen)
<1> DEFINE g == pr[c].gen
           s1 == <<Inst!Do("build", g)>>
           s2 == s1 \o Inst!Each("write", Wrappers)
           s3 == s2 \o <<Inst!Do("write", "current")>>
           s4 == s3 \o Inst!Each("write", Links)
           s5 == s4 \o <<Inst!Do("publish", none)>>
<1>1. /\ \A w, a : Inst!Do(w, a).do = w
      /\ Inst!Paths = Wrappers \cup Links \cup {"current"}
  BY DEF Inst!Do, Inst!Paths
<1>0. /\ Rank("build") = 1 /\ Rank("write") = 2 /\ Rank("publish") = 4
      /\ {"build", "write", "publish"} \subseteq Chores
  BY DEF Rank, Chores
<1>2. s1 \in Seq(Items) /\ Sorted(s1) /\ Left(s1) = {Inst!Do("build", g)}
  <2>1. Inst!Do("build", g) \in Items
    BY DEF Items, Inst!Do, Chores
  <2> QED
    BY <2>1, LeftOne
<1>16. /\ "current" \in Inst!Paths \cup Inst!Gens \cup {none}
       /\ \A S \in {Wrappers, Links} :
            IsFiniteSet(S) /\ S \subseteq Inst!Paths \cup Inst!Gens
  BY InstAssumed
<1>3. Inst!InstallSteps(c) = s5
  BY DEF Inst!InstallSteps
<1> HIDE DEF s1
<1>4. /\ s2 \in Seq(Items) /\ Sorted(s2)
      /\ Left(s2) = Left(s1) \cup {Inst!Do("write", a) : a \in Wrappers}
  <2>1. "write" \in Chores /\ \A x \in Left(s1) : Rank(x.do) <= Rank("write")
    BY <1>0, <1>1, <1>2
  <2> QED
    BY <1>0, <1>2, <1>16, <2>1, PlanMore
<1> HIDE DEF s2
<1>5. \A x \in Left(s2) : x.do \in {"build", "write"}
  BY <1>1, <1>2, <1>4
<1>6. /\ s3 \in Seq(Items) /\ Sorted(s3)
      /\ Left(s3) = Left(s2) \cup {Inst!Do("write", "current")}
  <2>1. "write" \in Chores /\ \A x \in Left(s2) : Rank(x.do) <= Rank("write")
    BY <1>0, <1>5
  <2> QED
    BY <1>0, <1>4, <1>16, <2>1, PlanMore, InstAssumed
<1> HIDE DEF s3
<1>7. \A x \in Left(s3) : x.do \in {"build", "write"}
  BY <1>1, <1>5, <1>6
<1>8. /\ s4 \in Seq(Items) /\ Sorted(s4)
      /\ Left(s4) = Left(s3) \cup {Inst!Do("write", a) : a \in Links}
  <2>1. "write" \in Chores /\ \A x \in Left(s3) : Rank(x.do) <= Rank("write")
    BY <1>0, <1>7
  <2> QED
    BY <1>0, <1>6, <1>16, <2>1, PlanMore, InstAssumed
<1> HIDE DEF s4
<1>9. \A x \in Left(s4) : x.do \in {"build", "write"}
  BY <1>1, <1>7, <1>8
<1>10. /\ s5 \in Seq(Items) /\ Sorted(s5)
       /\ Left(s5) = Left(s4) \cup {Inst!Do("publish", none)}
  BY <1>0, <1>1, <1>8, <1>9, PlanMore
<1> HIDE DEF s5
<1>11. Left(s5) = ByInstall(g)
  BY <1>1, <1>2, <1>4, <1>6, <1>8, <1>10 DEF ByInstall
<1>12. s5 # <<>>
  BY <1>10, Nonempty
<1> QED
  BY <1>3, <1>10, <1>11, <1>12

LEMMA UninstallPlan ==
  ASSUME Inst!InstallationAssumption, NEW c, pr[c].prev \in Manifests
  PROVE  LET s == Inst!UninstallSteps(c)
         IN  /\ s \in Seq(Items) /\ s # <<>> /\ Sorted(s)
             /\ Left(s) = ByUninstall(pr[c].prev)
<1> DEFINE V == pr[c].prev.vers
           s1 == <<Inst!Do("agent", none)>>
           s2 == s1 \o Inst!Each("unlink", Links)
           s3 == s2 \o Inst!Each("unlink", Wrappers)
           s4 == s3 \o <<Inst!Do("unlink", "current")>>
           s5 == s4 \o Inst!Each("rmtree", V)
           s6 == s5 \o <<Inst!Do("forget", none)>>
<1>1. /\ \A w, a : Inst!Do(w, a).do = w
      /\ Inst!Paths = Wrappers \cup Links \cup {"current"}
  BY DEF Inst!Do, Inst!Paths
<1>0. /\ Rank("agent") = 1 /\ Rank("unlink") = 2 /\ Rank("rmtree") = 3
      /\ Rank("forget") = 4
      /\ {"agent", "unlink", "rmtree", "forget"} \subseteq Chores
  BY DEF Rank, Chores
<1>2. s1 \in Seq(Items) /\ Sorted(s1) /\ Left(s1) = {Inst!Do("agent", none)}
  <2>1. Inst!Do("agent", none) \in Items
    BY DEF Items, Inst!Do, Chores
  <2> QED
    BY <2>1, LeftOne
<1>16. /\ "current" \in Inst!Paths \cup Inst!Gens \cup {none}
       /\ \A S \in {Wrappers, Links} :
            IsFiniteSet(S) /\ S \subseteq Inst!Paths \cup Inst!Gens
  BY InstAssumed
<1>3. Inst!UninstallSteps(c) = s6
  BY DEF Inst!UninstallSteps
<1>15. V \subseteq Inst!Gens /\ IsFiniteSet(V)
  <2>1. V \in SUBSET Inst!Gens
    BY ManifestsListed
  <2>2. IsFiniteSet(1..MaxGen)
    <3>1. 1 \in Int /\ MaxGen \in Int
      BY InstAssumed
    <3> QED
      BY <3>1, FS_Interval
  <2>3. IsFiniteSet(V)
    BY <2>1, <2>2, InstAssumed, FS_Subset
  <2> QED
    BY <2>1, <2>3
<1> HIDE DEF s1, V
<1>4. /\ s2 \in Seq(Items) /\ Sorted(s2)
      /\ Left(s2) = Left(s1) \cup {Inst!Do("unlink", a) : a \in Links}
  <2>1. "unlink" \in Chores /\ \A x \in Left(s1) : Rank(x.do) <= Rank("unlink")
    BY <1>0, <1>1, <1>2
  <2> QED
    BY <1>0, <1>2, <1>16, <2>1, PlanMore
<1> HIDE DEF s2
<1>5. \A x \in Left(s2) : x.do \in {"agent", "unlink"}
  BY <1>1, <1>2, <1>4
<1>6. /\ s3 \in Seq(Items) /\ Sorted(s3)
      /\ Left(s3) = Left(s2) \cup {Inst!Do("unlink", a) : a \in Wrappers}
  <2>1. "unlink" \in Chores /\ \A x \in Left(s2) : Rank(x.do) <= Rank("unlink")
    BY <1>0, <1>5
  <2> QED
    BY <1>0, <1>4, <1>16, <2>1, PlanMore, InstAssumed
<1> HIDE DEF s3
<1>7. \A x \in Left(s3) : x.do \in {"agent", "unlink"}
  BY <1>1, <1>5, <1>6
<1>8. /\ s4 \in Seq(Items) /\ Sorted(s4)
      /\ Left(s4) = Left(s3) \cup {Inst!Do("unlink", "current")}
  <2>1. "unlink" \in Chores /\ \A x \in Left(s3) : Rank(x.do) <= Rank("unlink")
    BY <1>0, <1>7
  <2> QED
    BY <1>0, <1>6, <1>16, <2>1, PlanMore, InstAssumed
<1> HIDE DEF s4
<1>9. \A x \in Left(s4) : x.do \in {"agent", "unlink"}
  BY <1>1, <1>7, <1>8
<1>10. /\ s5 \in Seq(Items) /\ Sorted(s5)
       /\ Left(s5) = Left(s4) \cup {Inst!Do("rmtree", a) : a \in V}
  BY <1>0, <1>1, <1>8, <1>9, <1>15, PlanMore
<1> HIDE DEF s5
<1>11. \A x \in Left(s5) : x.do \in {"agent", "unlink", "rmtree"}
  BY <1>1, <1>9, <1>10
<1>12. /\ s6 \in Seq(Items) /\ Sorted(s6)
       /\ Left(s6) = Left(s5) \cup {Inst!Do("forget", none)}
  BY <1>0, <1>1, <1>10, <1>11, PlanMore
<1> HIDE DEF s6
<1>13. Left(s6) = ByUninstall(pr[c].prev)
  BY <1>1, <1>2, <1>4, <1>6, <1>8, <1>10, <1>12 DEF ByUninstall, V
<1>14. s6 # <<>>
  BY <1>12, Nonempty
<1> QED
  BY <1>3, <1>12, <1>13, <1>14

-----------------------------------------------------------------------------
(* One step of one command.                                                *)

GoesOn(c, pc, todo) ==
  /\ pr' \in [Procs -> Tasks]
  /\ pr'[c].pc = pc /\ pr'[c].todo = todo
  /\ pr'[c].cmd = pr[c].cmd /\ pr'[c].gen = pr[c].gen
  /\ pr'[c].prev = pr[c].prev
  /\ \A d \in Procs : d # c => pr'[d] = pr[d]

Stops(c) ==
  /\ pr' \in [Procs -> Tasks]
  /\ pr'[c].pc = "idle" /\ pr'[c].cmd = none
  /\ \A d \in Procs : d # c => pr'[d] = pr[d]

LEMMA TaskFields ==
  ASSUME Inst!InstallationAssumption, NEW t \in Tasks
  PROVE  /\ t.pc \in {"idle", "check", "go", "building"}
         /\ t.cmd \in {none, "install", "uninstall"}
         /\ t.gen \in 0..MaxGen /\ t.prev \in Manifests
         /\ t.todo \in Seq(Items)
BY DEF Tasks

\* A command goes to another place and keeps its plan, or makes a step of it.
LEMMA Going ==
  ASSUME InstTypes, NEW c \in Procs,
         NEW pc \in {"idle", "check", "go", "building"},
         NEW todo \in Seq(Items),
         pr' = [pr EXCEPT ![c].pc = pc, ![c].todo = todo]
  PROVE  GoesOn(c, pc, todo)
<1> DEFINE r == [pr[c] EXCEPT !.pc = pc, !.todo = todo]
<1>1. pr[c] \in Tasks /\ pr \in [Procs -> Tasks]
  BY DEF InstTypes
<1>2. /\ r \in Tasks /\ r.pc = pc /\ r.todo = todo /\ r.cmd = pr[c].cmd
      /\ r.gen = pr[c].gen /\ r.prev = pr[c].prev
  BY <1>1 DEF Tasks
<1>3. pr' = [pr EXCEPT ![c] = r]
  BY <1>1
<1> HIDE DEF r
<1> QED
  BY <1>1, <1>2, <1>3 DEF GoesOn

LEMMA Passing ==
  ASSUME InstTypes, NEW c \in Procs,
         NEW pc \in {"idle", "check", "go", "building"},
         pr' = [pr EXCEPT ![c].pc = pc]
  PROVE  GoesOn(c, pc, pr[c].todo)
<1> DEFINE r == [pr[c] EXCEPT !.pc = pc]
<1>1. pr[c] \in Tasks /\ pr \in [Procs -> Tasks]
  BY DEF InstTypes
<1>2. /\ r \in Tasks /\ r.pc = pc /\ r.todo = pr[c].todo /\ r.cmd = pr[c].cmd
      /\ r.gen = pr[c].gen /\ r.prev = pr[c].prev
  BY <1>1 DEF Tasks
<1>3. pr' = [pr EXCEPT ![c] = r]
  BY <1>1
<1> HIDE DEF r
<1> QED
  BY <1>1, <1>2, <1>3 DEF GoesOn

LEMMA Making ==
  ASSUME InstTypes, NEW c \in Procs, pr[c].todo # <<>>, Inst!Done(c)
  PROVE  GoesOn(c, pr[c].pc, Tail(pr[c].todo))
<1> DEFINE r == [pr[c] EXCEPT !.todo = Tail(pr[c].todo)]
<1>1. pr[c] \in Tasks /\ pr \in [Procs -> Tasks]
  BY DEF InstTypes
<1>2. Tail(pr[c].todo) \in Seq(Items)
  BY <1>1, LeftTail DEF Tasks
<1>3. /\ r \in Tasks /\ r.pc = pr[c].pc /\ r.todo = Tail(pr[c].todo)
      /\ r.cmd = pr[c].cmd /\ r.gen = pr[c].gen /\ r.prev = pr[c].prev
  BY <1>1, <1>2 DEF Tasks
<1>4. pr' = [pr EXCEPT ![c] = r]
  BY <1>1 DEF Inst!Done
<1> HIDE DEF r
<1> QED
  BY <1>1, <1>3, <1>4 DEF GoesOn

LEMMA Built ==
  ASSUME InstTypes, NEW c \in Procs, pr[c].todo # <<>>,
         pr' = [pr EXCEPT ![c].pc = "go", ![c].todo = Tail(@)]
  PROVE  GoesOn(c, "go", Tail(pr[c].todo))
<1>1. pr[c] \in Tasks /\ pr \in [Procs -> Tasks]
  BY DEF InstTypes
<1>2. Tail(pr[c].todo) \in Seq(Items)
  BY <1>1, LeftTail DEF Tasks
<1>3. pr' = [pr EXCEPT ![c].pc = "go", ![c].todo = Tail(pr[c].todo)]
  BY <1>1 DEF Tasks
<1> QED
  BY <1>2, <1>3, Going

LEMMA Stopping ==
  ASSUME Inst!InstallationAssumption, InstTypes, NEW c \in Procs, Inst!End(c)
  PROVE  Stops(c)
<1>1. Inst!Idle.pc = "idle" /\ Inst!Idle.cmd = none
  BY DEF Inst!Idle
<1>2. Inst!Idle \in Tasks
  <2>1. Inst!NoManifest \in Manifests /\ 0 \in 0..MaxGen
    BY InstAssumed DEF Manifests
  <2> QED
    BY <2>1 DEF Inst!Idle, Tasks
<1> QED
  BY <1>1, <1>2 DEF Stops, Inst!End, InstTypes

\* What the next step is, and what has been done before it.
LEMMA Heads ==
  ASSUME Inst!InstallationAssumption, InstTypes, NEW c \in Procs, Course(c),
         pr[c].pc = "go"
  PROVE  LET h == Head(pr[c].todo)
         IN  /\ h.do \in Chores
             /\ h.do \in {"build", "write", "publish"} => pr[c].cmd = "install"
             /\ h.do \in {"agent", "unlink", "rmtree", "forget"} =>
                  pr[c].cmd = "uninstall"
             /\ h.do = "build" => h = Inst!Do("build", pr[c].gen)
             /\ h.do = "write" => /\ h.at \in Inst!Paths
                                  /\ h = Inst!Do("write", h.at)
                                  /\ ver[pr[c].gen] = "whole"
             /\ h.do = "publish" => /\ ver[pr[c].gen] = "whole"
                                    /\ \A p : ~ToDo(c, "write", p)
             /\ h.do = "unlink" => /\ h.at \in Inst!Paths
                                   /\ h = Inst!Do("unlink", h.at)
             /\ h.do = "rmtree" => /\ h.at \in pr[c].prev.vers
                                   /\ h = Inst!Do("rmtree", h.at)
             /\ h.do \in {"rmtree", "forget"} =>
                  \A p \in Inst!Paths : path[p] = none
             /\ h.do = "forget" => \A v : ~ToDo(c, "rmtree", v)
<1> DEFINE s == pr[c].todo
           h == Head(s)
<1>1. s \in Seq(Items) /\ s # <<>> /\ Sorted(s)
  BY TaskFields DEF InstTypes, Course, Runs
<1>2. h \in Left(s) /\ \A x \in Left(s) : Rank(h.do) <= Rank(x.do)
  BY <1>1, LeftTail
<1>3. \A w, a : Inst!Do(w, a).do = w /\ Inst!Do(w, a).at = a
  BY DEF Inst!Do
<1> HIDE DEF s, h
<1>4. /\ pr[c].cmd \in {"install", "uninstall"}
      /\ pr[c].cmd = "install" => h \in ByInstall(pr[c].gen)
      /\ pr[c].cmd = "uninstall" => h \in ByUninstall(pr[c].prev)
  BY <1>2 DEF Course, Runs, s
<1>5. ASSUME pr[c].cmd = "install"
      PROVE  /\ h.do \in {"build", "write", "publish"}
             /\ (h.do = "build" => h = Inst!Do("build", pr[c].gen))
             /\ (h.do = "write" => h.at \in Inst!Paths
                                   /\ h = Inst!Do("write", h.at))
  BY <1>3, <1>4, <1>5 DEF ByInstall
<1>6. ASSUME pr[c].cmd = "uninstall"
      PROVE  /\ h.do \in {"agent", "unlink", "rmtree", "forget"}
             /\ (h.do = "unlink" => h.at \in Inst!Paths
                                    /\ h = Inst!Do("unlink", h.at))
             /\ (h.do = "rmtree" => h.at \in pr[c].prev.vers
                                    /\ h = Inst!Do("rmtree", h.at))
  BY <1>3, <1>4, <1>6 DEF ByUninstall
<1>7. \A d, a : ToDo(c, d, a) => Rank(h.do) <= Rank(d)
  BY <1>2, <1>3 DEF ToDo, s
<1>8. ASSUME h.do \in {"write", "publish"} PROVE ver[pr[c].gen] = "whole"
  <2>1. pr[c].cmd = "install"
    BY <1>4, <1>6, <1>8
  <2>2. ~ToDo(c, "build", pr[c].gen)
    BY <1>7, <1>8 DEF Rank
  <2> QED
    BY <2>1, <2>2 DEF Course, Runs
<1>9. h.do = "publish" => \A p : ~ToDo(c, "write", p)
  BY <1>7 DEF Rank
<1>10. ASSUME h.do \in {"rmtree", "forget"}, NEW p \in Inst!Paths
       PROVE  path[p] = none
  <2>1. pr[c].cmd = "uninstall"
    BY <1>4, <1>5, <1>10
  <2>2. ~ToDo(c, "unlink", p)
    BY <1>7, <1>10 DEF Rank
  <2> QED
    BY <2>1, <2>2 DEF Course, Runs
<1>11. h.do = "forget" => \A v : ~ToDo(c, "rmtree", v)
  BY <1>7 DEF Rank
<1>12. h.do \in Chores
  BY <1>4, <1>5, <1>6 DEF Chores
<1> QED
  BY <1>4, <1>5, <1>6, <1>8, <1>9, <1>10, <1>11, <1>12 DEF h, s

\* A step that was made is no longer on the list, and every other one is.
LEMMA Progress ==
  ASSUME Inst!InstallationAssumption, InstTypes, NEW c \in Procs, Course(c),
         Runs(c), GoesOn(c, "go", Tail(pr[c].todo)),
         Head(pr[c].todo).do \notin {"publish", "forget"}
  PROVE  /\ Left(pr'[c].todo) \subseteq Left(pr[c].todo)
         /\ pr'[c].todo # <<>> /\ Sorted(pr'[c].todo)
         /\ \A d, a : ToDo(c, d, a) =>
              ToDo(c, d, a)' \/ Head(pr[c].todo) = Inst!Do(d, a)
         /\ pr[c].cmd = "install" => ToDo(c, "publish", none)'
         /\ pr[c].cmd = "uninstall" => ToDo(c, "forget", none)'
<1> DEFINE s == pr[c].todo
<1>1. s \in Seq(Items) /\ s # <<>> /\ Sorted(s) /\ pr'[c].todo = Tail(s)
  BY TaskFields DEF InstTypes, Course, Runs, GoesOn
<1>2. /\ Tail(s) \in Seq(Items) /\ Left(s) = {Head(s)} \cup Left(Tail(s))
      /\ Sorted(Tail(s))
  BY <1>1, LeftTail
<1> HIDE DEF s
<1>3. \A d, a : Inst!Do(d, a).do = d
  BY DEF Inst!Do
<1>4. \A d, a : ToDo(c, d, a) => ToDo(c, d, a)' \/ Head(s) = Inst!Do(d, a)
  BY <1>1, <1>2 DEF ToDo, s
<1>5. pr[c].cmd = "install" => ToDo(c, "publish", none)'
  BY <1>3, <1>4 DEF Course, s
<1>6. pr[c].cmd = "uninstall" => ToDo(c, "forget", none)'
  BY <1>3, <1>4 DEF Course, s
<1>7. pr[c].cmd \in {"install", "uninstall"}
  BY DEF Course, Runs
<1>8. Left(Tail(s)) # {}
  BY <1>1, <1>5, <1>6, <1>7 DEF ToDo
<1>9. Tail(s) # <<>>
  BY <1>2, <1>8, Nonempty
<1> QED
  BY <1>1, <1>2, <1>4, <1>5, <1>6, <1>9 DEF s

-----------------------------------------------------------------------------
(* What a step of one command leaves to the others.                        *)

\* No step but an uninstall's takes a whole version, or a half-built one of
\* another command's.
VersKept(c) ==
  \/ pr[c].cmd = "uninstall"
  \/ \A g \in Inst!Gens :
       /\ ver[g] = "whole" => ver'[g] = "whole"
       /\ ver[g] = "partial" /\ (pr[c].pc # "building" \/ g # pr[c].gen) =>
            ver'[g] = "partial"

LEMMA OthersCourse ==
  ASSUME Inst!InstallationAssumption, InstInv, NEW c \in Procs,
         pr[c].pc # "idle", \A d \in Procs : d # c => pr'[d] = pr[d],
         user' = user, VersKept(c), NEW d \in Procs, d # c
  PROVE  Course(d)'
<1>1. Course(d) /\ Course(c) /\ pr'[d] = pr[d]
      /\ none \notin {"install", "uninstall"}
  BY InstAssumed DEF InstInv
<1>2. CASE pr[d].pc = "idle"
  <2>1. pr'[d].pc = "idle" /\ pr'[d].cmd = none
    BY <1>1, <1>2 DEF Course
  <2> QED
    BY <1>1, <2>1 DEF Course, Runs
<1>3. CASE pr[d].pc # "idle"
  <2>1. pr[c].cmd # "uninstall" /\ pr[d].cmd # "uninstall"
    BY <1>3 DEF InstInv, Company
  <2>2. pr[d].cmd = "install" /\ pr[d].gen \in Inst!Gens
    BY <1>1, <1>3, <2>1 DEF Course
  <2>3. ver[pr[d].gen] = "whole" => ver'[pr[d].gen] = "whole"
    BY <2>1, <2>2 DEF VersKept
  <2>4. pr[d].pc = "building" => ver'[pr[d].gen] = "partial"
    <3>1. pr[d].pc = "building" /\ pr[c].pc = "building" =>
            pr[d].gen # pr[c].gen
      BY DEF InstInv, Company
    <3> QED
      BY <1>1, <2>1, <2>2, <3>1 DEF VersKept, Course
  <2> QED
    BY <1>1, <1>3, <2>2, <2>3, <2>4 DEF Course, Runs, ToDo
<1> QED
  BY <1>2, <1>3

LEMMA CompanyKept ==
  ASSUME Inst!InstallationAssumption, InstInv, NEW c \in Procs,
         pr[c].pc # "idle", \A d \in Procs : d # c => pr'[d] = pr[d],
         \/ Stops(c)
         \/ /\ pr'[c].cmd = pr[c].cmd
            /\ pr'[c].pc = "building" =>
                 \A d \in Procs : d # c /\ pr[d].pc = "building" =>
                   pr[d].gen # pr'[c].gen
  PROVE  Company'
<1>1. ASSUME NEW d \in Procs, NEW e \in Procs, pr'[d].cmd = "uninstall",
             pr'[e].pc # "idle"
      PROVE  d = e
  <2>1. pr[d].cmd = "uninstall"
    BY <1>1, InstAssumed DEF Stops
  <2>2. pr[e].pc # "idle"
    BY <1>1
  <2> QED
    BY <2>1, <2>2 DEF InstInv, Company
<1>2. ASSUME NEW d \in Procs, NEW e \in Procs, pr'[d].pc = "building",
             pr'[e].pc = "building", pr'[d].gen = pr'[e].gen, d # e
      PROVE  FALSE
  BY <1>2 DEF Stops, InstInv, Company
<1> QED
  BY <1>1, <1>2 DEF Company

\* A command ends.
LEMMA StopInv ==
  ASSUME Inst!InstallationAssumption, InstInv, NEW c \in Procs,
         pr[c].pc # "idle", Stops(c), VersKept(c),
         UNCHANGED <<path, user, agent, edits>>,
         ver' \in [Inst!Gens -> {"none", "partial", "torn", "whole"}],
         man' \in Manifests, tried' \in 0..MaxGen, instFaults' \in Nat,
         upset' \in BOOLEAN, upset => upset', Inst!CurrentWhole',
         ~upset' /\ ~upset =>
           /\ man'.has => tried' = 0
           /\ tried' # 0 =>
                First(tried') /\ ver'[tried'] \in {"none", "whole"},
         ~upset' /\ ~upset /\ instFaults' = 0 =>
           /\ \A p \in Inst!Paths :
                path[p] \in {none, mine} \cup Inst!Recorded(man', p)
           /\ \A g \in Inst!Gens : ver'[g] = Listed(g)'
  PROVE  InstInv'
<1>1. InstTypes'
  BY DEF InstInv, InstTypes, Stops
<1>2. Course(c)'
  BY InstAssumed DEF Course, Runs, Stops
<1>3. \A d \in Procs : Course(d)'
  BY <1>2, OthersCourse DEF Stops
<1>4. Company'
  BY CompanyKept DEF Stops
<1>5. ASSUME ~upset' PROVE ~upset /\ \A d \in Procs : pr'[d].pc = "idle"
  <2>1. ~upset
    BY <1>5
  <2> QED
    BY <2>1 DEF InstInv, Calm, Stops
<1>6. First(tried') => First(tried)'
  BY DEF First, Inst!Payload
<1>7. Calm'
  BY <1>5, <1>6 DEF Calm, Runs
<1>8. Flawless'
  <2>1. \A p \in Inst!Paths : Inst!Recorded(man', p) = Inst!Recorded(man, p)'
    BY DEF Inst!Recorded, Inst!Payload
  <2> QED
    BY <1>5, <2>1 DEF Flawless, Runs
<1> QED
  BY <1>1, <1>3, <1>4, <1>7, <1>8 DEF InstInv

-----------------------------------------------------------------------------
(* The ends of commands.                                                   *)

LEMMA InstSimple ==
  ASSUME Inst!InstallationAssumption, InstInv, NEW c \in Procs
  PROVE  /\ InstTypes /\ Course(c) /\ Company /\ Inst!CurrentWhole /\ Calm
         /\ Flawless
         /\ pr[c].prev \in Manifests /\ man \in Manifests
         /\ pr[c].pc # "idle" =>
              /\ pr[c].cmd \in {"install", "uninstall"}
              /\ pr[c].cmd = "install" => pr[c].gen \in Inst!Gens
              /\ ~upset => /\ pr[c].prev = man
                           /\ \A d \in Procs : d # c => pr[d].pc = "idle"
<1>1. /\ InstTypes /\ Course(c) /\ Company /\ Inst!CurrentWhole /\ Calm
      /\ Flawless
  BY DEF InstInv
<1>2. pr[c].prev \in Manifests /\ man \in Manifests
  BY <1>1, TaskFields DEF InstTypes
<1> QED
  BY <1>1, <1>2 DEF Course, Calm

\* The versions stay what they are.
LEMMA SameVers ==
  ASSUME NEW c, ver' = ver
  PROVE  VersKept(c)
BY DEF VersKept

LEMMA CheckRefuses ==
  ASSUME Inst!InstallationAssumption, InstInv, NEW c \in Procs,
         pr[c].pc = "check", Inst!End(c), UNCHANGED Inst!World
  PROVE  InstInv'
<1>1. /\ InstTypes /\ Course(c) /\ Inst!CurrentWhole /\ Calm /\ Flawless
      /\ man \in Manifests
  BY InstSimple
<1>2. Stops(c) /\ VersKept(c)
  BY <1>1, Stopping, SameVers DEF Inst!World
<1>3. UNCHANGED <<path, ver, man, agent, user, tried, edits, instFaults,
                  upset>>
  BY DEF Inst!World
<1>4. ASSUME ~upset PROVE Resting
  BY <1>1, <1>4 DEF Calm, Resting, Runs
<1>5. Inst!CurrentWhole'
  BY <1>1, <1>3 DEF Inst!CurrentWhole
<1>6. man' \in Manifests /\ tried' \in 0..MaxGen /\ instFaults' \in Nat
      /\ upset' \in BOOLEAN /\ (upset => upset')
      /\ ver' \in [Inst!Gens -> {"none", "partial", "torn", "whole"}]
      /\ UNCHANGED <<path, user, agent, edits>>
  BY <1>1, <1>3 DEF InstTypes
<1>7. ~upset' /\ ~upset =>
        /\ man'.has => tried' = 0
        /\ tried' # 0 => First(tried') /\ ver'[tried'] \in {"none", "whole"}
  BY <1>1, <1>3, <1>4 DEF Calm
<1>8. ~upset' /\ ~upset /\ instFaults' = 0 =>
        /\ \A p \in Inst!Paths :
             path[p] \in {none, mine} \cup Inst!Recorded(man', p)
        /\ \A g \in Inst!Gens : ver'[g] = Listed(g)'
  BY <1>1, <1>3, <1>4 DEF Flawless, Listed
<1> QED
  BY <1>1, <1>2, <1>5, <1>6, <1>7, <1>8, StopInv

\* Of an install that runs undisturbed, without a manifest or without a fault.
LEMMA InstallSoFar ==
  ASSUME Inst!InstallationAssumption, InstInv, NEW c \in Procs, Runs(c),
         pr[c].cmd = "install", ~upset
  PROVE  /\ pr[c].gen \in Inst!Gens /\ pr[c].gen \in 1..MaxGen
         /\ man.has => tried = 0
         /\ ~man.has => /\ First(pr[c].gen)
                        /\ pr[c].pc = "go" =>
                             ver[pr[c].gen] \in {"none", "whole"}
         /\ instFaults = 0 =>
              /\ \A p \in Inst!Paths :
                   path[p] \in {none, Inst!Payload(p, pr[c].gen)}
                                 \cup Inst!Recorded(man, p)
              /\ \A g \in Inst!Gens : ver[g] = Listed(g) \/ g = pr[c].gen
              /\ pr[c].pc = "go" =>
                   ver[pr[c].gen] \in {Listed(pr[c].gen), "whole"}
<1>1. /\ Calm /\ Flawless /\ pr[c].prev = man /\ pr[c].gen \in Inst!Gens
  BY InstSimple DEF Runs
<1> QED
  BY <1>1, InstAssumed DEF Calm, Flawless

LEMMA BuildRefusedStep ==
  ASSUME Inst!InstallationAssumption, InstInv, NEW c \in Procs,
         Inst!BuildRefused(c)
  PROVE  InstInv'
<1>1. /\ InstTypes /\ Course(c) /\ Inst!CurrentWhole /\ man \in Manifests
  BY InstSimple
<1>2. /\ Stops(c) /\ VersKept(c) /\ pr[c].pc = "go"
      /\ UNCHANGED <<path, ver, man, agent, user, tried, edits, instFaults,
                  upset>>
  BY <1>1, Stopping, SameVers DEF Inst!BuildRefused, Inst!World, Inst!Doing
<1>3. pr[c].cmd = "install" /\ ver[pr[c].gen] \in {"partial", "torn"}
  <2>1. /\ Head(pr[c].todo).do = "build"
        /\ ver[Head(pr[c].todo).at] \in {"partial", "torn"}
    BY DEF Inst!BuildRefused, Inst!Doing, Inst!At
  <2>2. /\ pr[c].cmd = "install"
        /\ Head(pr[c].todo) = Inst!Do("build", pr[c].gen)
    BY <1>1, <1>2, <2>1, Heads
  <2> QED
    BY <2>1, <2>2 DEF Inst!Do
<1>4. Inst!CurrentWhole'
  BY <1>1, <1>2 DEF Inst!CurrentWhole
<1>5. man' \in Manifests /\ tried' \in 0..MaxGen /\ instFaults' \in Nat
      /\ upset' \in BOOLEAN /\ (upset => upset')
      /\ ver' \in [Inst!Gens -> {"none", "partial", "torn", "whole"}]
      /\ UNCHANGED <<path, user, agent, edits>>
  BY <1>1, <1>2 DEF InstTypes
<1>6. ASSUME ~upset PROVE man.has /\ tried = 0 /\ instFaults # 0
  <2>1. man.has /\ tried = 0
    BY <1>2, <1>3, <1>6, InstallSoFar DEF Runs
  <2>2. instFaults # 0
    BY <1>2, <1>3, <1>6, InstallSoFar DEF Runs, Listed
  <2> QED
    BY <2>1, <2>2
<1> QED
  BY <1>1, <1>2, <1>4, <1>5, <1>6, StopInv

\* A published manifest lists what the install has made.
LEMMA PublishStep ==
  ASSUME Inst!InstallationAssumption, InstInv, NEW c \in Procs, Inst!Publish(c)
  PROVE  InstInv'
<1> DEFINE g == pr[c].gen
           V == pr[c].prev.vers
<1>1. /\ InstTypes /\ Course(c) /\ Inst!CurrentWhole /\ Flawless
      /\ pr[c].prev \in Manifests /\ man \in Manifests
  BY InstSimple
<1>2. /\ Stops(c) /\ VersKept(c) /\ pr[c].pc = "go" /\ Runs(c)
      /\ UNCHANGED <<path, ver, agent, user, edits, instFaults, upset>>
      /\ man' = [has |-> TRUE, gen |-> g, vers |-> V \cup {g}] /\ tried' = 0
  BY <1>1, Stopping, SameVers DEF Inst!Publish, Inst!Doing, Runs
<1>3. /\ pr[c].cmd = "install" /\ ver[g] = "whole"
      /\ \A p : ~ToDo(c, "write", p)
  BY <1>1, <1>2, Heads DEF Inst!Publish, Inst!Doing
<1>4. g \in Inst!Gens /\ V \subseteq Inst!Gens
  BY <1>1, <1>2, <1>3, InstSimple, ManifestsListed
<1>5. man'.has = TRUE
  BY <1>2, Zenon
<1>6. man'.gen = g /\ man'.vers = V \cup {g}
  BY <1>2
<1>7. man' \in Manifests
  <2>1. man' \in [has : {TRUE}, gen : Inst!Gens, vers : SUBSET Inst!Gens]
    BY <1>2, <1>4
  <2> QED
    BY <1>6, <2>1 DEF Manifests
<1>8. Inst!CurrentWhole'
  BY <1>1, <1>2 DEF Inst!CurrentWhole
<1>9. /\ tried' \in 0..MaxGen /\ instFaults' \in Nat
      /\ upset' \in BOOLEAN /\ (upset => upset')
      /\ ver' \in [Inst!Gens -> {"none", "partial", "torn", "whole"}]
      /\ UNCHANGED <<path, user, agent, edits>>
  BY <1>1, <1>2, InstAssumed DEF InstTypes
<1>10. ASSUME ~upset, instFaults = 0
       PROVE  /\ \A p \in Inst!Paths :
                   path[p] \in {none, mine} \cup Inst!Recorded(man', p)
              /\ \A h \in Inst!Gens : ver'[h] = Listed(h)'
  <2>1. pr[c].prev = man
    BY <1>2, <1>10, InstSimple
  <2>2. /\ \A p \in Inst!Paths : path[p] = Inst!Payload(p, g)
        /\ \A h \in Inst!Gens : ver[h] = Listed(h) \/ h = g
    BY <1>1, <1>2, <1>3, <1>10 DEF Flawless
  <2>3. \A p \in Inst!Paths : Inst!Recorded(man', p) = {Inst!Payload(p, g)}
    BY <1>5, <1>6, <1>7, ManifestsListed
  <2>4. \A h \in Inst!Gens : ver'[h] = Listed(h)'
    BY <1>2, <1>3, <1>6, <2>1, <2>2 DEF Listed
  <2> QED
    BY <2>2, <2>3, <2>4
<1> QED
  BY <1>1, <1>2, <1>7, <1>8, <1>9, <1>10, StopInv

LEMMA ForgetStep ==
  ASSUME Inst!InstallationAssumption, InstInv, NEW c \in Procs, Inst!Forget(c)
  PROVE  InstInv'
<1>1. /\ InstTypes /\ Course(c) /\ Inst!CurrentWhole /\ Flawless
      /\ Calm /\ man \in Manifests /\ pr[c].prev \in Manifests
  BY InstSimple
<1>2. /\ Stops(c) /\ VersKept(c) /\ pr[c].pc = "go" /\ Runs(c)
      /\ UNCHANGED <<path, ver, agent, user, edits, instFaults, upset, tried>>
      /\ man' = Inst!NoManifest
  BY <1>1, Stopping, SameVers DEF Inst!Forget, Inst!Doing, Runs
<1>3. /\ pr[c].cmd = "uninstall" /\ \A p \in Inst!Paths : path[p] = none
      /\ \A v : ~ToDo(c, "rmtree", v)
  BY <1>1, <1>2, Heads DEF Inst!Forget, Inst!Doing
<1>4. man' \in Manifests
  BY <1>2 DEF Manifests
<1>5. man'.has = FALSE
  BY <1>2, Zenon DEF Inst!NoManifest
<1>6. man'.vers = {}
  BY <1>2, Zenon DEF Inst!NoManifest
<1>7. Inst!CurrentWhole'
  BY <1>1, <1>2 DEF Inst!CurrentWhole
<1>8. /\ tried' \in 0..MaxGen /\ instFaults' \in Nat
      /\ upset' \in BOOLEAN /\ (upset => upset')
      /\ ver' \in [Inst!Gens -> {"none", "partial", "torn", "whole"}]
      /\ UNCHANGED <<path, user, agent, edits>>
  BY <1>1, <1>2 DEF InstTypes
<1>9. ASSUME ~upset PROVE tried' = 0
  <2>1. pr[c].prev = man /\ pr[c].prev.has
    BY <1>1, <1>2, <1>3, <1>9, InstSimple, InstAssumed DEF Course
  <2> QED
    BY <1>1, <1>2, <1>9, <2>1 DEF Calm
<1>10. ASSUME ~upset, instFaults = 0
       PROVE  \A h \in Inst!Gens : ver'[h] = Listed(h)'
  BY <1>1, <1>2, <1>3, <1>6, <1>10 DEF Flawless, Listed
<1> QED
  BY <1>1, <1>2, <1>3, <1>4, <1>5, <1>7, <1>8, <1>9, <1>10, StopInv

\* A build that fails takes its unmarked directory with it.
LEMMA FailBuildStep ==
  ASSUME Inst!InstallationAssumption, InstInv, NEW c \in Procs,
         Inst!FailBuild(c)
  PROVE  InstInv'
<1> DEFINE g == pr[c].gen
<1>1. /\ InstTypes /\ Course(c) /\ Inst!CurrentWhole /\ Calm
      /\ pr[c].prev \in Manifests /\ man \in Manifests
  BY InstSimple
<1>2. /\ Stops(c) /\ pr[c].pc = "building" /\ Runs(c)
      /\ UNCHANGED <<path, man, agent, user, edits, upset>>
      /\ instFaults' = instFaults + 1
  BY <1>1, Stopping DEF Inst!FailBuild, Runs
<1>3. /\ pr[c].cmd = "install" /\ g \in Inst!Gens /\ ver[g] = "partial"
      /\ Head(pr[c].todo).at = g
  BY <1>1, <1>2 DEF Course, Inst!Do
<1>4. /\ ver' = [ver EXCEPT ![g] = "none"]
      /\ tried' = IF ~pr[c].prev.has THEN g ELSE tried
  BY <1>3 DEF Inst!FailBuild, Inst!Failed, Inst!At
<1>5. VersKept(c)
  BY <1>1, <1>2, <1>3, <1>4 DEF VersKept, InstTypes
<1>6. Inst!CurrentWhole'
  BY <1>1, <1>2, <1>3, <1>4 DEF Inst!CurrentWhole, InstTypes
<1>7. /\ tried' \in 0..MaxGen /\ instFaults' \in Nat /\ instFaults' # 0
      /\ upset' \in BOOLEAN /\ (upset => upset') /\ man' \in Manifests
      /\ ver' \in [Inst!Gens -> {"none", "partial", "torn", "whole"}]
      /\ UNCHANGED <<path, user, agent, edits>>
  <2>5. tried' = g \/ tried' = tried
    BY <1>4, Zenon
  <2>1. tried' \in 0..MaxGen
    BY <1>1, <1>3, <2>5, InstAssumed DEF InstTypes
  <2>2. instFaults' \in Nat /\ instFaults' # 0
    BY <1>1, <1>2 DEF InstTypes
  <2>3. ver' \in [Inst!Gens -> {"none", "partial", "torn", "whole"}]
    BY <1>1, <1>3, <1>4 DEF InstTypes
  <2>4. upset' \in BOOLEAN /\ (upset => upset') /\ man' \in Manifests
    BY <1>1, <1>2 DEF InstTypes
  <2> QED
    BY <1>2, <2>1, <2>2, <2>3, <2>4
<1>8. ASSUME ~upset
      PROVE  /\ man.has => tried' = 0
             /\ tried' # 0 =>
                  First(tried') /\ ver'[tried'] \in {"none", "whole"}
  <2>1. pr[c].prev = man
    BY <1>2, <1>8, InstSimple
  <2>2. (man.has => tried = 0) /\ (~man.has => First(g))
    BY <1>2, <1>3, <1>8, InstallSoFar
  <2>3. ver'[g] = "none"
    BY <1>1, <1>3, <1>4 DEF InstTypes
  <2> QED
    BY <1>4, <2>1, <2>2, <2>3
<1> QED
  BY <1>1, <1>2, <1>5, <1>6, <1>7, <1>8, StopInv

\* A tree whose removal stops half-way is one that nothing leads into.
LEMMA HalfRemovedVers ==
  ASSUME Inst!InstallationAssumption, InstInv, NEW c \in Procs, Runs(c),
         Inst!HalfRemoved(c)
  PROVE  /\ VersKept(c)
         /\ ver' \in [Inst!Gens -> {"none", "partial", "torn", "whole"}]
         /\ path' = path => Inst!CurrentWhole'
         /\ pr[c].cmd = "install" => ver' = ver
<1>1. InstTypes /\ Course(c) /\ Inst!CurrentWhole
  BY InstSimple
<1>2. CASE Inst!Doing(c, "rmtree")
  <2>1. pr[c].cmd = "uninstall" /\ path["current"] = none
    BY <1>1, <1>2, Heads, InstAssumed DEF Inst!Doing
  <2>2. ver' = ver \/ \E v \in {"partial", "torn"} :
                        ver' = [ver EXCEPT ![Inst!At(c)] = v]
    BY DEF Inst!HalfRemoved
  <2>3. ver' \in [Inst!Gens -> {"none", "partial", "torn", "whole"}]
    BY <1>1, <2>2 DEF InstTypes
  <2>4. path' = path => Inst!CurrentWhole'
    BY <2>1, InstAssumed DEF Inst!CurrentWhole
  <2> QED
    BY <2>1, <2>3, <2>4 DEF VersKept
<1>3. CASE ~Inst!Doing(c, "rmtree")
  <2>1. ver' = ver
    BY <1>3 DEF Inst!HalfRemoved
  <2> QED
    BY <1>1, <2>1, SameVers DEF InstTypes, Inst!CurrentWhole
<1> QED
  BY <1>2, <1>3

LEMMA FailStep ==
  ASSUME Inst!InstallationAssumption, InstInv, NEW c \in Procs, Inst!Fail(c)
  PROVE  InstInv'
<1> DEFINE g == pr[c].gen
<1>1. /\ InstTypes /\ Course(c) /\ Calm
      /\ pr[c].prev \in Manifests /\ man \in Manifests
  BY InstSimple
<1>2. /\ Stops(c) /\ pr[c].pc = "go" /\ Runs(c) /\ Inst!HalfRemoved(c)
      /\ UNCHANGED <<path, man, agent, user, edits, upset>>
      /\ instFaults' = instFaults + 1
      /\ tried' = IF pr[c].cmd = "install" /\ ~pr[c].prev.has THEN g
                  ELSE tried
  BY <1>1, Stopping DEF Inst!Fail, Runs, Inst!Failed
<1>3. /\ VersKept(c) /\ Inst!CurrentWhole'
      /\ ver' \in [Inst!Gens -> {"none", "partial", "torn", "whole"}]
      /\ (pr[c].cmd = "install" => ver' = ver)
  BY <1>2, HalfRemovedVers
<1>4. pr[c].cmd = "install" => g \in Inst!Gens
  BY <1>1 DEF Course
<1>5. /\ tried' \in 0..MaxGen /\ instFaults' \in Nat /\ instFaults' # 0
      /\ upset' \in BOOLEAN /\ (upset => upset') /\ man' \in Manifests
      /\ UNCHANGED <<path, user, agent, edits>>
  BY <1>1, <1>2, <1>4, InstAssumed DEF InstTypes
<1>6. ASSUME ~upset
      PROVE  /\ man.has => tried' = 0
             /\ tried' # 0 =>
                  First(tried') /\ ver'[tried'] \in {"none", "whole"}
  <2>1. pr[c].prev = man /\ pr[c].cmd \in {"install", "uninstall"}
    BY <1>2, <1>6, InstSimple
  <2>2. CASE pr[c].cmd = "install"
    <3>1. /\ man.has => tried = 0
          /\ ~man.has => First(g) /\ ver[g] \in {"none", "whole"}
      BY <1>2, <1>6, <2>2, InstallSoFar
    <3> QED
      BY <1>2, <1>3, <2>1, <2>2, <3>1
  <2>3. CASE pr[c].cmd = "uninstall"
    <3>1. man.has /\ tried = 0
      BY <1>1, <1>2, <1>6, <2>1, <2>3 DEF Course, Calm
    <3> QED
      BY <1>2, <2>3, <3>1
  <2> QED
    BY <2>1, <2>2, <2>3
<1> QED
  BY <1>1, <1>2, <1>3, <1>5, <1>6, StopInv

LEMMA KillStep ==
  ASSUME Inst!InstallationAssumption, InstInv, NEW c \in Procs, Inst!Kill(c)
  PROVE  InstInv'
<1>1. InstTypes /\ man \in Manifests
  BY InstSimple
<1>2. /\ Stops(c) /\ Runs(c) /\ pr[c].pc # "idle" /\ Inst!HalfRemoved(c)
      /\ UNCHANGED <<path, man, agent, user, edits, tried>>
      /\ instFaults' = instFaults + 1 /\ upset' = TRUE
  BY <1>1, Stopping DEF Inst!Kill, Runs
<1>3. /\ VersKept(c) /\ Inst!CurrentWhole'
      /\ ver' \in [Inst!Gens -> {"none", "partial", "torn", "whole"}]
  BY <1>2, HalfRemovedVers
<1>4. /\ tried' \in 0..MaxGen /\ instFaults' \in Nat /\ upset' \in BOOLEAN
      /\ (upset => upset') /\ man' \in Manifests
      /\ UNCHANGED <<path, user, agent, edits>>
  BY <1>1, <1>2 DEF InstTypes
<1> QED
  BY <1>2, <1>3, <1>4, StopInv

-----------------------------------------------------------------------------
(* The steps of an install.                                                *)

\* A step of an install that is not its last one.
LEMMA InstallGoesOn ==
  ASSUME Inst!InstallationAssumption, InstInv, NEW c \in Procs,
         pr[c].pc # "idle",
         pr[c].cmd = "install", NEW pc \in {"go", "building"}, NEW todo,
         GoesOn(c, pc, todo), UNCHANGED <<man, agent, user, tried, edits,
                                          instFaults, upset>>,
         InstTypes', Course(c)', VersKept(c), Inst!CurrentWhole',
         pc = "building" => \A d \in Procs : d # c /\ pr[d].pc = "building" =>
                              pr[d].gen # pr[c].gen,
         ~upset /\ ~man.has =>
           /\ First(pr[c].gen)'
           /\ pc = "go" => ver'[pr[c].gen] \in {"none", "whole"},
         ~upset /\ instFaults = 0 =>
           /\ \A p \in Inst!Paths :
                \/ path'[p] = Inst!Payload(p, pr[c].gen)
                \/ /\ path'[p] \in {none} \cup Inst!Recorded(man, p)
                   /\ ToDo(c, "write", p)'
           /\ \A g \in Inst!Gens : ver'[g] = Listed(g) \/ g = pr[c].gen
           /\ pc = "go" => ver'[pr[c].gen] \in {Listed(pr[c].gen), "whole"}
  PROVE  InstInv'
<1>1. pr[c].pc # "idle" /\ Runs(c)' /\ pr'[c].pc = pc
      /\ \A d \in Procs : d # c => pr'[d] = pr[d]
  BY DEF Runs, GoesOn
<1>2. \A d \in Procs : Course(d)'
  BY <1>1, OthersCourse
<1>3. Company'
  BY <1>1, CompanyKept DEF GoesOn
<1>4. ASSUME ~upset
      PROVE  /\ pr[c].prev = man
             /\ \A d \in Procs : d # c => pr'[d].pc = "idle"
             /\ man.has => tried = 0
  BY <1>1, <1>4, InstSimple DEF Calm
<1>5. Calm'
  BY <1>1, <1>4 DEF Calm, Resting, Runs, GoesOn, First
<1>6. \A p \in Inst!Paths : Inst!Recorded(man', p) = Inst!Recorded(man, p)
  OBVIOUS
<1>7. Flawless'
  <2> SUFFICES ASSUME ~upset, instFaults = 0
               PROVE  /\ (Resting => FALSE)'
                      /\ \A d \in Procs : Runs(d)' => d = c
                      /\ pr'[c].gen = pr[c].gen /\ pr'[c].cmd = "install"
                      /\ \A g : Listed(g)' = Listed(g)
    BY <1>1, InstAssumed DEF Flawless, Listed
  <2> QED
    BY <1>1, <1>4 DEF Resting, Runs, GoesOn, Listed
<1> QED
  BY <1>2, <1>3, <1>5, <1>7 DEF InstInv

LEMMA BuildBeginStep ==
  ASSUME Inst!InstallationAssumption, InstInv, NEW c \in Procs,
         Inst!BuildBegin(c)
  PROVE  InstInv'
<1> DEFINE g == pr[c].gen
<1>1. /\ InstTypes /\ Course(c) /\ Inst!CurrentWhole /\ Calm /\ Flawless
      /\ pr[c].prev \in Manifests /\ man \in Manifests
  BY InstSimple
<1>2. /\ GoesOn(c, "building", pr[c].todo) /\ pr[c].pc = "go" /\ Runs(c)
      /\ UNCHANGED <<path, man, agent, user, tried, edits, instFaults, upset>>
  BY <1>1, Passing DEF Inst!BuildBegin, Inst!Scene, Inst!Doing, Runs
<1>3. /\ pr[c].cmd = "install" /\ g \in Inst!Gens
      /\ Head(pr[c].todo) = Inst!Do("build", g) /\ Head(pr[c].todo).at = g
  <2>1. Head(pr[c].todo).do = "build"
    BY DEF Inst!BuildBegin, Inst!Doing
  <2>2. pr[c].cmd = "install" /\ Head(pr[c].todo) = Inst!Do("build", g)
    BY <1>1, <1>2, <2>1, Heads
  <2> QED
    BY <1>1, <2>2 DEF Inst!Do, Course
<1>4. ver[g] = "none" /\ ver' = [ver EXCEPT ![g] = "partial"]
  BY <1>3 DEF Inst!BuildBegin, Inst!At
<1>5. /\ ver' \in [Inst!Gens -> {"none", "partial", "torn", "whole"}]
      /\ ver'[g] = "partial"
      /\ \A h \in Inst!Gens : h # g => ver'[h] = ver[h]
  BY <1>1, <1>3, <1>4 DEF InstTypes
<1>6. InstTypes'
  BY <1>1, <1>2, <1>5 DEF InstTypes, GoesOn
<1>7. VersKept(c)
  BY <1>4, <1>5 DEF VersKept
<1>8. Inst!CurrentWhole'
  BY <1>1, <1>2, <1>4, <1>5 DEF Inst!CurrentWhole
<1>9. Course(c)'
  BY <1>1, <1>2, <1>3, <1>5, InstAssumed DEF Course, GoesOn, Runs, ToDo
<1>10. \A d \in Procs : d # c /\ pr[d].pc = "building" => pr[d].gen # g
  BY <1>4 DEF InstInv, Course
<1>11. ~upset /\ ~man.has => First(g)'
  <2>1. ~upset /\ ~man.has => First(g)
    BY <1>2, <1>3, InstallSoFar
  <2>2. path' = path /\ g' = g
    BY <1>2 DEF GoesOn
  <2> QED
    BY <2>1, <2>2 DEF First, Inst!Payload
<1>12. ASSUME ~upset, instFaults = 0
       PROVE  /\ \A p \in Inst!Paths :
                   \/ path'[p] = Inst!Payload(p, g)
                   \/ /\ path'[p] \in {none} \cup Inst!Recorded(man, p)
                      /\ ToDo(c, "write", p)'
              /\ \A h \in Inst!Gens : ver'[h] = Listed(h) \/ h = g
  BY <1>1, <1>2, <1>3, <1>5, <1>12 DEF Flawless, GoesOn, ToDo
<1> QED
  BY <1>2, <1>3, <1>6, <1>7, <1>8, <1>9, <1>10, <1>11, <1>12, InstallGoesOn

LEMMA BuildDoneStep ==
  ASSUME Inst!InstallationAssumption, InstInv, NEW c \in Procs,
         Inst!BuildDone(c)
  PROVE  InstInv'
<1> DEFINE g == pr[c].gen
<1>1. /\ InstTypes /\ Course(c) /\ Inst!CurrentWhole /\ Calm /\ Flawless
      /\ pr[c].prev \in Manifests /\ man \in Manifests
  BY InstSimple
<1>2. /\ pr[c].pc = "building" /\ Runs(c) /\ pr[c].cmd = "install"
      /\ g \in Inst!Gens /\ pr[c].todo # <<>> /\ ver[g] = "partial"
      /\ Head(pr[c].todo) = Inst!Do("build", g)
      /\ Head(pr[c].todo).at = g /\ Head(pr[c].todo).do = "build"
  BY <1>1 DEF Inst!BuildDone, Course, Runs, Inst!Do
<1>3. /\ GoesOn(c, "go", Tail(pr[c].todo))
      /\ UNCHANGED <<path, man, agent, user, tried, edits, instFaults, upset>>
  BY <1>1, <1>2, Built DEF Inst!BuildDone, Inst!Scene
<1>4. ver' = [ver EXCEPT ![g] = "whole"]
  BY <1>2 DEF Inst!BuildDone, Inst!At
<1>5. /\ ver' \in [Inst!Gens -> {"none", "partial", "torn", "whole"}]
      /\ ver'[g] = "whole"
      /\ \A h \in Inst!Gens : h # g => ver'[h] = ver[h]
  BY <1>1, <1>2, <1>4 DEF InstTypes
<1>6. InstTypes'
  BY <1>1, <1>3, <1>5 DEF InstTypes, GoesOn
<1>7. VersKept(c)
  BY <1>2, <1>5 DEF VersKept
<1>8. Inst!CurrentWhole'
  BY <1>1, <1>3, <1>5 DEF Inst!CurrentWhole
<1>9. /\ Left(pr'[c].todo) \subseteq Left(pr[c].todo)
      /\ pr'[c].todo # <<>> /\ Sorted(pr'[c].todo)
      /\ \A d, a : ToDo(c, d, a) =>
           ToDo(c, d, a)' \/ Head(pr[c].todo) = Inst!Do(d, a)
      /\ ToDo(c, "publish", none)'
  BY <1>1, <1>2, <1>3, Progress
<1>10. Course(c)'
  BY <1>1, <1>2, <1>3, <1>5, <1>9, InstAssumed DEF Course, GoesOn, Runs
<1>11. ASSUME ~upset, ~man.has PROVE First(g)'
  <2>1. First(g)
    BY <1>2, <1>11, InstallSoFar
  <2>2. path' = path /\ g' = g
    BY <1>3 DEF GoesOn
  <2> QED
    BY <2>1, <2>2 DEF First, Inst!Payload
<1>12. ASSUME ~upset, instFaults = 0
       PROVE  /\ \A p \in Inst!Paths :
                   \/ path'[p] = Inst!Payload(p, g)
                   \/ /\ path'[p] \in {none} \cup Inst!Recorded(man, p)
                      /\ ToDo(c, "write", p)'
              /\ \A h \in Inst!Gens : ver'[h] = Listed(h) \/ h = g
  <2>1. /\ \A p \in Inst!Paths :
             \/ path[p] = Inst!Payload(p, g)
             \/ /\ path[p] \in {none} \cup Inst!Recorded(man, p)
                /\ ToDo(c, "write", p)
        /\ \A h \in Inst!Gens : ver[h] = Listed(h) \/ h = g
    BY <1>1, <1>2, <1>12 DEF Flawless
  <2>2. \A p : Head(pr[c].todo) # Inst!Do("write", p)
    BY <1>2 DEF Inst!Do
  <2>3. \A p : ToDo(c, "write", p) => ToDo(c, "write", p)'
    BY <1>9, <2>2
  <2> QED
    BY <1>3, <1>5, <2>1, <2>3
<1> QED
  BY <1>2, <1>3, <1>5, <1>6, <1>7, <1>8, <1>10, <1>11, <1>12, InstallGoesOn

LEMMA ReuseStep ==
  ASSUME Inst!InstallationAssumption, InstInv, NEW c \in Procs, Inst!Reuse(c)
  PROVE  InstInv'
<1> DEFINE g == pr[c].gen
<1>1. /\ InstTypes /\ Course(c) /\ Inst!CurrentWhole /\ Calm /\ Flawless
      /\ pr[c].prev \in Manifests /\ man \in Manifests
  BY InstSimple
<1>2. /\ pr[c].pc = "go" /\ Runs(c) /\ pr[c].cmd = "install"
      /\ g \in Inst!Gens /\ pr[c].todo # <<>> /\ ver[g] = "whole"
      /\ Head(pr[c].todo) = Inst!Do("build", g)
      /\ Head(pr[c].todo).do = "build"
  <2>1. /\ pr[c].pc = "go" /\ Head(pr[c].todo).do = "build"
        /\ ver[Head(pr[c].todo).at] = "whole"
    BY DEF Inst!Reuse, Inst!Doing, Inst!At
  <2>2. /\ pr[c].cmd = "install"
        /\ Head(pr[c].todo) = Inst!Do("build", pr[c].gen)
    BY <1>1, <2>1, Heads
  <2> QED
    BY <1>1, <2>1, <2>2 DEF Inst!Do, Course, Runs
<1>3. /\ GoesOn(c, "go", Tail(pr[c].todo))
      /\ UNCHANGED <<path, ver, man, agent, user, tried, edits, instFaults,
                     upset>>
  BY <1>1, <1>2, Making DEF Inst!Reuse, Inst!World
<1>6. InstTypes'
  BY <1>1, <1>3 DEF InstTypes, GoesOn
<1>7. VersKept(c)
  BY <1>3, SameVers
<1>8. Inst!CurrentWhole'
  BY <1>1, <1>3 DEF Inst!CurrentWhole
<1>9. /\ Left(pr'[c].todo) \subseteq Left(pr[c].todo)
      /\ pr'[c].todo # <<>> /\ Sorted(pr'[c].todo)
      /\ \A d, a : ToDo(c, d, a) =>
           ToDo(c, d, a)' \/ Head(pr[c].todo) = Inst!Do(d, a)
      /\ ToDo(c, "publish", none)'
  BY <1>1, <1>2, <1>3, Progress
<1>10. Course(c)'
  BY <1>1, <1>2, <1>3, <1>9, InstAssumed DEF Course, GoesOn, Runs
<1>11. ASSUME ~upset, ~man.has PROVE First(g)'
  <2>1. First(g)
    BY <1>2, <1>11, InstallSoFar
  <2>2. path' = path /\ g' = g
    BY <1>3 DEF GoesOn
  <2> QED
    BY <2>1, <2>2 DEF First, Inst!Payload
<1>12. ASSUME ~upset, instFaults = 0
       PROVE  /\ \A p \in Inst!Paths :
                   \/ path'[p] = Inst!Payload(p, g)
                   \/ /\ path'[p] \in {none} \cup Inst!Recorded(man, p)
                      /\ ToDo(c, "write", p)'
              /\ \A h \in Inst!Gens : ver'[h] = Listed(h) \/ h = g
  <2>1. /\ \A p \in Inst!Paths :
             \/ path[p] = Inst!Payload(p, g)
             \/ /\ path[p] \in {none} \cup Inst!Recorded(man, p)
                /\ ToDo(c, "write", p)
        /\ \A h \in Inst!Gens : ver[h] = Listed(h) \/ h = g
    BY <1>1, <1>2, <1>12 DEF Flawless
  <2>2. \A p : Head(pr[c].todo) # Inst!Do("write", p)
    BY <1>2 DEF Inst!Do
  <2>3. \A p : ToDo(c, "write", p) => ToDo(c, "write", p)'
    BY <1>9, <2>2
  <2> QED
    BY <1>3, <2>1, <2>3
<1> QED
  BY <1>2, <1>3, <1>6, <1>7, <1>8, <1>10, <1>11, <1>12, InstallGoesOn

\* A path an install writes leads into a version that is whole.
LEMMA WriteStep ==
  ASSUME Inst!InstallationAssumption, InstInv, NEW c \in Procs, Inst!Write(c)
  PROVE  InstInv'
<1> DEFINE g == pr[c].gen
           q == Head(pr[c].todo).at
           x == Inst!Payload(q, g)
<1>1. /\ InstTypes /\ Course(c) /\ Inst!CurrentWhole /\ Calm /\ Flawless
      /\ pr[c].prev \in Manifests /\ man \in Manifests
  BY InstSimple
<1>2. /\ pr[c].pc = "go" /\ Runs(c) /\ Head(pr[c].todo).do = "write"
  BY DEF Inst!Write, Inst!Doing, Runs
<1>3. /\ pr[c].cmd = "install" /\ ver[g] = "whole" /\ q \in Inst!Paths
      /\ Head(pr[c].todo) = Inst!Do("write", q)
  BY <1>1, <1>2, Heads
<1>4. g \in Inst!Gens /\ pr[c].todo # <<>> /\ user = {}
  BY <1>1, <1>2, <1>3 DEF Course
<1>5. /\ GoesOn(c, "go", Tail(pr[c].todo))
      /\ UNCHANGED <<ver, man, agent, user, tried, edits, instFaults, upset>>
      /\ path' = [path EXCEPT ![q] = x]
  <2>1. GoesOn(c, "go", Tail(pr[c].todo))
    BY <1>1, <1>2, <1>4, Making DEF Inst!Write
  <2> QED
    BY <2>1 DEF Inst!Write, Inst!Scene, Inst!At
<1>6. x \in Inst!Gens /\ x # mine /\ x # none /\ (q = "current" => x = g)
  BY <1>3, <1>4, InstAssumed
<1> HIDE DEF q, x
<1>7. /\ path' \in [Inst!Paths -> Inst!Gens \cup {none, mine}]
      /\ path'[q] = x /\ \A p \in Inst!Paths : p # q => path'[p] = path[p]
  BY <1>1, <1>3, <1>5, <1>6 DEF InstTypes
<1>8. InstTypes'
  <2>1. user' = {p \in Inst!Paths : path'[p] = mine}
    BY <1>1, <1>4, <1>5, <1>6, <1>7 DEF InstTypes
  <2> QED
    BY <1>1, <1>5, <1>7, <2>1 DEF InstTypes, GoesOn
<1>9. VersKept(c)
  BY <1>5, SameVers
<1>10. Inst!CurrentWhole'
  <2>1. "current" \in Inst!Paths
    BY InstAssumed
  <2>2. path'["current"] = g \/ path'["current"] = path["current"]
    BY <1>6, <1>7, <2>1
  <2> QED
    BY <1>1, <1>3, <1>5, <2>2 DEF Inst!CurrentWhole
<1>11. /\ Left(pr'[c].todo) \subseteq Left(pr[c].todo)
       /\ pr'[c].todo # <<>> /\ Sorted(pr'[c].todo)
       /\ \A d, a : ToDo(c, d, a) =>
            ToDo(c, d, a)' \/ Head(pr[c].todo) = Inst!Do(d, a)
       /\ ToDo(c, "publish", none)'
  BY <1>1, <1>2, <1>3, <1>5, Progress
<1>12. Course(c)'
  BY <1>1, <1>2, <1>3, <1>5, <1>11, InstAssumed DEF Course, GoesOn, Runs
<1>13. ASSUME ~upset, ~man.has PROVE First(g)'
  <2>1. First(g)
    BY <1>2, <1>3, <1>13, InstallSoFar
  <2>2. Wrappers \cup Links \subseteq Inst!Paths /\ g' = g
    BY <1>5, InstAssumed DEF GoesOn
  <2> QED
    BY <1>7, <2>1, <2>2 DEF First, x, Inst!Payload
<1>14. ASSUME ~upset, instFaults = 0
       PROVE  /\ \A p \in Inst!Paths :
                   \/ path'[p] = Inst!Payload(p, g)
                   \/ /\ path'[p] \in {none} \cup Inst!Recorded(man, p)
                      /\ ToDo(c, "write", p)'
              /\ \A h \in Inst!Gens : ver'[h] = Listed(h) \/ h = g
  <2>1. /\ \A p \in Inst!Paths :
             \/ path[p] = Inst!Payload(p, g)
             \/ /\ path[p] \in {none} \cup Inst!Recorded(man, p)
                /\ ToDo(c, "write", p)
        /\ \A h \in Inst!Gens : ver[h] = Listed(h) \/ h = g
    BY <1>1, <1>2, <1>3, <1>14 DEF Flawless
  <2>2. \A p : ToDo(c, "write", p) => ToDo(c, "write", p)' \/ p = q
    <3>1. \A p : Head(pr[c].todo) = Inst!Do("write", p) => p = q
      BY <1>3 DEF Inst!Do
    <3> QED
      BY <1>11, <3>1
  <2> QED
    BY <1>5, <1>7, <2>1, <2>2 DEF x
<1> QED
  BY <1>2, <1>3, <1>5, <1>8, <1>9, <1>10, <1>12, <1>13, <1>14, InstallGoesOn

-----------------------------------------------------------------------------
(* The steps of an uninstall.                                              *)

\* A step of an uninstall that is not its last one.
LEMMA UninstallGoesOn ==
  ASSUME Inst!InstallationAssumption, InstInv, NEW c \in Procs,
         pr[c].pc # "idle", pr[c].cmd = "uninstall", NEW todo,
         GoesOn(c, "go", todo),
         UNCHANGED <<man, user, tried, edits, instFaults, upset>>,
         InstTypes', Course(c)', Inst!CurrentWhole',
         ~upset /\ instFaults = 0 =>
           \A g \in Inst!Gens :
             \/ ver'[g] = "none"
             \/ ver'[g] = "whole" /\ ToDo(c, "rmtree", g)'
  PROVE  InstInv'
<1>1. /\ Runs(c)' /\ pr'[c].pc = "go" /\ pr'[c].cmd = "uninstall"
      /\ \A d \in Procs : d # c => pr'[d] = pr[d]
  BY DEF Runs, GoesOn
<1>2. VersKept(c)
  BY DEF VersKept
<1>3. \A d \in Procs : Course(d)'
  BY <1>1, <1>2, OthersCourse
<1>4. Company'
  BY <1>1, CompanyKept DEF GoesOn
<1>5. \A d \in Procs : d # c => pr'[d].pc = "idle"
  BY <1>1 DEF InstInv, Company
<1>6. pr[c].prev.has /\ pr'[c].prev = pr[c].prev
  BY InstSimple, InstAssumed DEF Course, GoesOn
<1>7. ASSUME ~upset PROVE pr[c].prev = man /\ (man.has => tried = 0)
  BY <1>7, InstSimple DEF Calm
<1>8. Calm'
  BY <1>1, <1>5, <1>6, <1>7 DEF Calm, Resting, Runs
<1>9. Flawless'
  <2>1. ~Resting' /\ \A d \in Procs : Runs(d)' => d = c
    BY <1>1, <1>5 DEF Resting, Runs
  <2> QED
    BY <1>1, <2>1, InstAssumed DEF Flawless
<1> QED
  BY <1>3, <1>4, <1>8, <1>9 DEF InstInv

LEMMA UninstallSoFar ==
  ASSUME Inst!InstallationAssumption, InstInv, NEW c \in Procs,
         pr[c].pc = "go",
         Head(pr[c].todo).do \in {"agent", "unlink", "rmtree"}
  PROVE  /\ InstTypes /\ Course(c) /\ Inst!CurrentWhole
         /\ Runs(c) /\ pr[c].cmd = "uninstall" /\ pr[c].todo # <<>>
         /\ user = {} /\ pr[c].prev \in Manifests
         /\ \A p \in Inst!Paths :
              /\ path[p] \in {none} \cup Inst!Recorded(pr[c].prev, p)
              /\ none \notin Inst!Recorded(pr[c].prev, p)
              /\ ToDo(c, "unlink", p) \/ path[p] = none
         /\ ~upset /\ instFaults = 0 =>
              \A g \in Inst!Gens :
                \/ ver[g] = "none"
                \/ ver[g] = "whole" /\ ToDo(c, "rmtree", g)
         /\ Inst!Done(c) =>
              /\ GoesOn(c, "go", Tail(pr[c].todo))
              /\ Left(pr'[c].todo) \subseteq Left(pr[c].todo)
              /\ pr'[c].todo # <<>> /\ Sorted(pr'[c].todo)
              /\ \A d, a : ToDo(c, d, a) =>
                   ToDo(c, d, a)' \/ Head(pr[c].todo) = Inst!Do(d, a)
              /\ ToDo(c, "forget", none)'
<1>1. /\ InstTypes /\ Course(c) /\ Inst!CurrentWhole /\ Flawless
      /\ pr[c].prev \in Manifests
  BY InstSimple
<1>2. Runs(c) /\ pr[c].cmd = "uninstall"
  BY <1>1, Heads DEF Runs
<1>3. /\ pr[c].todo # <<>> /\ user = {}
      /\ \A p \in Inst!Paths :
           /\ path[p] \in {none} \cup Inst!Recorded(pr[c].prev, p)
           /\ ToDo(c, "unlink", p) \/ path[p] = none
  BY <1>1, <1>2 DEF Course
<1>4. \A p \in Inst!Paths : none \notin Inst!Recorded(pr[c].prev, p)
  BY <1>1, ManifestsListed, InstAssumed
<1>5. ~upset /\ instFaults = 0 =>
        \A g \in Inst!Gens :
          \/ ver[g] = "none"
          \/ ver[g] = "whole" /\ ToDo(c, "rmtree", g)
  BY <1>1, <1>2 DEF Flawless
<1>6. ASSUME Inst!Done(c) PROVE GoesOn(c, "go", Tail(pr[c].todo))
  BY <1>1, <1>3, <1>6, Making
<1>7. ASSUME Inst!Done(c)
      PROVE  /\ Left(pr'[c].todo) \subseteq Left(pr[c].todo)
             /\ pr'[c].todo # <<>> /\ Sorted(pr'[c].todo)
             /\ \A d, a : ToDo(c, d, a) =>
                  ToDo(c, d, a)' \/ Head(pr[c].todo) = Inst!Do(d, a)
             /\ ToDo(c, "forget", none)'
  BY <1>1, <1>2, <1>6, <1>7, Progress
<1> QED
  BY <1>1, <1>2, <1>3, <1>4, <1>5, <1>6, <1>7

LEMMA RemoveAgentStep ==
  ASSUME Inst!InstallationAssumption, InstInv, NEW c \in Procs,
         Inst!RemoveAgent(c)
  PROVE  InstInv'
<1>1. /\ pr[c].pc = "go" /\ Head(pr[c].todo).do = "agent" /\ Inst!Done(c)
      /\ UNCHANGED <<path, ver, man, user, tried, edits, instFaults, upset>>
      /\ agent' \in {mine, none}
  BY DEF Inst!RemoveAgent, Inst!Doing
<1>2. /\ InstTypes /\ Course(c) /\ Inst!CurrentWhole
      /\ Runs(c) /\ pr[c].cmd = "uninstall"
      /\ GoesOn(c, "go", Tail(pr[c].todo))
  BY <1>1, UninstallSoFar
<1>3. /\ Left(pr'[c].todo) \subseteq Left(pr[c].todo)
      /\ pr'[c].todo # <<>> /\ Sorted(pr'[c].todo)
      /\ \A d, a : ToDo(c, d, a) =>
           ToDo(c, d, a)' \/ Head(pr[c].todo) = Inst!Do(d, a)
      /\ ToDo(c, "forget", none)'
  BY <1>1, UninstallSoFar
<1>4. \A d, a : d # "agent" /\ ToDo(c, d, a) => ToDo(c, d, a)'
  <2>1. \A d, a : d # "agent" => Head(pr[c].todo) # Inst!Do(d, a)
    BY <1>1 DEF Inst!Do
  <2> QED
    BY <1>3, <2>1
<1>5. InstTypes'
  BY <1>1, <1>2 DEF InstTypes, GoesOn
<1>6. Course(c)'
  <2>1. \A p \in Inst!Paths :
          /\ path[p] \in {none} \cup Inst!Recorded(pr[c].prev, p)
          /\ ToDo(c, "unlink", p) \/ path[p] = none
    BY <1>1, UninstallSoFar
  <2>2. \A p \in Inst!Paths :
          /\ path'[p] \in {none} \cup Inst!Recorded(pr'[c].prev, p)
          /\ ToDo(c, "unlink", p)' \/ path'[p] = none
    BY <1>1, <1>2, <1>4, <2>1 DEF GoesOn
  <2> QED
    BY <1>1, <1>2, <1>3, <2>2, InstAssumed
       DEF Course, GoesOn, Runs, Inst!Recorded, Inst!Payload
<1>7. Inst!CurrentWhole'
  BY <1>1, <1>2 DEF Inst!CurrentWhole
<1>8. ~upset /\ instFaults = 0 =>
        \A g \in Inst!Gens :
          \/ ver'[g] = "none"
          \/ ver'[g] = "whole" /\ ToDo(c, "rmtree", g)'
  <2>1. ~upset /\ instFaults = 0 =>
          \A g \in Inst!Gens :
            \/ ver[g] = "none"
            \/ ver[g] = "whole" /\ ToDo(c, "rmtree", g)
    BY <1>1, UninstallSoFar
  <2> QED
    BY <1>1, <1>4, <2>1
<1> QED
  BY <1>1, <1>2, <1>5, <1>6, <1>7, <1>8, UninstallGoesOn

\* What was the user's would not be removed, and nothing is: the check found
\* what the manifest records, or nothing.
LEMMA UnlinkStep ==
  ASSUME Inst!InstallationAssumption, InstInv, NEW c \in Procs,
         Inst!Unlink(c)
  PROVE  InstInv'
<1> DEFINE q == Head(pr[c].todo).at
<1>1. /\ pr[c].pc = "go" /\ Head(pr[c].todo).do = "unlink" /\ Inst!Done(c)
      /\ UNCHANGED <<ver, man, agent, user, tried, edits, instFaults, upset>>
      /\ path' = IF path[q] \in Inst!Recorded(pr[c].prev, q)
                 THEN [path EXCEPT ![q] = none] ELSE path
  BY DEF Inst!Unlink, Inst!Doing, Inst!At, Inst!Scene
<1>2. /\ InstTypes /\ Course(c) /\ Inst!CurrentWhole
      /\ Runs(c) /\ pr[c].cmd = "uninstall" /\ user = {}
      /\ GoesOn(c, "go", Tail(pr[c].todo))
  BY <1>1, UninstallSoFar
<1>3. q \in Inst!Paths /\ Head(pr[c].todo) = Inst!Do("unlink", q)
  BY <1>1, <1>2, Heads
<1>4. /\ Left(pr'[c].todo) \subseteq Left(pr[c].todo)
      /\ pr'[c].todo # <<>> /\ Sorted(pr'[c].todo)
      /\ \A d, a : ToDo(c, d, a) =>
           ToDo(c, d, a)' \/ Head(pr[c].todo) = Inst!Do(d, a)
      /\ ToDo(c, "forget", none)'
  BY <1>1, UninstallSoFar
<1>5. \A p \in Inst!Paths :
        /\ path[p] \in {none} \cup Inst!Recorded(pr[c].prev, p)
        /\ ToDo(c, "unlink", p) \/ path[p] = none
  BY <1>1, UninstallSoFar
<1> HIDE DEF q
<1>6. /\ path' \in [Inst!Paths -> Inst!Gens \cup {none, mine}]
      /\ path'[q] = none /\ \A p \in Inst!Paths : p # q => path'[p] = path[p]
  BY <1>1, <1>2, <1>3, <1>5 DEF InstTypes
<1>7. \A p \in Inst!Paths : path'[p] \in {none, path[p]}
  BY <1>6
<1>8. InstTypes'
  <2>1. \A p \in Inst!Paths : path[p] # mine
    BY <1>2 DEF InstTypes
  <2>2. \A p \in Inst!Paths : path'[p] # mine
    BY <1>7, <2>1, InstAssumed
  <2>3. user' = {p \in Inst!Paths : path'[p] = mine}
    BY <1>1, <1>2, <2>2
  <2> QED
    BY <1>1, <1>2, <1>6, <2>3 DEF InstTypes, GoesOn
<1>9. Course(c)'
  <2>1. \A p : ToDo(c, "unlink", p) => ToDo(c, "unlink", p)' \/ p = q
    <3>1. \A p : Head(pr[c].todo) = Inst!Do("unlink", p) => p = q
      BY <1>3 DEF Inst!Do
    <3> QED
      BY <1>4, <3>1
  <2>2. \A p \in Inst!Paths :
          /\ path'[p] \in {none} \cup Inst!Recorded(pr'[c].prev, p)
          /\ ToDo(c, "unlink", p)' \/ path'[p] = none
    BY <1>2, <1>5, <1>6, <1>7, <2>1 DEF GoesOn
  <2> QED
    BY <1>1, <1>2, <1>4, <2>2, InstAssumed
       DEF Course, GoesOn, Runs, Inst!Recorded, Inst!Payload
<1>10. Inst!CurrentWhole'
  BY <1>1, <1>2, <1>7, InstAssumed DEF Inst!CurrentWhole
<1>11. ~upset /\ instFaults = 0 =>
        \A g \in Inst!Gens :
          \/ ver'[g] = "none"
          \/ ver'[g] = "whole" /\ ToDo(c, "rmtree", g)'
  <2>1. ~upset /\ instFaults = 0 =>
          \A g \in Inst!Gens :
            \/ ver[g] = "none"
            \/ ver[g] = "whole" /\ ToDo(c, "rmtree", g)
    BY <1>1, UninstallSoFar
  <2>2. \A g : Head(pr[c].todo) # Inst!Do("rmtree", g)
    BY <1>1 DEF Inst!Do
  <2>3. \A g : ToDo(c, "rmtree", g) => ToDo(c, "rmtree", g)'
    BY <1>4, <2>2
  <2> QED
    BY <1>1, <2>1, <2>3
<1> QED
  BY <1>1, <1>2, <1>8, <1>9, <1>10, <1>11, UninstallGoesOn

\* When a version is removed, no path leads to it any more.
LEMMA RemoveTreeStep ==
  ASSUME Inst!InstallationAssumption, InstInv, NEW c \in Procs,
         Inst!RemoveTree(c)
  PROVE  InstInv'
<1> DEFINE q == Head(pr[c].todo).at
<1>1. /\ pr[c].pc = "go" /\ Head(pr[c].todo).do = "rmtree" /\ Inst!Done(c)
      /\ UNCHANGED <<path, man, agent, user, tried, edits, instFaults, upset>>
      /\ ver' = [ver EXCEPT ![q] = IF @ = "partial" THEN @ ELSE "none"]
  BY DEF Inst!RemoveTree, Inst!Doing, Inst!At, Inst!Scene
<1>2. /\ InstTypes /\ Course(c) /\ Inst!CurrentWhole
      /\ Runs(c) /\ pr[c].cmd = "uninstall" /\ pr[c].prev \in Manifests
      /\ GoesOn(c, "go", Tail(pr[c].todo))
  BY <1>1, UninstallSoFar
<1>3. /\ q \in pr[c].prev.vers /\ Head(pr[c].todo) = Inst!Do("rmtree", q)
      /\ \A p \in Inst!Paths : path[p] = none
  BY <1>1, <1>2, Heads
<1>4. q \in Inst!Gens
  BY <1>2, <1>3, ManifestsListed
<1>5. /\ Left(pr'[c].todo) \subseteq Left(pr[c].todo)
      /\ pr'[c].todo # <<>> /\ Sorted(pr'[c].todo)
      /\ \A d, a : ToDo(c, d, a) =>
           ToDo(c, d, a)' \/ Head(pr[c].todo) = Inst!Do(d, a)
      /\ ToDo(c, "forget", none)'
  BY <1>1, UninstallSoFar
<1> HIDE DEF q
<1>6. /\ ver' \in [Inst!Gens -> {"none", "partial", "torn", "whole"}]
      /\ ver'[q] = IF ver[q] = "partial" THEN "partial" ELSE "none"
      /\ \A g \in Inst!Gens : g # q => ver'[g] = ver[g]
  BY <1>1, <1>2, <1>4 DEF InstTypes
<1>7. InstTypes'
  BY <1>1, <1>2, <1>6 DEF InstTypes, GoesOn
<1>8. Course(c)'
  <2>1. \A p \in Inst!Paths :
          /\ path'[p] \in {none} \cup Inst!Recorded(pr'[c].prev, p)
          /\ ToDo(c, "unlink", p)' \/ path'[p] = none
    BY <1>1, <1>3
  <2> QED
    BY <1>1, <1>2, <1>5, <2>1, InstAssumed
       DEF Course, GoesOn, Runs, Inst!Recorded, Inst!Payload
<1>9. Inst!CurrentWhole'
  BY <1>1, <1>3, InstAssumed DEF Inst!CurrentWhole
<1>10. ASSUME ~upset, instFaults = 0, NEW g \in Inst!Gens
       PROVE  \/ ver'[g] = "none"
              \/ ver'[g] = "whole" /\ ToDo(c, "rmtree", g)'
  <2>1. \/ ver[g] = "none"
        \/ ver[g] = "whole" /\ ToDo(c, "rmtree", g)
    BY <1>1, <1>10, UninstallSoFar
  <2>2. CASE g = q
    BY <1>6, <2>1, <2>2
  <2>3. CASE g # q
    <3>1. Head(pr[c].todo) # Inst!Do("rmtree", g)
      BY <1>3, <2>3 DEF Inst!Do
    <3> QED
      BY <1>5, <1>6, <2>1, <2>3, <3>1
  <2> QED
    BY <2>2, <2>3
<1> QED
  BY <1>1, <1>2, <1>7, <1>8, <1>9, <1>10, UninstallGoesOn

-----------------------------------------------------------------------------
(* The beginnings of commands, and the user.                               *)

LEMMA BeginStep ==
  ASSUME Inst!InstallationAssumption, InstInv, NEW c \in Procs,
         \/ Inst!Begin(c, "uninstall", 0)
         \/ \E g \in Inst!Gens : Inst!Begin(c, "install", g)
  PROVE  InstInv'
<1> PICK cmd \in {"install", "uninstall"}, g \in 0..MaxGen :
           /\ Inst!Begin(c, cmd, g)
           /\ cmd = "install" => g \in Inst!Gens
  BY InstAssumed
<1> DEFINE r == [pc |-> "check", cmd |-> cmd, gen |-> g, prev |-> man,
                 todo |-> <<>>]
<1>1. /\ InstTypes /\ Company /\ Inst!CurrentWhole /\ Calm /\ Flawless
      /\ man \in Manifests
  BY InstSimple
<1>2. /\ pr[c].pc = "idle" /\ pr' = [pr EXCEPT ![c] = r]
      /\ cmd = "uninstall" => man.has /\ Inst!Quiet
      /\ cmd = "install" => \A d \in Procs : pr[d].cmd # "uninstall"
      /\ upset' = (upset \/ ~Inst!Quiet)
      /\ UNCHANGED <<path, ver, man, agent, user, tried, edits, instFaults>>
  BY DEF Inst!Begin
<1>3. r \in Tasks
  BY <1>1 DEF Tasks
<1>4. /\ pr' \in [Procs -> Tasks] /\ pr'[c] = r
      /\ \A d \in Procs : d # c => pr'[d] = pr[d]
  BY <1>1, <1>2, <1>3 DEF InstTypes
<1>5. /\ r.pc = "check" /\ r.cmd = cmd /\ r.gen = g /\ r.prev = man
  OBVIOUS
<1> HIDE DEF r
<1>6. ~Runs(c) /\ ~Runs(c)' /\ \A d \in Procs : Runs(d)' => Runs(d) /\ d # c
  BY <1>2, <1>4, <1>5 DEF Runs
<1>7. upset' \in BOOLEAN
  BY <1>2 DEF Inst!Quiet
<1>8. InstTypes'
  BY <1>1, <1>2, <1>4, <1>7 DEF InstTypes
<1>9. Course(c)'
  <2>1. cmd = "uninstall" => man.has
    BY <1>2
  <2>2. pr'[c].cmd = "uninstall" => pr'[c].prev.has
    BY <1>4, <1>5, <2>1
  <2> QED
    BY <1>4, <1>5, <1>6, <2>2 DEF Course, Runs
<1>10. ASSUME NEW d \in Procs PROVE Course(d)'
  <2>1. CASE d = c
    BY <1>9, <2>1
  <2>2. CASE d # c
    <3>1. Course(d) /\ pr'[d] = pr[d]
      BY <1>4, <2>2 DEF InstInv
    <3> QED
      BY <1>2, <3>1 DEF Course, Runs, ToDo, Inst!Recorded, Inst!Payload
  <2> QED
    BY <2>1, <2>2
<1>11. Company'
  <2>1. \A d \in Procs : pr[d].cmd = "uninstall" => pr[d].pc # "idle"
    BY InstAssumed DEF InstInv, Course
  <2>2. ASSUME NEW d \in Procs, NEW e \in Procs, pr'[d].cmd = "uninstall",
               pr'[e].pc # "idle", d # e
        PROVE  FALSE
    <3>1. CASE cmd = "uninstall"
      BY <1>2, <1>4, <1>5, <2>1, <2>2, <3>1 DEF Inst!Quiet
    <3>2. CASE cmd = "install"
      BY <1>1, <1>2, <1>4, <1>5, <2>2, <3>2 DEF Company
    <3> QED
      BY <3>1, <3>2
  <2>3. ASSUME NEW d \in Procs, NEW e \in Procs, pr'[d].pc = "building",
               pr'[e].pc = "building", pr'[d].gen = pr'[e].gen
        PROVE  d = e
    BY <1>1, <1>4, <1>5, <2>3 DEF Company
  <2> QED
    BY <2>2, <2>3 DEF Company
<1>12. Inst!CurrentWhole'
  BY <1>1, <1>2 DEF Inst!CurrentWhole
<1>13. ASSUME ~upset' PROVE ~upset /\ \A d \in Procs : pr[d].pc = "idle"
  BY <1>2, <1>13 DEF Inst!Quiet
<1>14. Resting' => Resting
  BY <1>4, <1>6 DEF Resting, Runs
<1>15. ASSUME ~upset' PROVE \A d \in Procs : ~Runs(d)'
  BY <1>6, <1>13, <1>15 DEF Runs
<1>16. Calm'
  <2>1. ASSUME ~upset'
        PROVE  /\ \A d \in Procs : pr'[d].pc # "idle" => d = c
               /\ pr'[c].prev = man'
    BY <1>2, <1>4, <1>5, <1>13, <2>1
  <2>2. ASSUME ~upset'
        PROVE  /\ man.has => tried = 0
               /\ Resting' /\ tried # 0 =>
                    First(tried) /\ ver[tried] \in {"none", "whole"}
    BY <1>1, <1>13, <1>14, <2>2 DEF Calm
  <2>3. First(tried) => First(tried)'
    BY <1>2 DEF First, Inst!Payload
  <2> QED
    BY <1>2, <1>15, <2>1, <2>2, <2>3 DEF Calm
<1>17. Flawless'
  <2>1. ASSUME ~upset', instFaults = 0, Resting'
        PROVE  /\ \A p \in Inst!Paths :
                    path[p] \in {none, mine} \cup Inst!Recorded(man, p)
               /\ \A h \in Inst!Gens : ver[h] = Listed(h)
    BY <1>1, <1>13, <1>14, <2>1 DEF Flawless
  <2> QED
    BY <1>2, <1>15, <2>1 DEF Flawless, Listed, Inst!Recorded, Inst!Payload
<1> QED
  BY <1>8, <1>10, <1>11, <1>12, <1>16, <1>17 DEF InstInv

\* What a check accepts has nothing of the user's.
LEMMA NothingMine ==
  ASSUME Inst!InstallationAssumption, InstTypes,
         \A p \in Inst!Paths : path[p] # mine
  PROVE  user = {}
BY DEF InstTypes

LEMMA CheckInstall ==
  ASSUME Inst!InstallationAssumption, InstInv, NEW c \in Procs,
         pr[c].pc = "check", pr[c].cmd = "install",
         Inst!CanInstall(pr[c].gen, pr[c].prev), UNCHANGED Inst!World,
         pr' = [pr EXCEPT ![c].pc = "go", ![c].todo = Inst!InstallSteps(c)]
  PROVE  InstInv'
<1> DEFINE g == pr[c].gen
           s == Inst!InstallSteps(c)
<1>1. /\ InstTypes /\ Course(c) /\ Inst!CurrentWhole /\ Calm /\ Flawless
      /\ pr[c].prev \in Manifests /\ man \in Manifests /\ g \in Inst!Gens
      /\ pr[c].pc # "idle"
  BY InstSimple
<1>2. s \in Seq(Items) /\ s # <<>> /\ Sorted(s) /\ Left(s) = ByInstall(g)
  BY <1>1, InstallPlan
<1> HIDE DEF s
<1>3. /\ GoesOn(c, "go", s)
      /\ UNCHANGED <<path, ver, man, agent, user, tried, edits, instFaults,
                     upset>>
  BY <1>1, <1>2, Going DEF Inst!World, s
<1>4. /\ \A p \in Inst!Paths : Inst!Accepts(p, g, pr[c].prev)
      /\ ver[g] \in {"none", "whole"}
  BY DEF Inst!CanInstall
<1>5. ASSUME NEW p \in Inst!Paths
      PROVE  path[p] # mine
  <2>1. /\ Inst!Recorded(pr[c].prev, p) \subseteq Inst!Gens
        /\ Inst!Payload(p, g) \in Inst!Gens
        /\ pr[c].prev.has => pr[c].prev.gen \in Inst!Gens
    BY <1>1, ManifestsListed, InstAssumed
  <2>2. Inst!Accepts(p, g, pr[c].prev)
    BY <1>4
  <2>3. path[p] \in {none} \cup Inst!Gens
    BY <2>1, <2>2 DEF Inst!Accepts
  <2> QED
    BY <2>3, InstAssumed
<1>6. user = {}
  BY <1>1, <1>5, NothingMine
<1>7. InstTypes'
  BY <1>1, <1>3 DEF InstTypes, GoesOn
<1>8. /\ ToDo(c, "publish", none)' /\ ToDo(c, "build", g)'
      /\ \A p \in Inst!Paths : ToDo(c, "write", p)'
  BY <1>2, <1>3 DEF ToDo, GoesOn, ByInstall
<1>9. Course(c)'
  <2>1. g' = g
    BY <1>3 DEF GoesOn
  <2> QED
    BY <1>1, <1>2, <1>3, <1>6, <1>8, <2>1, InstAssumed
       DEF Course, GoesOn, Runs
<1>10. VersKept(c) /\ Inst!CurrentWhole'
  BY <1>1, <1>3, SameVers DEF Inst!CurrentWhole
<1>11. ASSUME ~upset, ~man.has
       PROVE  First(g)' /\ ver'[g] \in {"none", "whole"}
  <2>1. pr[c].prev = man
    BY <1>1, <1>11, InstSimple
  <2>2. \A p \in Inst!Paths : Inst!Recorded(man, p) = {}
    BY <1>1, <1>11, ManifestsListed
  <2>3. \A p \in Wrappers \cup Links :
          p \in Inst!Paths /\ p # "current" /\ Inst!Accepts(p, g, man)
    BY <1>4, <2>1, InstAssumed DEF Inst!InstallationAssumption
  <2>4. First(g)
    BY <2>2, <2>3 DEF Inst!Accepts, First
  <2>5. path' = path /\ g' = g
    BY <1>3 DEF GoesOn
  <2> QED
    BY <1>3, <1>4, <2>4, <2>5 DEF First, Inst!Payload
<1>12. ASSUME ~upset, instFaults = 0
       PROVE  /\ \A p \in Inst!Paths :
                   /\ path'[p] \in {none} \cup Inst!Recorded(man, p)
                   /\ ToDo(c, "write", p)'
              /\ \A h \in Inst!Gens : ver'[h] = Listed(h)
  <2>1. Resting
    BY <1>1, <1>12 DEF Calm, Resting, Runs
  <2>2. /\ \A p \in Inst!Paths :
             path[p] \in {none, mine} \cup Inst!Recorded(man, p)
        /\ \A h \in Inst!Gens : ver[h] = Listed(h)
    BY <1>1, <1>12, <2>1 DEF Flawless
  <2> QED
    BY <1>3, <1>5, <1>8, <2>2
<1> QED
  BY <1>1, <1>3, <1>7, <1>9, <1>10, <1>11, <1>12, InstallGoesOn

LEMMA CheckUninstall ==
  ASSUME Inst!InstallationAssumption, InstInv, NEW c \in Procs,
         pr[c].pc = "check", pr[c].cmd # "install",
         Inst!CanUninstall(pr[c].prev), UNCHANGED Inst!World,
         pr' = [pr EXCEPT ![c].pc = "go", ![c].todo = Inst!UninstallSteps(c)]
  PROVE  InstInv'
<1> DEFINE m == pr[c].prev
           s == Inst!UninstallSteps(c)
<1>1. /\ InstTypes /\ Course(c) /\ Inst!CurrentWhole /\ Calm /\ Flawless
      /\ m \in Manifests /\ man \in Manifests
      /\ pr[c].pc # "idle" /\ pr[c].cmd = "uninstall"
  BY InstSimple
<1>2. s \in Seq(Items) /\ s # <<>> /\ Sorted(s) /\ Left(s) = ByUninstall(m)
  BY <1>1, UninstallPlan
<1> HIDE DEF s
<1>3. /\ GoesOn(c, "go", s)
      /\ UNCHANGED <<path, ver, man, agent, user, tried, edits, instFaults,
                     upset>>
  BY <1>1, <1>2, Going DEF Inst!World, s
<1>4. \A p \in Inst!Paths : path[p] \in {none} \cup Inst!Recorded(m, p)
  BY DEF Inst!CanUninstall
<1>5. \A p \in Inst!Paths : path[p] # mine
  <2>1. \A p \in Inst!Paths : Inst!Recorded(m, p) \subseteq Inst!Gens
    BY <1>1, ManifestsListed
  <2> QED
    BY <1>4, <2>1, InstAssumed
<1>6. user = {}
  BY <1>1, <1>5, NothingMine
<1>7. InstTypes'
  BY <1>1, <1>3 DEF InstTypes, GoesOn
<1>8. pr'[c].prev = m /\ pr'[c].todo = s /\ pr'[c].pc = "go"
      /\ pr'[c].cmd = "uninstall" /\ pr'[c].gen = pr[c].gen
  BY <1>1, <1>3 DEF GoesOn
<1>9. /\ ToDo(c, "forget", none)'
      /\ \A p \in Inst!Paths : ToDo(c, "unlink", p)'
      /\ \A v \in m.vers : ToDo(c, "rmtree", v)'
  BY <1>2, <1>8 DEF ToDo, ByUninstall
<1>10. Course(c)'
  <2>1. pr'[c].prev.has
    BY <1>1, <1>8, InstAssumed DEF Course
  <2>2. \A p \in Inst!Paths :
          path'[p] \in {none} \cup Inst!Recorded(pr'[c].prev, p)
    BY <1>3, <1>4, <1>8
  <2> QED
    BY <1>2, <1>3, <1>6, <1>8, <1>9, <2>1, <2>2, InstAssumed
       DEF Course, Runs, Inst!Recorded, Inst!Payload
<1>11. Inst!CurrentWhole'
  BY <1>1, <1>3 DEF Inst!CurrentWhole
<1>12. ASSUME ~upset, instFaults = 0, NEW g \in Inst!Gens
       PROVE  \/ ver'[g] = "none"
              \/ ver'[g] = "whole" /\ ToDo(c, "rmtree", g)'
  <2>1. Resting
    BY <1>1, <1>12 DEF Calm, Resting, Runs
  <2>2. ver[g] = Listed(g)
    BY <1>1, <1>12, <2>1 DEF Flawless
  <2>3. m = man
    BY <1>1, <1>12, InstSimple
  <2> QED
    BY <1>3, <1>9, <2>2, <2>3 DEF Listed
<1> QED
  BY <1>1, <1>3, <1>7, <1>10, <1>11, <1>12, UninstallGoesOn

LEMMA CheckStep ==
  ASSUME Inst!InstallationAssumption, InstInv, NEW c \in Procs, Inst!Check(c)
  PROVE  InstInv'
<1>1. /\ pr[c].pc = "check" /\ UNCHANGED Inst!World
      /\ pr' = [pr EXCEPT ![c] =
           IF pr[c].cmd = "install"
           THEN IF Inst!CanInstall(pr[c].gen, pr[c].prev)
                THEN [@ EXCEPT !.pc = "go", !.todo = Inst!InstallSteps(c)]
                ELSE Inst!Idle
           ELSE IF Inst!CanUninstall(pr[c].prev)
                THEN [@ EXCEPT !.pc = "go", !.todo = Inst!UninstallSteps(c)]
                ELSE Inst!Idle]
  BY DEF Inst!Check
<1>2. CASE pr[c].cmd = "install" /\ Inst!CanInstall(pr[c].gen, pr[c].prev)
  <2>1. pr' = [pr EXCEPT ![c].pc = "go", ![c].todo = Inst!InstallSteps(c)]
    BY <1>1, <1>2
  <2> QED
    BY <1>1, <1>2, <2>1, CheckInstall
<1>3. CASE pr[c].cmd # "install" /\ Inst!CanUninstall(pr[c].prev)
  <2>1. pr' = [pr EXCEPT ![c].pc = "go", ![c].todo = Inst!UninstallSteps(c)]
    BY <1>1, <1>3
  <2> QED
    BY <1>1, <1>3, <2>1, CheckUninstall
<1>4. CASE ~\/ pr[c].cmd = "install" /\ Inst!CanInstall(pr[c].gen, pr[c].prev)
            \/ pr[c].cmd # "install" /\ Inst!CanUninstall(pr[c].prev)
  <2>1. Inst!End(c)
    BY <1>1, <1>4 DEF Inst!End
  <2> QED
    BY <1>1, <2>1, CheckRefuses
<1> QED
  BY <1>2, <1>3, <1>4

\* Between commands, what the user does to a path does not matter: every part
\* of the invariant lets his own things, or nothing, be there.
LEMMA UserStep ==
  ASSUME Inst!InstallationAssumption, InstInv,
         (\E p \in Inst!Paths : Inst!ChangePath(p)) \/ Inst!ChangeAgent
  PROVE  InstInv'
<1>1. /\ InstTypes /\ Company /\ Inst!CurrentWhole /\ Calm /\ Flawless
      /\ \A d \in Procs : Course(d)
  BY DEF InstInv
<1>2. /\ \A d \in Procs : pr[d].pc = "idle"
      /\ edits' = edits + 1
      /\ UNCHANGED <<ver, man, pr, tried, instFaults, upset>>
  BY DEF Inst!ChangePath, Inst!ChangeAgent, Inst!UserChange, Inst!UserMay,
         Inst!Quiet
<1>3. /\ path' \in [Inst!Paths -> Inst!Gens \cup {none, mine}]
      /\ agent' \in {none, mine, 1}
      /\ user' = {p \in Inst!Paths : path'[p] = mine}
      /\ \A p \in Inst!Paths : path'[p] \in {none, mine, path[p]}
  <2>1. CASE Inst!ChangeAgent
    BY <1>1, <2>1 DEF Inst!ChangeAgent, InstTypes
  <2>2. ASSUME NEW p \in Inst!Paths, Inst!ChangePath(p)
        PROVE  /\ path' \in [Inst!Paths -> Inst!Gens \cup {none, mine}]
               /\ agent' \in {none, mine, 1}
               /\ user' = {q \in Inst!Paths : path'[q] = mine}
               /\ \A q \in Inst!Paths : path'[q] \in {none, mine, path[q]}
    <3>1. /\ path \in [Inst!Paths -> Inst!Gens \cup {none, mine}]
          /\ agent \in {none, mine, 1} /\ agent' = agent
          /\ user = {q \in Inst!Paths : path[q] = mine}
      BY <1>1, <2>2 DEF Inst!ChangePath, InstTypes
    <3>2. CASE path' = [path EXCEPT ![p] = mine] /\ user' = user \cup {p}
      BY <3>1, <3>2
    <3>3. CASE path' = [path EXCEPT ![p] = none] /\ user' = user \ {p}
      BY <3>1, <3>3, InstAssumed
    <3> QED
      BY <2>2, <3>2, <3>3 DEF Inst!ChangePath
  <2> QED
    BY <2>1, <2>2
<1>4. InstTypes'
  BY <1>1, <1>2, <1>3 DEF InstTypes
<1>5. \A d \in Procs : Course(d)'
  BY <1>1, <1>2, InstAssumed DEF Course, Runs
<1>6. Company'
  BY <1>1, <1>2 DEF Company
<1>7. Inst!CurrentWhole'
  BY <1>1, <1>2, <1>3, InstAssumed DEF Inst!CurrentWhole
<1>8. Resting
  BY <1>2 DEF Resting, Runs
<1>9. \A d \in Procs : ~Runs(d)'
  BY <1>2 DEF Runs
<1>10. Calm'
  <2>1. \A h : First(h) =>
          \A p \in Wrappers \cup Links :
            path'[p] \in {none, mine, Inst!Payload(p, h)}
    BY <1>3, InstAssumed DEF First
  <2>2. First(tried) => First(tried)'
    BY <1>2, <2>1 DEF First, Inst!Payload
  <2> QED
    BY <1>1, <1>2, <1>8, <1>9, <2>2 DEF Calm
<1>11. Flawless'
  <2>1. ~upset /\ instFaults = 0 =>
          /\ \A p \in Inst!Paths :
               path[p] \in {none, mine} \cup Inst!Recorded(man, p)
          /\ \A h \in Inst!Gens : ver[h] = Listed(h)
    BY <1>1, <1>8 DEF Flawless
  <2>2. \A p : Inst!Recorded(man, p)' = Inst!Recorded(man, p)
    BY <1>2 DEF Inst!Recorded, Inst!Payload
  <2> QED
    BY <1>2, <1>3, <1>9, <2>1, <2>2 DEF Flawless, Listed
<1> QED
  BY <1>4, <1>5, <1>6, <1>7, <1>10, <1>11 DEF InstInv

-----------------------------------------------------------------------------
(* The invariant, and what it says of an installation.                     *)

LEMMA InstInit ==
  ASSUME Inst!InstallationAssumption, Inst!Init
  PROVE  InstInv
<1>1. /\ Inst!Idle.pc = "idle" /\ Inst!Idle.cmd = none
      /\ Inst!NoManifest \in Manifests
  BY DEF Inst!Idle, Manifests
<1>2. Inst!Idle \in Tasks
  BY <1>1, InstAssumed DEF Inst!Idle, Tasks
<1>3. /\ pr = [c \in Procs |-> Inst!Idle]
      /\ path = [p \in Inst!Paths |-> none]
      /\ ver = [g \in Inst!Gens |-> "none"]
      /\ man = Inst!NoManifest /\ agent = none /\ user = {}
      /\ tried = 0 /\ edits = 0 /\ instFaults = 0 /\ upset = FALSE
  BY DEF Inst!Init
<1>4. \A c \in Procs : pr[c].pc = "idle" /\ pr[c].cmd = none
  BY <1>1, <1>3
<1>5. \A p \in Inst!Paths : path[p] = none
  BY <1>3
<1>6. \A g \in Inst!Gens : ver[g] = "none"
  BY <1>3
<1>7. InstTypes
  <2>1. pr \in [Procs -> Tasks]
    BY <1>2, <1>3
  <2>2. user = {p \in Inst!Paths : path[p] = mine}
    BY <1>3, <1>5, InstAssumed
  <2>3. tried \in 0..MaxGen
    BY <1>3, InstAssumed
  <2>4. /\ path \in [Inst!Paths -> Inst!Gens \cup {none, mine}]
        /\ ver \in [Inst!Gens -> {"none", "partial", "torn", "whole"}]
    BY <1>3
  <2> QED
    BY <1>1, <1>3, <2>1, <2>2, <2>3, <2>4 DEF InstTypes
<1>8. \A c \in Procs : Course(c)
  BY <1>4, InstAssumed DEF Course, Runs
<1>9. Company
  BY <1>4 DEF Company
<1>10. Inst!CurrentWhole
  BY <1>5, InstAssumed DEF Inst!CurrentWhole
<1>11. \A c \in Procs : ~Runs(c)
  BY <1>4 DEF Runs
<1>12. man.has = FALSE /\ man.vers = {}
  BY <1>3, Zenon DEF Inst!NoManifest
<1>13. Calm
  BY <1>3, <1>4, <1>11, <1>12 DEF Calm
<1>14. Flawless
  BY <1>5, <1>6, <1>11, <1>12 DEF Flawless, Listed
<1> QED
  BY <1>7, <1>8, <1>9, <1>10, <1>13, <1>14 DEF InstInv

LEMMA InstNext ==
  ASSUME Inst!InstallationAssumption, InstInv, [Inst!Next]_(Inst!vars)
  PROVE  InstInv'
<1>1. CASE UNCHANGED Inst!vars
  <2>1. UNCHANGED <<path, ver, man, agent, pr, user, tried, edits,
                    instFaults, upset>>
    BY <1>1 DEF Inst!vars
  <2>2. InstTypes'
    BY <2>1 DEF InstInv, InstTypes
  <2>3. \A c \in Procs : Course(c)'
    BY <2>1 DEF InstInv, Course, Runs, ToDo, Inst!Recorded, Inst!Payload
  <2>4. Company' /\ Inst!CurrentWhole'
    BY <2>1 DEF InstInv, Company, Inst!CurrentWhole
  <2>5. Calm'
    BY <2>1 DEF InstInv, Calm, Resting, Runs, First, Inst!Payload
  <2>6. Flawless'
    BY <2>1 DEF InstInv, Flawless, Resting, Runs, ToDo, Listed,
                Inst!Recorded, Inst!Payload
  <2> QED
    BY <2>2, <2>3, <2>4, <2>5, <2>6 DEF InstInv
<1>2. ASSUME NEW c \in Procs, Inst!Command(c) PROVE InstInv'
  BY <1>2, BeginStep, CheckStep, ReuseStep, BuildBeginStep, BuildDoneStep,
     BuildRefusedStep, WriteStep, PublishStep, RemoveAgentStep, UnlinkStep,
     RemoveTreeStep, ForgetStep, FailBuildStep, FailStep, KillStep
     DEF Inst!Command
<1>3. CASE (\E p \in Inst!Paths : Inst!ChangePath(p)) \/ Inst!ChangeAgent
  BY <1>3, UserStep
<1> QED
  BY <1>1, <1>2, <1>3 DEF Inst!Next

\* Installation: what is on a command's list says what it has done, and, where
\* no command was killed or disturbed, the manifest says what there is.
THEOREM InstInvariance ==
  Inst!InstallationAssumption => (Inst!Spec => []InstInv)
<1> SUFFICES ASSUME Inst!InstallationAssumption
             PROVE  Inst!Spec => []InstInv
  OBVIOUS
<1>1. Inst!Init => InstInv
  BY InstInit
<1>2. InstInv /\ [Inst!Next]_(Inst!vars) => InstInv'
  BY InstNext
<1> QED
  BY <1>1, <1>2, PTL DEF Inst!Spec

\* What a reader of the properties wants of the invariant.
LEMMA InstallIsWhole ==
  ASSUME Inst!InstallationAssumption, InstInv
  PROVE  /\ Inst!TypeOK /\ Inst!NothingLeft /\ Inst!RerunAccepted
         /\ Inst!FirstInstallRepeatable /\ Inst!UsersKept /\ Inst!CurrentWhole
<1>1. InstTypes /\ Calm /\ Flawless /\ Inst!CurrentWhole /\ man \in Manifests
  BY DEF InstInv, InstTypes
<1>2. Inst!TypeOK
  <2>1. /\ \A p \in Inst!Paths : path[p] \in Inst!Gens \cup {none, mine}
        /\ \A g \in Inst!Gens : ver[g] \in {"none", "partial", "torn", "whole"}
        /\ agent \in {none, mine, 1}
        /\ user \subseteq Inst!Paths
    BY <1>1 DEF InstTypes
  <2>2. man.has => man.gen \in Inst!Gens /\ man.gen \in man.vers
                   /\ man.vers \subseteq Inst!Gens
    BY <1>1, ManifestsListed
  <2> QED
    BY <2>1, <2>2 DEF Inst!TypeOK
<1>3. Inst!UsersKept
  BY <1>1 DEF InstTypes, Inst!UsersKept
<1>4. Inst!Quiet => Resting
  BY DEF Inst!Quiet, Resting, Runs
<1>5. ASSUME Inst!Quiet, instFaults = 0, ~upset
      PROVE  /\ \A p \in Inst!Paths :
                  path[p] \in {none, mine} \cup Inst!Recorded(man, p)
             /\ \A g \in Inst!Gens : ver[g] = Listed(g)
  BY <1>1, <1>4, <1>5 DEF Flawless
<1>6. Inst!NothingLeft
  <2> SUFFICES ASSUME Inst!Quiet, instFaults = 0, ~upset, ~man.has
               PROVE  /\ \A p \in Inst!Paths : path[p] \in {none, mine}
                      /\ \A g \in Inst!Gens : ver[g] = "none"
    BY DEF Inst!NothingLeft
  <2>1. man.vers = {} /\ \A p \in Inst!Paths : Inst!Recorded(man, p) = {}
    BY <1>1, ManifestsListed
  <2> QED
    BY <1>5, <2>1 DEF Listed
<1>7. Inst!RerunAccepted
  <2> SUFFICES ASSUME Inst!Quiet, user = {}, instFaults = 0, ~upset
               PROVE  /\ \A g \in Inst!Gens : Inst!CanInstall(g, man)
                      /\ man.has => Inst!CanUninstall(man)
    BY DEF Inst!RerunAccepted, Inst!Undisturbed
  <2>1. \A p \in Inst!Paths : path[p] # mine
    BY <1>1 DEF InstTypes
  <2>2. \A p \in Inst!Paths : path[p] \in {none} \cup Inst!Recorded(man, p)
    BY <1>5, <2>1
  <2>3. \A g \in Inst!Gens : ver[g] \in {"none", "whole"}
    BY <1>5 DEF Listed
  <2>4. ASSUME NEW g \in Inst!Gens PROVE Inst!CanInstall(g, man)
    <3>1. ASSUME NEW p \in Inst!Paths PROVE Inst!Accepts(p, g, man)
      <4>1. CASE p = "current"
        <5>1. Inst!Recorded(man, p) = IF man.has THEN {man.gen} ELSE {}
          BY <4>1, InstAssumed DEF Inst!Recorded
        <5>2. path[p] \in {none} \cup (IF man.has THEN {man.gen}
                                       ELSE Inst!Gens)
          BY <2>2, <5>1
        <5> QED
          BY <4>1, <5>2 DEF Inst!Accepts
      <4>2. CASE p # "current"
        BY <2>2, <4>2 DEF Inst!Accepts
      <4> QED
        BY <4>1, <4>2
    <3> QED
      BY <2>3, <3>1 DEF Inst!CanInstall
  <2>5. ASSUME man.has PROVE Inst!CanUninstall(man)
    <3>1. \A v \in man.vers : ver[v] # "partial"
      BY <1>1, <2>3, ManifestsListed
    <3> QED
      BY <2>2, <3>1 DEF Inst!CanUninstall
  <2> QED
    BY <2>4, <2>5
<1>8. Inst!FirstInstallRepeatable
  <2> SUFFICES ASSUME Inst!Quiet, user = {}, ~upset, ~man.has, tried # 0
               PROVE  Inst!CanInstall(tried, man)
    BY DEF Inst!FirstInstallRepeatable, Inst!Undisturbed
  <2>1. First(tried) /\ ver[tried] \in {"none", "whole"}
    BY <1>1, <1>4 DEF Calm
  <2>2. \A p \in Inst!Paths : path[p] # mine
    BY <1>1 DEF InstTypes
  <2>3. ASSUME NEW p \in Inst!Paths PROVE Inst!Accepts(p, tried, man)
    <3>1. CASE p = "current"
      <4>1. path[p] \in {none} \cup Inst!Gens
        BY <1>1, <2>2 DEF InstTypes
      <4> QED
        BY <3>1, <4>1 DEF Inst!Accepts
    <3>2. CASE p # "current"
      <4>1. p \in Wrappers \cup Links
        BY <3>2 DEF Inst!Paths
      <4> QED
        BY <2>1, <2>2, <3>2, <4>1 DEF First, Inst!Accepts
    <3> QED
      BY <3>1, <3>2
  <2> QED
    BY <2>1, <2>3 DEF Inst!CanInstall
<1> QED
  BY <1>1, <1>2, <1>3, <1>6, <1>7, <1>8

\* Only an uninstall's own step and the user change the launch agent, and the
\* uninstall's leaves a foreign one.
LEMMA InstAgents ==
  ASSUME InstTypes, [Inst!Next]_(Inst!vars)
  PROVE  agent = mine => agent' = mine \/ edits' > edits
<1>1. CASE UNCHANGED Inst!vars
  BY <1>1 DEF Inst!vars
<1>2. ASSUME NEW c \in Procs, Inst!Command(c)
      PROVE  agent' = agent \/ (agent = mine => agent' = mine)
  BY <1>2 DEF Inst!Command, Inst!Begin, Inst!Check, Inst!Reuse,
     Inst!BuildBegin, Inst!BuildDone, Inst!BuildRefused, Inst!Write,
     Inst!Publish, Inst!RemoveAgent, Inst!Unlink, Inst!RemoveTree,
     Inst!Forget, Inst!FailBuild, Inst!Fail, Inst!Kill, Inst!World,
     Inst!Scene
<1>3. CASE (\E p \in Inst!Paths : Inst!ChangePath(p)) \/ Inst!ChangeAgent
  <2>1. edits' = edits + 1 /\ edits \in Nat
    BY <1>3 DEF InstTypes, Inst!ChangePath, Inst!ChangeAgent,
                Inst!UserChange
  <2> QED
    BY <2>1
<1> QED
  BY <1>1, <1>2, <1>3 DEF Inst!Next

\* The sum of the upgrades runs this one or leaves it alone.
LEMMA InstPart == MCSpec => Inst!Spec
<1>1. MCInit => Inst!Init
  BY DEF MCInit
<1>2. [MCNext]_<<part, vars, registryVars, installVars, prefixVars>>
        => [Inst!Next]_(Inst!vars)
  BY DEF MCNext, installVars, Inst!vars
<1> QED
  BY <1>1, <1>2, PTL DEF MCSpec, Inst!Spec

-----------------------------------------------------------------------------
(* The package and its prefix together.                                    *)

\* Whatever installs, uninstalls, faults, kills, edits and prefix migrations
\* there were: current leads into a whole version, the user's own files are
\* where he put them, and the data are in one directory that both names lead
\* to; and where no command was killed or disturbed, an uninstall leaves
\* nothing behind, every release can be installed over the present one, and a
\* first install that failed can be repeated.
THEOREM InstalledWhole == MCSpec => []InstallWhole
<1>1. Inst!InstallationAssumption /\ Pre!PrefixAssumption
  BY MCUpgradesAssumption
<1>2. MCSpec => []InstInv
  BY <1>1, InstInvariance, InstPart, PTL
<1>3. MCSpec => []PrefixInv
  BY <1>1, PrefixInvariance, PrePart, PTL
<1>4. InstInv /\ PrefixInv => InstallWhole
  BY <1>1, InstallIsWhole, PrefixWhole DEF InstallWhole
<1> QED
  BY <1>2, <1>3, <1>4, PTL

\* An uninstall leaves a launch agent that is not the package's.
THEOREM AgentsKept ==
  Inst!InstallationAssumption => (Inst!Spec => Inst!AgentKept)
<1> SUFFICES ASSUME Inst!InstallationAssumption
             PROVE  Inst!Spec => Inst!AgentKept
  OBVIOUS
<1>1. InstInv /\ [Inst!Next]_(Inst!vars) =>
        [agent = mine => agent' = mine \/ edits' > edits]_(Inst!vars)
  BY InstAgents DEF InstInv
<1> QED
  BY <1>1, InstInvariance, PTL DEF Inst!Spec, Inst!AgentKept

\* A migration of the prefix does not touch a link the user has replaced.
THEOREM UserLinksKept == Pre!PrefixAssumption => (Pre!Spec => Pre!UsersKept)
<1> SUFFICES ASSUME Pre!PrefixAssumption PROVE Pre!Spec => Pre!UsersKept
  OBVIOUS
<1>1. PrefixInv /\ [Pre!Next]_(Pre!vars) =>
        [prefixEdits' = prefixEdits =>
           /\ \A k \in CmdLinks : command[k] = mine => command'[k] = mine
           /\ \A h \in HLinks : oldLink[h] = mine => oldLink'[h] = mine
        ]_(Pre!vars)
  BY PrefixUsers
<1> QED
  BY <1>1, PrefixInvariance, PTL DEF Pre!Spec, Pre!UsersKept

\* No step of any upgrade changes the UUID of a marker, a foreign launch agent
\* or a link the user has replaced.
THEOREM NothingOfOthers == MCSpec => OthersKept
<1>1. /\ Up!UpgradeAssumption /\ Inst!InstallationAssumption
      /\ Pre!PrefixAssumption
  BY MCUpgradesAssumption
<1>2. MCSpec => Up!MarkersFinal
  BY <1>1, UpPart, MarkersKept, PTL
<1>3. MCSpec => Inst!AgentKept
  BY <1>1, InstPart, AgentsKept, PTL
<1>4. MCSpec => Pre!UsersKept
  BY <1>1, PrePart, UserLinksKept, PTL
<1> QED
  BY <1>2, <1>3, <1>4 DEF OthersKept
=============================================================================
