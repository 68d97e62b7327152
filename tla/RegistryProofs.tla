--------------------------- MODULE RegistryProofs ---------------------------
(* The registry keeps one project per path and an identity for good, for   *)
(* any number of commands, paths and directories and whatever the user     *)
(* moves.  The argument: a document that is about to be written was        *)
(* computed from the registry that is still there, because its command has *)
(* held the lock ever since; and a UUID that is about to be written into a *)
(* marker has no row yet.  Two parts build on that: identities and         *)
(* directories one to one, and the senders of ProjectAddress.              *)
EXTENDS ProjectAddress, TLAPS

\* The states in which a command is past Acquire and before the end of Report.
Locked == {"decide", "mark", "marked", "write", "rename", "sync"}

OnePathIn(doc) ==
  \A u, v \in Uuids:
    doc[u].st = "active" /\ doc[v].st = "active" /\ doc[u].path = doc[v].path
      => u = v

\* What a command has opened.
Opened(c) ==
  /\ pr[c].pc # "idle" => pr[c].root \in Paths
  /\ pr[c].pc # "idle" /\ pr[c].op \in {"add", "resolve", "locked"} =>
       pr[c].dir \in Dirs
  /\ pr[c].pc # "idle" /\ pr[c].op \in {"resolve", "locked"} => pr[c].uuid \in Uuids
  /\ pr[c].pc \in {"mark", "marked"} => pr[c].op = "add"
  /\ pr[c].uuid <= minted /\ pr[c].old <= minted

Serialised(c) == pr[c].pc \in Locked => lock = c

\* The document a command is about to write.
Planned(c) ==
  pr[c].pc \in {"write", "rename"} =>
    /\ OnePathIn(pr[c].doc)
    /\ \A u \in Uuids: reg[u].st = "tomb" => pr[c].doc[u].st = "tomb"
    /\ \A u \in Uuids: u > minted => pr[c].doc[u].st = "none"

\* The identity a command is about to write into its marker.
Marking(c) ==
  pr[c].pc \in {"mark", "marked"} =>
    /\ ActiveAt(pr[c].root) = {}
    /\ pr[c].uuid \in Uuids
    /\ reg[pr[c].uuid].st = "none"
    /\ pr[c].old # 0 => reg[pr[c].old].st = "tomb"

\* A UUID that was not minted yet is nowhere.
Fresh ==
  /\ \A u \in Uuids: u > minted => reg[u].st = "none"
  /\ \A d \in Dirs: mark[d] <= minted

CommandInv(c) == Opened(c) /\ Serialised(c) /\ Planned(c) /\ Marking(c)

RegistryInv ==
  TypeOK /\ OnePathOneProject /\ Fresh /\ \A c \in Procs: CommandInv(c)

Requests ==
  [pc: {"idle", "wait", "decide", "mark", "marked", "write", "rename",
        "sync", "look", "again", "serve", "stray"},
   op: Ops \cup {none}, root: Paths \cup {none}, dir: Dirs \cup {none},
   uuid: 0..MaxUuid, old: 0..MaxUuid, doc: [Uuids -> Rows]]

States == {"idle", "wait", "decide", "mark", "marked", "write", "rename",
           "sync", "look", "again", "serve", "stray"}

-----------------------------------------------------------------------------

LEMMA NoRowIsRow == NoRow \in Rows /\ [u \in Uuids |-> NoRow] \in [Uuids -> Rows]
BY DEF NoRow, Rows

LEMMA IdleIsRequest == RegistryAssumption => Idle \in Requests
<1> SUFFICES ASSUME RegistryAssumption PROVE Idle \in Requests
  OBVIOUS
<1>1. 0 \in 0..MaxUuid
  BY DEF RegistryAssumption
<1>2. Idle.doc \in [Uuids -> Rows]
  BY NoRowIsRow DEF Idle
<1> QED
  BY <1>1, <1>2 DEF Idle, Requests

\* The row that a command writes for the directory it has opened.
LEMMA RowForIsRow ==
  ASSUME RegistryAssumption, NEW c \in Procs, pr[c].root \in Paths,
         pr[c].dir \in Dirs, NEW u
  PROVE  RowFor(c, u) \in Rows
BY DEF RowFor, Rows, RegistryAssumption

LEMMA PlanType ==
  ASSUME TypeOK, NEW c \in Procs, NEW pc, NEW u \in 0..MaxUuid,
         NEW o \in 0..MaxUuid, NEW doc \in [Uuids -> Rows],
         pc \in {"mark", "write", "sync"}, Plan(c, pc, u, o, doc),
         minted' \in 0..MaxUuid
  PROVE  TypeOK'
<1> DEFINE r == [pr[c] EXCEPT !.pc = pc, !.uuid = u, !.old = o, !.doc = doc]
<1>1. pr[c] \in Requests /\ pr \in [Procs -> Requests]
  BY DEF TypeOK, Requests
<1>2. r \in Requests
  BY <1>1 DEF Requests
<1>3. pr' = [pr EXCEPT ![c] = r]
  BY <1>1 DEF Plan, Requests
<1>4. pr' \in [Procs -> Requests]
  BY <1>1, <1>2, <1>3
<1> QED
  BY <1>4 DEF Plan, TypeOK, Requests, History

LEMMA InitInv == RegistryAssumption /\ Init => RegistryInv
<1> SUFFICES ASSUME RegistryAssumption, Init PROVE RegistryInv
  OBVIOUS
<1>1. TypeOK
  <2>1. pr \in [Procs -> Requests]
    BY IdleIsRequest DEF Init
  <2>2. reg \in [Uuids -> Rows]
    BY NoRowIsRow DEF Init
  <2>3. 0 \in 0..MaxUuid /\ 0 \in 0..MaxMoves
    BY DEF RegistryAssumption
  <2>4. /\ at \in [Paths -> Dirs \cup {none}]
        /\ lock \in Procs \cup {none} /\ raced \in BOOLEAN
        /\ served \in [Uuids -> Dirs \cup {none}]
        /\ owner \in [Uuids -> Dirs \cup {none}]
    BY DEF Init
  <2>5. mark \in [Dirs -> 0..MaxUuid] /\ minted \in 0..MaxUuid /\ moves \in 0..MaxMoves
    BY <2>3 DEF Init
  <2> QED
    BY <2>1, <2>2, <2>4, <2>5 DEF TypeOK, Requests
<1>2. OnePathOneProject
  BY DEF Init, OnePathOneProject, Active, NoRow
<1>3. Fresh
  BY DEF Init, Fresh, NoRow
<1>4. ASSUME NEW c \in Procs PROVE CommandInv(c)
  <2>1. pr[c] = Idle /\ minted = 0
    BY DEF Init
  <2> QED
    BY <2>1 DEF Idle, CommandInv, Opened, Serialised, Planned, Marking, Locked
<1> QED
  BY <1>1, <1>2, <1>3, <1>4 DEF RegistryInv

-----------------------------------------------------------------------------
(* Types.                                                                  *)

LEMMA PcType ==
  ASSUME TypeOK, NEW c \in Procs, NEW pc \in States
  PROVE  [pr EXCEPT ![c].pc = pc] \in [Procs -> Requests]
<1>1. pr \in [Procs -> Requests] /\ pr[c] \in Requests
  BY DEF TypeOK, Requests
<1>2. [pr[c] EXCEPT !.pc = pc] \in Requests
  BY <1>1 DEF Requests, States
<1>3. [pr EXCEPT ![c].pc = pc] = [pr EXCEPT ![c] = [pr[c] EXCEPT !.pc = pc]]
  BY <1>1 DEF Requests
<1> QED
  BY <1>1, <1>2, <1>3

LEMMA UserType == RegistryAssumption /\ TypeOK /\ User => TypeOK'
<1> SUFFICES ASSUME RegistryAssumption, TypeOK, User PROVE TypeOK'
  OBVIOUS
<1>1. UserChange => /\ moves' \in 0..MaxMoves /\ raced' \in BOOLEAN
                    /\ served' \in [Uuids -> Dirs \cup {none}]
                    /\ UNCHANGED <<reg, lock, minted, pr, owner>>
  BY DEF UserChange, TypeOK, RegistryAssumption, Quiet
<1>2. ASSUME NEW p \in Paths, TakeAway(p) PROVE TypeOK'
  BY <1>1, <1>2 DEF TakeAway, TypeOK
<1>3. ASSUME NEW d \in Dirs, NEW p \in Paths, PutAt(d, p) PROVE TypeOK'
  BY <1>1, <1>3 DEF PutAt, TypeOK
<1>4. ASSUME NEW d \in Dirs, NEW e \in Dirs, NEW p \in Paths, Copy(d, e, p)
      PROVE  TypeOK'
  <2>1. mark' \in [Dirs -> 0..MaxUuid] /\ at' \in [Paths -> Dirs \cup {none}]
    BY <1>4 DEF Copy, TypeOK
  <2>2. UserChange
    BY <1>4 DEF Copy
  <2> QED
    BY <1>1, <2>1, <2>2 DEF TypeOK
<1>5. ASSUME NEW d \in Dirs, LoseMarker(d) PROVE TypeOK'
  BY <1>1, <1>5 DEF LoseMarker, TypeOK, RegistryAssumption
<1> QED
  BY <1>2, <1>3, <1>4, <1>5 DEF User

LEMMA OpenType ==
  ASSUME RegistryAssumption, TypeOK, NEW c \in Procs,
         (\E op \in Ops, p \in Paths: OpenDir(c, op, p))
           \/ (\E p \in Paths: OpenMissing(c, p))
  PROVE  TypeOK'
<1>1. ASSUME NEW op \in Ops, NEW p \in Paths, OpenDir(c, op, p) PROVE TypeOK'
  <2> DEFINE r == [Idle EXCEPT !.op = op, !.root = p, !.dir = at[p],
                     !.pc = IF op \in {"add", "rm"} THEN "wait" ELSE "look",
                     !.uuid = IF op = "add" THEN 0 ELSE mark[at[p]]]
  <2>1. at[p] \in Dirs
    BY <1>1 DEF OpenDir, Available, TypeOK
  <2>2. mark[at[p]] \in 0..MaxUuid /\ 0 \in 0..MaxUuid
    BY <2>1 DEF TypeOK, RegistryAssumption
  <2>3. Idle \in Requests
    BY IdleIsRequest
  <2>4. r \in Requests
    BY <2>1, <2>2, <2>3 DEF Requests, Idle
  <2>5. pr' = [pr EXCEPT ![c] = r]
    BY <1>1 DEF OpenDir
  <2> HIDE DEF r
  <2>6. pr' \in [Procs -> Requests]
    BY <2>4, <2>5 DEF TypeOK, Requests
  <2> QED
    BY <1>1, <2>6 DEF OpenDir, TypeOK, History, Requests
<1>2. ASSUME NEW p \in Paths, OpenMissing(c, p) PROVE TypeOK'
  <2> DEFINE r == [Idle EXCEPT !.op = "rm", !.root = p, !.pc = "wait"]
  <2>1. "rm" \in Ops /\ Idle \in Requests
    BY <1>2, IdleIsRequest DEF OpenMissing
  <2>2. r \in Requests
    BY <2>1 DEF Requests, Idle
  <2>3. pr' = [pr EXCEPT ![c] = r]
    BY <1>2 DEF OpenMissing
  <2> HIDE DEF r
  <2>4. pr' \in [Procs -> Requests]
    BY <2>2, <2>3 DEF TypeOK, Requests
  <2> QED
    BY <1>2, <2>4 DEF OpenMissing, TypeOK, History, Requests
<1> QED
  BY <1>1, <1>2

LEMMA PassType ==
  ASSUME RegistryAssumption, TypeOK, NEW c \in Procs,
         Acquire(c) \/ Stop(c) \/ PassGuard(c) \/ Rename(c) \/ Report(c)
           \/ Look(c) \/ Serve(c) \/ ServeStray(c)
  PROVE  TypeOK'
<1>1. CASE Acquire(c)
  <2>1. pr' \in [Procs -> Requests]
    BY <1>1, PcType DEF Acquire, States
  <2> QED
    BY <1>1, <2>1 DEF Acquire, TypeOK, History, Requests
<1>2. CASE Stop(c)
  <2>1. pr' \in [Procs -> Requests]
    BY <1>2, IdleIsRequest DEF Stop, TypeOK, Requests
  <2> QED
    BY <1>2, <2>1 DEF Stop, TypeOK, History, Requests
<1>3. CASE PassGuard(c)
  <2>1. pr' \in [Procs -> Requests]
    BY <1>3, PcType DEF PassGuard, States
  <2> QED
    BY <1>3, <2>1 DEF PassGuard, TypeOK, History, Requests
<1>4. CASE Rename(c)
  <2>1. pr' \in [Procs -> Requests]
    BY <1>4, PcType DEF Rename, States
  <2>2. reg' \in [Uuids -> Rows] /\ owner' \in [Uuids -> Dirs \cup {none}]
    BY <1>4 DEF Rename, TypeOK
  <2> QED
    BY <1>4, <2>1, <2>2 DEF Rename, TypeOK, Requests
<1>5. CASE Report(c)
  <2> DEFINE r == [pr[c] EXCEPT !.pc = "again", !.doc = Idle.doc]
  <2>1. pr[c] \in Requests /\ Idle \in Requests
    BY IdleIsRequest DEF TypeOK, Requests
  <2>2. r \in Requests
    BY <2>1, NoRowIsRow DEF Requests, Idle
  <2>3. pr' = [pr EXCEPT ![c] = IF pr[c].op = "resolve" THEN r ELSE Idle]
    BY <1>5 DEF Report, TypeOK
  <2> HIDE DEF r
  <2>4. pr' \in [Procs -> Requests]
    BY <2>1, <2>2, <2>3 DEF TypeOK, Requests
  <2> QED
    BY <1>5, <2>4 DEF Report, TypeOK, History, Requests
<1>6. CASE Look(c)
  <2>1. pr' \in [Procs -> Requests]
    BY <1>6, PcType DEF Look, States
  <2> QED
    BY <1>6, <2>1 DEF Look, TypeOK, History, Requests
<1>7. CASE Serve(c)
  <2>1. pr' \in [Procs -> Requests] /\ served' \in [Uuids -> Dirs \cup {none}]
    BY <1>7, IdleIsRequest DEF Serve, TypeOK, Requests
  <2> QED
    BY <1>7, <2>1 DEF Serve, TypeOK, History, Requests
<1>8. CASE ServeStray(c)
  <2>1. pr' \in [Procs -> Requests]
    BY <1>8, IdleIsRequest DEF ServeStray, TypeOK, Requests
  <2> QED
    BY <1>8, <2>1 DEF ServeStray, TypeOK, History, Requests
<1> QED
  BY <1>1, <1>2, <1>3, <1>4, <1>5, <1>6, <1>7, <1>8

-----------------------------------------------------------------------------
(* The steps.                                                              *)

\* A command is not disturbed by what others do without the lock it holds.
LEMMA Undisturbed ==
  ASSUME RegistryAssumption, RegistryInv, NEW c \in Procs, pr'[c] = pr[c],
         minted' \in Nat, minted <= minted',
         lock = c => lock' = c /\ reg' = reg /\ minted' = minted
  PROVE  CommandInv(c)'
<1>1. /\ CommandInv(c) /\ minted \in Nat
      /\ pr[c].uuid \in Nat /\ pr[c].old \in Nat
  BY DEF RegistryInv, TypeOK, RegistryAssumption
<1>2. Opened(c)'
  BY <1>1 DEF CommandInv, Opened
<1>3. Serialised(c)'
  BY <1>1 DEF CommandInv, Serialised
<1>4. Planned(c)'
  BY <1>1 DEF CommandInv, Serialised, Planned, OnePathIn, Locked
<1>5. Marking(c)'
  BY <1>1 DEF CommandInv, Serialised, Marking, ActiveAt, Active, Locked
<1> QED
  BY <1>2, <1>3, <1>4, <1>5 DEF CommandInv

\* Two commands never hold the lock together.
LEMMA OnlyHolder ==
  ASSUME RegistryInv, NEW c \in Procs, pr[c].pc \in Locked
  PROVE  lock = c
BY DEF RegistryInv, CommandInv, Serialised

\* A decision, taken under the lock on the registry as it stands.
LEMMA PlanStep ==
  ASSUME RegistryAssumption, RegistryInv, NEW c \in Procs, NEW pc, NEW u \in 0..MaxUuid,
         NEW o \in 0..MaxUuid, NEW doc \in [Uuids -> Rows],
         pc \in {"mark", "write", "sync"}, pr[c].pc \in Locked,
         Plan(c, pc, u, o, doc),
         minted' \in 0..MaxUuid, minted <= minted', u <= minted', o <= minted',
         pr[c].op \in {"resolve", "locked"} => u \in Uuids,
         pc = "write" => /\ OnePathIn(doc)
                         /\ \A v \in Uuids: reg[v].st = "tomb" => doc[v].st = "tomb"
                         /\ \A v \in Uuids: v > minted' => doc[v].st = "none",
         pc = "mark" => /\ pr[c].op = "add"
                        /\ ActiveAt(pr[c].root) = {}
                        /\ u \in Uuids
                        /\ reg[u].st = "none"
                        /\ o # 0 => reg[o].st = "tomb"
  PROVE  RegistryInv'
<1>1. TypeOK /\ TypeOK' /\ lock = c
  BY PlanType, OnlyHolder DEF RegistryInv
<1>2. reg' = reg /\ mark' = mark /\ lock' = c
  BY <1>1 DEF Plan
<1>3. OnePathOneProject'
  BY <1>2 DEF RegistryInv, OnePathOneProject, Active
<1>4. Fresh'
  <2>1. minted \in Nat /\ minted' \in Nat
    BY <1>1 DEF TypeOK, RegistryAssumption
  <2>2. \A d \in Dirs: mark[d] \in Nat
    BY <1>1 DEF TypeOK, RegistryAssumption
  <2> QED
    BY <1>2, <2>1, <2>2 DEF RegistryInv, Fresh, Uuids
<1>5. ASSUME NEW d \in Procs PROVE CommandInv(d)'
  <2>1. CASE d # c
    <3>1. pr'[d] = pr[d]
      BY <1>1, <2>1 DEF Plan, TypeOK
    <3>2. minted' \in Nat
      BY DEF RegistryAssumption
    <3> QED
      BY <1>1, <2>1, <3>1, <3>2, Undisturbed
  <2>2. CASE d = c
    <3>1. /\ pr'[c].pc = pc /\ pr'[c].uuid = u /\ pr'[c].old = o
          /\ pr'[c].doc = doc /\ pr'[c].op = pr[c].op
          /\ pr'[c].root = pr[c].root /\ pr'[c].dir = pr[c].dir
      BY <1>1 DEF Plan, TypeOK
    <3>2. Opened(c)
      BY DEF RegistryInv, CommandInv
    <3>3. Opened(c)'
      BY <3>1, <3>2 DEF Opened, Locked
    <3>4. Serialised(c)'
      BY <1>2 DEF Serialised
    <3>5. Planned(c)'
      BY <1>2, <3>1 DEF Planned
    <3>6. Marking(c)'
      BY <1>2, <3>1 DEF Marking, ActiveAt, Active
    <3> QED
      BY <2>2, <3>3, <3>4, <3>5, <3>6 DEF CommandInv
  <2> QED
    BY <2>1, <2>2
<1> QED
  BY <1>1, <1>3, <1>4, <1>5 DEF RegistryInv

LEMMA UserStep == RegistryAssumption /\ RegistryInv /\ User => RegistryInv'
<1> SUFFICES ASSUME RegistryAssumption, RegistryInv, User PROVE RegistryInv'
  OBVIOUS
<1>1. TypeOK /\ TypeOK'
  BY UserType DEF RegistryInv
<1>2. UNCHANGED <<reg, lock, minted, pr>>
  BY DEF User, TakeAway, PutAt, Copy, LoseMarker, UserChange
<1>3. \A d \in Dirs: mark'[d] = mark[d] \/ mark'[d] = 0 \/ \E e \in Dirs: mark'[d] = mark[e]
  BY <1>1 DEF User, TakeAway, PutAt, Copy, LoseMarker, TypeOK
<1>4. minted \in Nat
  BY <1>1 DEF TypeOK, RegistryAssumption
<1>5. Fresh'
  BY <1>2, <1>3, <1>4 DEF RegistryInv, Fresh
<1>6. OnePathOneProject'
  BY <1>2 DEF RegistryInv, OnePathOneProject, Active
<1>7. \A c \in Procs: CommandInv(c)'
  BY <1>2, <1>4, Undisturbed
<1> QED
  BY <1>1, <1>5, <1>6, <1>7 DEF RegistryInv

\* One row made active at a path that no active row has: still one path each.
LEMMA RowAdded ==
  ASSUME OnePathOneProject, NEW u \in Uuids, NEW row, NEW p,
         reg \in [Uuids -> Rows], row.path = p,
         \A v \in Uuids \ {u}: Active(v) => reg[v].path # p
  PROVE  OnePathIn([reg EXCEPT ![u] = row])
BY DEF OnePathOneProject, Active, OnePathIn

LEMMA AddStep ==
  ASSUME RegistryAssumption, RegistryInv, NEW c \in Procs,
         AddNothing(c) \/ AddMoved(c) \/ AddLeftover(c) \/ AddMinted(c)
  PROVE  RegistryInv'
<1> DEFINE m == mark[pr[c].dir]
<1>1. /\ TypeOK /\ OnePathOneProject /\ Fresh /\ Opened(c)
      /\ minted \in 0..MaxUuid /\ MaxUuid \in Nat
      /\ reg \in [Uuids -> Rows]
  BY DEF RegistryInv, CommandInv, TypeOK, RegistryAssumption
<1>2. /\ pr[c].pc = "decide" /\ pr[c].pc \in Locked /\ pr[c].op = "add"
      /\ pr[c].root \in Paths /\ pr[c].dir \in Dirs
  BY <1>1 DEF AddNothing, AddMoved, AddLeftover, AddMinted, Deciding, Opened, Locked
<1>3. m \in 0..MaxUuid /\ m <= minted /\ (m # 0 => m \in Uuids)
  BY <1>1, <1>2 DEF TypeOK, Fresh, Uuids
<1> HIDE DEF m
<1>4. CASE AddNothing(c)
  <2>1. Plan(c, "sync", m, 0, reg) /\ minted' = minted
    BY <1>4 DEF AddNothing, m
  <2> QED
    BY <1>1, <1>2, <1>3, <2>1, PlanStep
<1>5. CASE AddMoved(c)
  <2> DEFINE doc == [reg EXCEPT ![m] = RowFor(c, m)]
  <2>1. /\ Plan(c, "write", m, 0, doc) /\ minted' = minted
        /\ m # 0 /\ Active(m) /\ ActiveAt(pr[c].root) = {}
    BY <1>5 DEF AddMoved, m
  <2>2. RowFor(c, m) \in Rows /\ RowFor(c, m).path = pr[c].root /\ RowFor(c, m).st = "active"
    BY <1>2, RowForIsRow DEF RowFor
  <2>3. doc \in [Uuids -> Rows]
    BY <1>1, <2>2
  <2>4. OnePathIn(doc)
    BY <1>1, <1>3, <2>1, <2>2, RowAdded DEF ActiveAt
  <2>5. \A v \in Uuids: reg[v].st = "tomb" => doc[v].st = "tomb"
    BY <1>1, <2>1 DEF Active
  <2>6. \A v \in Uuids: v > minted => doc[v].st = "none"
    BY <1>1, <1>3, <2>1 DEF Fresh, Uuids
  <2> HIDE DEF doc
  <2> QED
    BY <1>1, <1>2, <1>3, <2>1, <2>3, <2>4, <2>5, <2>6, PlanStep
<1>6. CASE AddLeftover(c)
  <2>1. /\ Plan(c, "mark", m, 0, reg) /\ minted' = minted
        /\ ActiveAt(pr[c].root) = {} /\ m # 0 /\ reg[m].st = "none"
    BY <1>6 DEF AddLeftover, m
  <2> QED
    BY <1>1, <1>2, <1>3, <2>1, PlanStep
<1>7. CASE AddMinted(c)
  <2>1. /\ Plan(c, "mark", minted + 1, m, reg) /\ minted' = minted + 1
        /\ minted < MaxUuid /\ ActiveAt(pr[c].root) = {} /\ MayMintFor(c)
    BY <1>7 DEF AddMinted, m
  <2>2. minted + 1 \in Uuids /\ minted + 1 \in 0..MaxUuid /\ minted <= minted + 1
    BY <1>1, <2>1 DEF Uuids
  <2>3. reg[minted + 1].st = "none" /\ (m # 0 => reg[m].st = "tomb")
    BY <1>1, <2>1, <2>2 DEF Fresh, MayMintFor, m
  <2>4. m <= minted'
    BY <1>1, <1>3, <2>1
  <2> QED
    BY <1>1, <1>2, <1>3, <2>1, <2>2, <2>3, <2>4, PlanStep
<1> QED
  BY <1>4, <1>5, <1>6, <1>7

LEMMA ProveStep ==
  ASSUME RegistryAssumption, RegistryInv, NEW c \in Procs, ProveMarker(c)
  PROVE  RegistryInv'
<1> DEFINE u == pr[c].uuid
<1>1. /\ TypeOK /\ OnePathOneProject /\ Fresh /\ Opened(c) /\ Marking(c)
      /\ minted \in 0..MaxUuid /\ MaxUuid \in Nat
      /\ reg \in [Uuids -> Rows]
  BY DEF RegistryInv, CommandInv, TypeOK, RegistryAssumption
<1>2. /\ pr[c].pc = "marked" /\ pr[c].pc \in Locked /\ pr[c].op = "add"
      /\ pr[c].root \in Paths /\ pr[c].dir \in Dirs
      /\ ActiveAt(pr[c].root) = {} /\ u \in Uuids /\ reg[u].st = "none"
      /\ u \in 0..MaxUuid /\ u <= minted
  BY <1>1 DEF ProveMarker, Opened, Marking, Locked, TypeOK
<1> DEFINE doc == [reg EXCEPT ![u] = RowFor(c, u)]
<1>3. Plan(c, "write", u, 0, doc) /\ minted' = minted
  BY DEF ProveMarker
<1> HIDE DEF u
<1>4. RowFor(c, u) \in Rows /\ RowFor(c, u).path = pr[c].root
  BY <1>2, RowForIsRow DEF RowFor
<1>5. doc \in [Uuids -> Rows]
  BY <1>1, <1>4
<1>6. OnePathIn(doc)
  BY <1>1, <1>2, <1>4, RowAdded DEF ActiveAt
<1>7. \A v \in Uuids: reg[v].st = "tomb" => doc[v].st = "tomb"
  BY <1>1, <1>2
<1>8. \A v \in Uuids: v > minted => doc[v].st = "none"
  BY <1>1, <1>2 DEF Fresh, Uuids
<1> HIDE DEF doc
<1>9. /\ 0 \in 0..MaxUuid /\ minted' \in 0..MaxUuid
      /\ minted <= minted' /\ u <= minted' /\ 0 <= minted'
      /\ \A v \in Uuids: v > minted' => doc[v].st = "none"
  BY <1>1, <1>2, <1>3, <1>8
<1> QED
  BY <1>2, <1>3, <1>5, <1>6, <1>7, <1>9, PlanStep

LEMMA RemoveStep ==
  ASSUME RegistryAssumption, RegistryInv, NEW c \in Procs,
         Tombstone(c) \/ TombstoneNothing(c)
  PROVE  RegistryInv'
<1>1. /\ TypeOK /\ OnePathOneProject /\ Fresh /\ Opened(c)
      /\ minted \in 0..MaxUuid /\ MaxUuid \in Nat
      /\ reg \in [Uuids -> Rows]
  BY DEF RegistryInv, CommandInv, TypeOK, RegistryAssumption
<1>2. /\ pr[c].pc = "decide" /\ pr[c].pc \in Locked /\ pr[c].op = "rm"
      /\ pr[c].root \in Paths /\ pr[c].uuid \in 0..MaxUuid /\ pr[c].uuid <= minted
  BY <1>1 DEF Tombstone, TombstoneNothing, Deciding, Opened, Locked, TypeOK
<1>3. CASE Tombstone(c)
  <2>1. PICK u \in Removable(c):
          Plan(c, "write", u, 0,
               [reg EXCEPT ![u].st = "tomb", ![u].path = pr[c].root])
    BY <1>3 DEF Tombstone
  <2> DEFINE doc == [reg EXCEPT ![u].st = "tomb", ![u].path = pr[c].root]
  <2>2. Active(u) /\ u \in Uuids
    BY <1>1, <1>2 DEF Removable, ActiveAt, Uuids
  <2>3. u <= minted /\ u \in 0..MaxUuid
    BY <1>1, <2>2 DEF Fresh, Active, Uuids
  <2>4. doc \in [Uuids -> Rows]
    BY <1>1, <1>2 DEF Rows
  <2>5. doc[u].st = "tomb" /\ \A v \in Uuids \ {u}: doc[v] = reg[v]
    BY <1>1, <2>2 DEF Rows
  <2>6. Plan(c, "write", u, 0, doc) /\ minted' = minted
    BY <1>3, <2>1 DEF Tombstone
  <2> HIDE DEF doc
  <2>7. OnePathIn(doc)
    BY <1>1, <2>5 DEF OnePathIn, OnePathOneProject, Active
  <2>8. \A v \in Uuids: reg[v].st = "tomb" => doc[v].st = "tomb"
    BY <2>5
  <2>9. \A v \in Uuids: v > minted => doc[v].st = "none"
    BY <1>1, <2>3, <2>5 DEF Fresh, Uuids
  <2> QED
    BY <1>1, <1>2, <2>3, <2>4, <2>6, <2>7, <2>8, <2>9, PlanStep
<1>4. CASE TombstoneNothing(c)
  <2>1. Plan(c, "sync", pr[c].uuid, 0, reg) /\ minted' = minted
    BY <1>4 DEF TombstoneNothing
  <2> QED
    BY <1>1, <1>2, <2>1, PlanStep
<1> QED
  BY <1>3, <1>4

LEMMA ReindexStep ==
  ASSUME RegistryAssumption, RegistryInv, NEW c \in Procs, Reindex(c)
  PROVE  RegistryInv'
<1> DEFINE u == pr[c].uuid
<1> DEFINE doc == [reg EXCEPT ![u] = RowFor(c, u)]
<1>1. /\ TypeOK /\ OnePathOneProject /\ Fresh /\ Opened(c)
      /\ minted \in 0..MaxUuid /\ MaxUuid \in Nat
      /\ reg \in [Uuids -> Rows]
  BY DEF RegistryInv, CommandInv, TypeOK, RegistryAssumption
<1>2. /\ pr[c].pc = "decide" /\ pr[c].pc \in Locked /\ pr[c].op = "resolve"
      /\ pr[c].root \in Paths /\ pr[c].dir \in Dirs
      /\ u \in Uuids /\ u \in 0..MaxUuid /\ u <= minted
      /\ Active(u) /\ ~ReindexConflict(c)
  BY <1>1 DEF Reindex, Deciding, Opened, Locked, TypeOK
<1>3. minted' = minted /\ \E pc \in {"sync", "write"}: Plan(c, pc, u, 0, doc)
  BY DEF Reindex
<1>4. \A v \in Uuids \ {u}: Active(v) => reg[v].path # pr[c].root
  BY <1>1, <1>2 DEF ReindexConflict, ActiveAt, OnePathOneProject
<1> HIDE DEF u
<1>5. RowFor(c, u) \in Rows /\ RowFor(c, u).path = pr[c].root
  BY <1>2, RowForIsRow DEF RowFor
<1>6. doc \in [Uuids -> Rows]
  BY <1>1, <1>5
<1>7. OnePathIn(doc)
  BY <1>1, <1>2, <1>4, <1>5, RowAdded
<1>8. \A v \in Uuids: reg[v].st = "tomb" => doc[v].st = "tomb"
  BY <1>1, <1>2 DEF Active
<1>9. \A v \in Uuids: v > minted => doc[v].st = "none"
  BY <1>1, <1>2 DEF Fresh, Uuids
<1> HIDE DEF doc
<1> QED
  BY <1>1, <1>2, <1>3, <1>6, <1>7, <1>8, <1>9, PlanStep

LEMMA OpenStep ==
  ASSUME RegistryAssumption, RegistryInv, NEW c \in Procs,
         (\E op \in Ops, p \in Paths: OpenDir(c, op, p))
           \/ (\E p \in Paths: OpenMissing(c, p))
  PROVE  RegistryInv'
<1>1. TypeOK /\ TypeOK' /\ minted \in Nat
  BY OpenType DEF RegistryInv, TypeOK, RegistryAssumption
<1>2. UNCHANGED <<reg, at, mark, lock, minted>>
  BY DEF OpenDir, OpenMissing
<1>3. OnePathOneProject' /\ Fresh'
  BY <1>2 DEF RegistryInv, OnePathOneProject, Active, Fresh
<1>4. ASSUME NEW d \in Procs, d # c PROVE CommandInv(d)'
  <2>1. pr'[d] = pr[d]
    BY <1>1, <1>4 DEF OpenDir, OpenMissing, TypeOK
  <2> QED
    BY <1>1, <1>2, <2>1, Undisturbed
<1>5. CommandInv(c)'
  <2>1. /\ pr'[c].pc \in {"wait", "look"} /\ pr'[c].old = 0
        /\ pr'[c].root \in Paths
        /\ pr'[c].op \in {"resolve", "locked"} =>
             pr'[c].dir \in Dirs /\ pr'[c].uuid # 0
        /\ pr'[c].op = "add" => pr'[c].dir \in Dirs
        /\ pr'[c].uuid = 0 \/ \E e \in Dirs: pr'[c].uuid = mark[e]
    <3>1. ASSUME NEW op \in Ops, NEW p \in Paths, OpenDir(c, op, p)
          PROVE  /\ pr'[c].pc \in {"wait", "look"} /\ pr'[c].old = 0
                 /\ pr'[c].root = p /\ pr'[c].op = op
                 /\ pr'[c].dir = at[p] /\ at[p] \in Dirs
                 /\ pr'[c].uuid = IF op = "add" THEN 0 ELSE mark[at[p]]
                 /\ op \in {"resolve", "locked"} => mark[at[p]] # 0
      <4>1. pr'[c] = [Idle EXCEPT !.op = op, !.root = p, !.dir = at[p],
                        !.pc = IF op \in {"add", "rm"} THEN "wait" ELSE "look",
                        !.uuid = IF op = "add" THEN 0 ELSE mark[at[p]]]
        BY <1>1, <3>1 DEF OpenDir, TypeOK
      <4>2. at[p] \in Dirs
        BY <1>1, <3>1 DEF OpenDir, Available, TypeOK
      <4>3. op \in {"resolve", "locked"} => mark[at[p]] # 0
        BY <3>1 DEF OpenDir
      <4> QED
        BY <4>1, <4>2, <4>3 DEF Idle
    <3>2. ASSUME NEW p \in Paths, OpenMissing(c, p)
          PROVE  /\ pr'[c].pc = "wait" /\ pr'[c].old = 0 /\ pr'[c].root = p
                 /\ pr'[c].op = "rm" /\ pr'[c].uuid = 0
      BY <1>1, <3>2 DEF OpenMissing, Idle, TypeOK
    <3> QED
      BY <3>1, <3>2
  <2>2. pr'[c].uuid <= minted /\ pr'[c].uuid \in 0..MaxUuid
    BY <1>1, <2>1 DEF RegistryInv, Fresh, TypeOK, RegistryAssumption
  <2>3. Opened(c)'
    BY <1>1, <1>2, <2>1, <2>2 DEF Opened, Uuids
  <2> QED
    BY <2>1, <2>3 DEF CommandInv, Serialised, Planned, Marking, Locked
<1> QED
  BY <1>1, <1>3, <1>4, <1>5 DEF RegistryInv

\* Steps that write neither the registry nor a marker.
LEMMA PassStep ==
  ASSUME RegistryAssumption, RegistryInv, NEW c \in Procs,
         Acquire(c) \/ Stop(c) \/ PassGuard(c) \/ Report(c) \/ Look(c) \/ Serve(c) \/ ServeStray(c)
  PROVE  RegistryInv'
<1>1. TypeOK /\ TypeOK' /\ minted \in Nat /\ CommandInv(c)
  BY PassType DEF RegistryInv, TypeOK, RegistryAssumption
<1>2. UNCHANGED <<reg, at, mark, minted>>
  BY DEF Acquire, Stop, PassGuard, Report, Look, Serve, ServeStray
<1>3. OnePathOneProject' /\ Fresh'
  BY <1>2 DEF RegistryInv, OnePathOneProject, Active, Fresh
<1>4. ASSUME NEW d \in Procs, d # c PROVE CommandInv(d)'
  <2>1. pr'[d] = pr[d]
    BY <1>1, <1>4 DEF Acquire, Stop, PassGuard, Report, Look, Serve, ServeStray, TypeOK
  <2>2. lock = d => lock' = d
    <3>1. Report(c) => lock = c
      BY OnlyHolder DEF Report, Locked
    <3> QED
      BY <1>4, <3>1 DEF Acquire, Stop, PassGuard, Look, Serve, ServeStray, RegistryAssumption
  <2> QED
    BY <1>1, <1>2, <2>1, <2>2, Undisturbed
<1>5. ASSUME pr'[c] = Idle PROVE CommandInv(c)'
  BY <1>1, <1>2, <1>5 DEF Idle, CommandInv, Opened, Serialised, Planned, Marking, Locked
<1>6. CASE Acquire(c)
  <2>1. /\ pr'[c] = [pr[c] EXCEPT !.pc = "decide"] /\ lock' = c
        /\ pr[c].pc = "wait"
    BY <1>1, <1>6 DEF Acquire, TypeOK
  <2>2. CommandInv(c)'
    BY <1>1, <1>2, <2>1 DEF TypeOK, CommandInv, Opened, Serialised, Planned, Marking, Locked
  <2> QED
    BY <1>1, <1>3, <1>4, <2>2 DEF RegistryInv
<1>7. CASE PassGuard(c)
  <2>1. /\ pr'[c] = [pr[c] EXCEPT !.pc = "rename"] /\ pr[c].pc = "write" /\ lock' = lock
    BY <1>1, <1>7 DEF PassGuard, TypeOK
  <2>2. CommandInv(c)'
    BY <1>1, <1>2, <2>1 DEF TypeOK, CommandInv, Opened, Serialised, Planned, Marking, Locked
  <2> QED
    BY <1>1, <1>3, <1>4, <2>2 DEF RegistryInv
<1>8. CASE Report(c)
  <2>1. pr[c].pc = "sync"
    BY <1>8 DEF Report
  <2>2. \/ pr'[c] = Idle
        \/ /\ pr[c].op = "resolve"
           /\ pr'[c] = [pr[c] EXCEPT !.pc = "again", !.doc = Idle.doc]
    BY <1>1, <1>8 DEF Report, TypeOK
  <2>3. CASE pr'[c] = [pr[c] EXCEPT !.pc = "again", !.doc = Idle.doc]
    <3>1. /\ pr'[c].pc = "again" /\ pr'[c].root = pr[c].root /\ pr'[c].dir = pr[c].dir
          /\ pr'[c].uuid = pr[c].uuid /\ pr'[c].old = pr[c].old /\ pr'[c].op = pr[c].op
      BY <1>1, <2>3 DEF TypeOK
    <3>2. Opened(c) /\ pr[c].pc # "idle"
      BY <1>1, <2>1 DEF CommandInv
    <3>3. Opened(c)'
      BY <1>2, <3>1, <3>2 DEF Opened
    <3>4. CommandInv(c)'
      BY <3>1, <3>3 DEF CommandInv, Serialised, Planned, Marking, Locked
    <3> QED
      BY <1>1, <1>3, <1>4, <3>4 DEF RegistryInv
  <2>4. CASE pr'[c] = Idle
    BY <1>1, <1>3, <1>4, <1>5, <2>4 DEF RegistryInv
  <2> QED
    BY <2>2, <2>3, <2>4
<1>9. CASE Look(c)
  <2>1. \E pc \in {"wait", "serve", "stray"}: pr'[c] = [pr[c] EXCEPT !.pc = pc]
    BY <1>1, <1>9 DEF Look, TypeOK
  <2>2. pr[c].pc \in {"look", "again"}
    BY <1>9 DEF Look
  <2>3. CommandInv(c)'
    BY <1>1, <1>2, <2>1, <2>2 DEF TypeOK, CommandInv, Opened, Serialised, Planned, Marking, Locked
  <2> QED
    BY <1>1, <1>3, <1>4, <2>3 DEF RegistryInv
<1>10. CASE Stop(c) \/ Serve(c) \/ ServeStray(c)
  <2>1. pr'[c] = Idle
    BY <1>1, <1>10 DEF Stop, Serve, ServeStray, TypeOK
  <2> QED
    BY <1>1, <1>3, <1>4, <1>5, <2>1 DEF RegistryInv
<1> QED
  BY <1>6, <1>7, <1>8, <1>9, <1>10

LEMMA WriteMarkerStep ==
  ASSUME RegistryAssumption, RegistryInv, NEW c \in Procs, WriteMarker(c)
  PROVE  RegistryInv'
<1>1. /\ TypeOK /\ minted \in Nat /\ CommandInv(c) /\ lock = c
      /\ pr[c].pc = "mark" /\ pr[c].dir \in Dirs
      /\ pr[c].uuid \in 0..MaxUuid /\ pr[c].uuid <= minted
      /\ UNCHANGED <<reg, at, lock, minted>>
  BY OnlyHolder DEF WriteMarker, RegistryInv, CommandInv, Opened, Locked, TypeOK,
                    RegistryAssumption
<1>2. mark' \in [Dirs -> 0..MaxUuid] /\ \A d \in Dirs: mark'[d] <= minted
  BY <1>1 DEF WriteMarker, TypeOK, RegistryInv, Fresh
<1>3. TypeOK'
  <2>1. pr' \in [Procs -> Requests]
    BY <1>1, PcType DEF WriteMarker, States
  <2> QED
    BY <1>1, <1>2, <2>1 DEF WriteMarker, TypeOK, History, Requests
<1>4. OnePathOneProject' /\ Fresh'
  BY <1>1, <1>2 DEF RegistryInv, OnePathOneProject, Active, Fresh
<1>5. ASSUME NEW d \in Procs PROVE CommandInv(d)'
  <2>1. CASE d # c
    <3>1. pr'[d] = pr[d]
      BY <1>1, <2>1 DEF WriteMarker, TypeOK
    <3> QED
      BY <1>1, <3>1, Undisturbed
  <2>2. CASE d = c
    <3>1. pr'[c] = [pr[c] EXCEPT !.pc = "marked"]
      BY <1>1 DEF WriteMarker, TypeOK
    <3>2. /\ pr'[c].pc = "marked" /\ pr'[c].root = pr[c].root /\ pr'[c].dir = pr[c].dir
          /\ pr'[c].uuid = pr[c].uuid /\ pr'[c].old = pr[c].old /\ pr'[c].op = pr[c].op
      BY <1>1, <3>1 DEF TypeOK
    <3> QED
      BY <1>1, <2>2, <3>2 DEF CommandInv, Opened, Serialised, Planned, Marking,
                             ActiveAt, Active, Locked
  <2> QED
    BY <2>1, <2>2
<1> QED
  BY <1>3, <1>4, <1>5 DEF RegistryInv

LEMMA RenameStep ==
  ASSUME RegistryAssumption, RegistryInv, NEW c \in Procs, Rename(c)
  PROVE  RegistryInv'
<1>0. TypeOK /\ TypeOK'
  BY PassType DEF RegistryInv
<1>1. /\ TypeOK /\ TypeOK' /\ minted \in Nat /\ CommandInv(c) /\ lock = c
      /\ pr[c].pc = "rename" /\ reg' = pr[c].doc
      /\ UNCHANGED <<at, mark, lock, minted>>
  <2>1. minted \in Nat
    BY <1>0 DEF TypeOK, RegistryAssumption
  <2>2. lock = c
    BY OnlyHolder DEF Rename, Locked
  <2> QED
    BY <1>0, <2>1, <2>2 DEF Rename, RegistryInv
<1>2. OnePathOneProject'
  BY <1>1 DEF CommandInv, Planned, OnePathIn, OnePathOneProject, Active
<1>3. Fresh'
  BY <1>1 DEF RegistryInv, Fresh, CommandInv, Planned
<1>4. ASSUME NEW d \in Procs PROVE CommandInv(d)'
  <2>1. CASE d # c
    <3>1. pr'[d] = pr[d]
      BY <1>1, <2>1 DEF Rename, TypeOK
    <3> QED
      BY <1>1, <2>1, <3>1, Undisturbed
  <2>2. CASE d = c
    <3>1. pr'[c] = [pr[c] EXCEPT !.pc = "sync"]
      BY <1>1 DEF Rename, TypeOK
    <3>2. /\ pr'[c].pc = "sync" /\ pr'[c].root = pr[c].root /\ pr'[c].dir = pr[c].dir
          /\ pr'[c].uuid = pr[c].uuid /\ pr'[c].old = pr[c].old /\ pr'[c].op = pr[c].op
      BY <1>1, <3>1 DEF TypeOK
    <3> QED
      BY <1>1, <2>2, <3>2 DEF CommandInv, Opened, Serialised, Planned, Marking, Locked
  <2> QED
    BY <2>1, <2>2
<1> QED
  BY <1>1, <1>2, <1>3, <1>4 DEF RegistryInv

LEMMA InvStep == RegistryAssumption /\ RegistryInv /\ [Next]_vars => RegistryInv'
<1> SUFFICES ASSUME RegistryAssumption, RegistryInv, [Next]_vars PROVE RegistryInv'
  OBVIOUS
<1>1. CASE User
  BY <1>1, UserStep
<1>2. ASSUME NEW c \in Procs, Command(c) PROVE RegistryInv'
  BY <1>2, OpenStep, PassStep, AddStep, WriteMarkerStep, ProveStep, RemoveStep,
     ReindexStep, RenameStep DEF Command
<1>3. CASE UNCHANGED vars
  <2>1. TypeOK'
    BY <1>3 DEF vars, History, RegistryInv, TypeOK
  <2>2. OnePathOneProject' /\ Fresh'
    BY <1>3 DEF vars, RegistryInv, OnePathOneProject, Active, Fresh
  <2>3. \A c \in Procs: CommandInv(c)'
    BY <1>3, Undisturbed DEF vars, RegistryInv, TypeOK, RegistryAssumption
  <2> QED
    BY <2>1, <2>2, <2>3 DEF RegistryInv
<1> QED
  BY <1>1, <1>2, <1>3 DEF Next

-----------------------------------------------------------------------------
(* The theorems.                                                           *)

LEMMA Invariance == Spec => []RegistryInv
<1>1. RegistryAssumption
  BY RegistryAssumption
<1>2. Init => RegistryInv
  BY <1>1, InitInv
<1>3. RegistryInv /\ [Next]_vars => RegistryInv'
  BY <1>1, InvStep
<1> QED
  BY <1>2, <1>3, PTL DEF Spec

\* The variables of Registry keep their types.
THEOREM TypeCorrect == Spec => []TypeOK
<1>1. RegistryInv => TypeOK
  BY DEF RegistryInv
<1> QED
  BY <1>1, Invariance, PTL

\* No two active projects claim one path, however add, rm, resolve, kills and
\* the user's moves interleave: what _decode_projects_doc requires of the file.
THEOREM RegistryUnambiguous == Spec => []OnePathOneProject
<1>1. RegistryInv => OnePathOneProject
  BY DEF RegistryInv
<1> QED
  BY <1>1, Invariance, PTL

\* No step brings a tombstoned UUID back: a command that decided before the
\* removal does not hold the lock any more.
LEMMA TombstonesStay ==
  ASSUME RegistryAssumption, RegistryInv, [Next]_vars
  PROVE  NeverReborn
<1>1. ASSUME NEW c \in Procs, Rename(c) PROVE NeverReborn
  <2>1. CommandInv(c) /\ pr[c].pc = "rename" /\ reg' = pr[c].doc
    BY <1>1 DEF Rename, RegistryInv
  <2> QED
    BY <2>1 DEF CommandInv, Planned, NeverReborn
<1>2. CASE reg' = reg
  BY <1>2 DEF NeverReborn
<1>3. \/ \E c \in Procs: Rename(c)
      \/ reg' = reg
  <2>1. User => reg' = reg
    BY DEF User, TakeAway, PutAt, Copy, LoseMarker, UserChange
  <2>2. ASSUME NEW c \in Procs, Command(c) PROVE Rename(c) \/ reg' = reg
    BY <2>2 DEF Command, OpenDir, OpenMissing, Acquire, Stop, AddNothing, AddMoved,
       AddLeftover, AddMinted, WriteMarker, ProveMarker, Tombstone,
       TombstoneNothing, Reindex, PassGuard, Report, Look, Serve, ServeStray, Plan
  <2>3. UNCHANGED vars => reg' = reg
    BY DEF vars
  <2> QED
    BY <2>1, <2>2, <2>3 DEF Next
<1> QED
  BY <1>1, <1>2, <1>3

\* A command replaces a marker only by its own UUID over a tombstoned one.
LEMMA MarkersStay ==
  ASSUME RegistryAssumption, RegistryInv, [Next]_vars
  PROVE  MarkerKept
<1>1. TypeOK
  BY DEF RegistryInv
<1>2. ASSUME NEW c \in Procs, WriteMarker(c) PROVE MarkerKept
  <2>1. /\ MarkAllowed(c) /\ pr[c].pc = "mark" /\ Marking(c)
        /\ \A d \in Dirs: mark'[d] = IF d = pr[c].dir THEN pr[c].uuid ELSE mark[d]
    BY <1>1, <1>2 DEF WriteMarker, RegistryInv, CommandInv, TypeOK
  <2> QED
    BY <2>1 DEF MarkAllowed, Marking, MarkerKept
<1>3. CASE User
  <2>1. moves' = moves + 1 /\ moves \in Nat
    BY <1>1, <1>3 DEF User, TakeAway, PutAt, Copy, LoseMarker, UserChange, TypeOK,
       RegistryAssumption
  <2> QED
    BY <2>1 DEF MarkerKept
<1>4. CASE mark' = mark
  BY <1>4 DEF MarkerKept
<1>5. User \/ (\E c \in Procs: WriteMarker(c)) \/ mark' = mark
  <2>1. ASSUME NEW c \in Procs, Command(c) PROVE WriteMarker(c) \/ mark' = mark
    BY <2>1 DEF Command, OpenDir, OpenMissing, Acquire, Stop, AddNothing, AddMoved,
       AddLeftover, AddMinted, ProveMarker, Tombstone, TombstoneNothing,
       Reindex, PassGuard, Rename, Report, Look, Serve, ServeStray, Plan
  <2>2. UNCHANGED vars => mark' = mark
    BY DEF vars
  <2> QED
    BY <2>1, <2>2 DEF Next
<1> QED
  BY <1>2, <1>3, <1>4, <1>5

\* An identity is for good, in every step: tombstones stay tombstones, and a
\* marker is replaced only after its project was tombstoned.
THEOREM IdentityForGood == Spec => IdentityKept
<1>1. RegistryAssumption
  BY RegistryAssumption
<1>2. RegistryInv /\ [Next]_vars => NeverReborn /\ MarkerKept
  BY <1>1, TombstonesStay, MarkersStay
<1> QED
  BY <1>2, Invariance, PTL DEF Spec, IdentityKept

-----------------------------------------------------------------------------
(* What a command reports.  Between the marker it read and its last guard  *)
(* others may replace that marker, but only after the project was          *)
(* tombstoned, and then the decision under the lock refuses.               *)

\* The row a command is to report is its own, and its directory carries it.
Carried(c) ==
  /\ pr[c].pc # "idle" /\ pr[c].op \in {"resolve", "locked"} =>
       mark[pr[c].dir] = pr[c].uuid \/ reg[pr[c].uuid].st = "tomb"
  /\ pr[c].pc \in {"write", "rename", "sync"} /\ pr[c].op = "add" =>
       mark[pr[c].dir] = pr[c].uuid
  /\ pr[c].pc \in {"write", "rename"} /\ pr[c].op # "rm" =>
       /\ pr[c].uuid \in Uuids
       /\ pr[c].doc[pr[c].uuid].st = "active"
       /\ pr[c].doc[pr[c].uuid].path = pr[c].root
  /\ pr[c].pc = "sync" /\ pr[c].op # "rm" =>
       /\ pr[c].uuid \in Uuids
       /\ reg[pr[c].uuid].st = "active"
       /\ reg[pr[c].uuid].path = pr[c].root
  /\ pr[c].pc # "idle" => pr[c].op \in {"add", "rm", "resolve", "locked"}

\* The marker under a command that runs changes only when the project that it
\* names is dead, and never under the holder of the lock.
MarkerStep(c) ==
  pr[c].pc # "idle" /\ pr[c].dir \in Dirs /\ mark[pr[c].dir] # 0 =>
    \/ mark'[pr[c].dir] = mark[pr[c].dir]
    \/ lock # c /\ reg[mark[pr[c].dir]].st = "tomb"

LEMMA MarkersUnderCommands ==
  ASSUME RegistryAssumption, RegistryInv, [Next]_vars, NEW c \in Procs,
         ~WriteMarker(c)
  PROVE  MarkerStep(c)
<1>1. TypeOK
  BY DEF RegistryInv
<1>2. ASSUME NEW b \in Procs, WriteMarker(b) PROVE MarkerStep(c)
  <2>1. b # c
    BY <1>2
  <2>2. /\ MarkAllowed(b) /\ pr[b].pc = "mark" /\ Marking(b) /\ lock = b
        /\ \A d \in Dirs: mark'[d] = IF d = pr[b].dir THEN pr[b].uuid ELSE mark[d]
    BY <1>1, <1>2, OnlyHolder DEF WriteMarker, RegistryInv, CommandInv, TypeOK, Locked
  <2> QED
    BY <2>1, <2>2 DEF MarkAllowed, Marking, MarkerStep
<1>3. CASE User
  <2>1. ASSUME NEW d \in Dirs, NEW e \in Dirs, NEW p \in Paths, Copy(d, e, p)
        PROVE  MarkerStep(c)
    BY <1>1, <2>1 DEF Copy, MarkerStep, TypeOK
  <2>2. ASSUME NEW d \in Dirs, LoseMarker(d) PROVE MarkerStep(c)
    BY <2>2 DEF LoseMarker, Quiet, MarkerStep
  <2> QED
    BY <1>3, <2>1, <2>2 DEF User, TakeAway, PutAt, MarkerStep
<1>4. CASE mark' = mark
  BY <1>4 DEF MarkerStep
<1>5. User \/ (\E b \in Procs: WriteMarker(b)) \/ mark' = mark
  <2>1. ASSUME NEW b \in Procs, Command(b) PROVE WriteMarker(b) \/ mark' = mark
    BY <2>1 DEF Command, OpenDir, OpenMissing, Acquire, Stop, AddNothing, AddMoved,
       AddLeftover, AddMinted, ProveMarker, Tombstone, TombstoneNothing,
       Reindex, PassGuard, Rename, Report, Look, Serve, ServeStray, Plan
  <2>2. UNCHANGED vars => mark' = mark
    BY DEF vars
  <2> QED
    BY <2>1, <2>2 DEF Next
<1> QED
  BY <1>2, <1>3, <1>4, <1>5

\* Steps of others, and those of a command that keep what it works on.
LEMMA CarriedOn ==
  ASSUME RegistryAssumption, RegistryInv, [Next]_vars, NEW c \in Procs,
         Carried(c), MarkerStep(c), NeverReborn,
         pr'[c].dir = pr[c].dir, pr'[c].root = pr[c].root,
         pr'[c].op = pr[c].op, pr'[c].uuid = pr[c].uuid,
         pr[c].pc # "idle",
         lock = c /\ pr'[c].pc \in Locked => reg' = reg,
         pr'[c].pc \in {"write", "rename"} =>
           pr[c].pc \in {"write", "rename"} /\ pr'[c].doc = pr[c].doc,
         pr'[c].pc = "sync" => pr[c].pc = "sync"
  PROVE  Carried(c)'
<1>1. /\ Opened(c) /\ Serialised(c) /\ TypeOK
      /\ pr[c].op \in {"resolve", "locked"} => pr[c].uuid \in Uuids /\ pr[c].uuid # 0
  BY DEF RegistryInv, CommandInv, Opened, Uuids, TypeOK, RegistryAssumption
<1>2. pr[c].op \in {"resolve", "locked"} =>
        mark'[pr[c].dir] = pr[c].uuid \/ reg'[pr[c].uuid].st = "tomb"
  BY <1>1 DEF Carried, MarkerStep, NeverReborn, Opened
<1>3. pr'[c].pc \in {"write", "rename", "sync"} /\ pr[c].op = "add" =>
        mark'[pr[c].dir] = pr[c].uuid
  <2>1. SUFFICES ASSUME pr'[c].pc \in {"write", "rename", "sync"}, pr[c].op = "add"
        PROVE  mark'[pr[c].dir] = pr[c].uuid
    OBVIOUS
  <2>2. pr[c].pc \in {"write", "rename", "sync"} /\ lock = c
    BY <1>1, <2>1 DEF Serialised, Locked
  <2>3. pr[c].uuid \in Uuids /\ mark[pr[c].dir] = pr[c].uuid /\ pr[c].dir \in Dirs
    BY <1>1, <2>1, <2>2 DEF Carried, Opened
  <2> QED
    BY <2>2, <2>3 DEF MarkerStep, Uuids
<1>4. pr'[c].pc = "sync" /\ pr[c].op # "rm" =>
        /\ pr[c].uuid \in Uuids
        /\ reg'[pr[c].uuid].st = "active"
        /\ reg'[pr[c].uuid].path = pr[c].root
  BY <1>1 DEF Carried, Serialised, Locked
<1> QED
  BY <1>2, <1>3, <1>4 DEF Carried

\* The document of a decision, and the marker it was taken for.
LEMMA PlanCarries ==
  ASSUME TypeOK, NEW c \in Procs, NEW pc \in {"mark", "write", "sync"},
         NEW u \in Uuids, NEW o, NEW doc, Plan(c, pc, u, o, doc),
         pr[c].op \in {"add", "resolve"}, mark[pr[c].dir] = u \/ pc = "mark",
         pc = "mark" => pr[c].op = "add",
         pc = "write" => doc[u].st = "active" /\ doc[u].path = pr[c].root,
         pc = "sync" => reg[u].st = "active" /\ reg[u].path = pr[c].root
  PROVE  Carried(c)'
<1>1. /\ pr'[c].pc = pc /\ pr'[c].uuid = u /\ pr'[c].doc = doc
      /\ pr'[c].op = pr[c].op /\ pr'[c].root = pr[c].root /\ pr'[c].dir = pr[c].dir
      /\ reg' = reg /\ mark' = mark
  BY DEF Plan, TypeOK
<1> QED
  BY <1>1 DEF Carried

LEMMA CarriedStep ==
  ASSUME RegistryAssumption, RegistryInv, NEW c \in Procs, Carried(c),
         NeverReborn, Command(c)
  PROVE  Carried(c)'
<1>1. TypeOK /\ Opened(c) /\ Planned(c) /\ Marking(c)
  BY DEF RegistryInv, CommandInv
<1>2. ASSUME pr'[c].pc = "idle" PROVE Carried(c)'
  BY <1>2 DEF Carried
<1>3. ASSUME NEW op \in Ops, NEW p \in Paths, OpenDir(c, op, p)
      PROVE  Carried(c)'
  <2>1. pr'[c] = [Idle EXCEPT !.op = op, !.root = p, !.dir = at[p],
                    !.pc = IF op \in {"add", "rm"} THEN "wait" ELSE "look",
                    !.uuid = IF op = "add" THEN 0 ELSE mark[at[p]]]
    BY <1>1, <1>3 DEF OpenDir, TypeOK
  <2>2. /\ pr'[c].pc \in {"wait", "look"} /\ pr'[c].op = op
        /\ op \in {"add", "rm", "resolve", "locked"}
        /\ op \in {"resolve", "locked"} => pr'[c].uuid = mark[pr'[c].dir]
    BY <2>1 DEF Idle, RegistryAssumption
  <2>3. mark' = mark
    BY <1>3 DEF OpenDir
  <2> QED
    BY <2>2, <2>3 DEF Carried
<1>4. ASSUME NEW p \in Paths, OpenMissing(c, p) PROVE Carried(c)'
  <2>1. pr'[c].pc = "wait" /\ pr'[c].op = "rm"
    BY <1>1, <1>4 DEF OpenMissing, Idle, TypeOK
  <2> QED
    BY <2>1 DEF Carried
<1>5. CASE Stop(c) \/ Serve(c) \/ ServeStray(c)
  <2>1. pr'[c].pc = "idle"
    BY <1>1, <1>5 DEF Stop, Serve, ServeStray, Idle, TypeOK
  <2> QED
    BY <1>2, <2>1
<1>6. CASE AddNothing(c)
  <2> DEFINE m == mark[pr[c].dir]
  <2>1. /\ ActiveAt(pr[c].root) = {m} /\ Plan(c, "sync", m, 0, reg)
        /\ pr[c].op = "add"
    BY <1>6 DEF AddNothing, Deciding
  <2>2. m \in Uuids /\ reg[m].st = "active" /\ reg[m].path = pr[c].root
    BY <2>1 DEF ActiveAt, Active
  <2> QED
    BY <1>1, <2>1, <2>2, PlanCarries
<1>7. CASE AddMoved(c)
  <2> DEFINE m == mark[pr[c].dir]
             doc == [reg EXCEPT ![m] = RowFor(c, m)]
  <2>1. Plan(c, "write", m, 0, doc) /\ pr[c].op = "add" /\ m # 0 /\ pr[c].pc = "decide"
    BY <1>7 DEF AddMoved, Deciding
  <2>2. m \in Uuids
    BY <1>1, <2>1 DEF Opened, TypeOK, Uuids
  <2>3. doc[m].st = "active" /\ doc[m].path = pr[c].root
    BY <1>1, <2>2 DEF RowFor, TypeOK
  <2> HIDE DEF doc
  <2> QED
    BY <1>1, <2>1, <2>2, <2>3, PlanCarries
<1>8. CASE AddLeftover(c) \/ AddMinted(c)
  <2>1. pr'[c].pc = "mark" /\ pr'[c].op = "add"
    BY <1>1, <1>8 DEF AddLeftover, AddMinted, Deciding, Plan, TypeOK
  <2> QED
    BY <2>1 DEF Carried
<1>9. CASE WriteMarker(c)
  <2>1. pr'[c].pc = "marked" /\ pr'[c].op = "add"
    BY <1>1, <1>9 DEF WriteMarker, Opened, TypeOK
  <2> QED
    BY <2>1 DEF Carried
<1>10. CASE ProveMarker(c)
  <2> DEFINE u == pr[c].uuid
             doc == [reg EXCEPT ![u] = RowFor(c, u)]
  <2>1. /\ Plan(c, "write", u, 0, doc) /\ mark[pr[c].dir] = u
        /\ pr[c].pc = "marked"
    BY <1>10 DEF ProveMarker
  <2>2. u \in Uuids /\ pr[c].op = "add"
    BY <1>1, <2>1 DEF Marking, Opened
  <2>3. doc[u].st = "active" /\ doc[u].path = pr[c].root
    BY <1>1, <2>2 DEF RowFor, TypeOK
  <2> HIDE DEF doc, u
  <2> QED
    BY <1>1, <2>1, <2>2, <2>3, PlanCarries
<1>11. CASE Tombstone(c) \/ TombstoneNothing(c)
  <2>1. pr[c].op = "rm" /\ \E pc, u, o, doc: Plan(c, pc, u, o, doc)
    BY <1>11 DEF Tombstone, TombstoneNothing, Deciding
  <2>2. pr'[c].op = "rm"
    BY <1>1, <2>1 DEF Plan, TypeOK
  <2> QED
    BY <2>2 DEF Carried
<1>12. CASE Reindex(c)
  <2> DEFINE u == pr[c].uuid
             doc == [reg EXCEPT ![u] = RowFor(c, u)]
             pc == IF doc = reg THEN "sync" ELSE "write"
  <2>1. /\ Plan(c, pc, u, 0, doc) /\ Active(u)
        /\ pr[c].pc = "decide" /\ pr[c].op = "resolve"
    BY <1>12 DEF Reindex, Deciding
  <2>2. u \in Uuids
    BY <1>1, <2>1 DEF Opened
  <2>3. mark[pr[c].dir] = u
    BY <2>1 DEF Carried, Active
  <2>4. doc[u].st = "active" /\ doc[u].path = pr[c].root
    BY <1>1, <2>2 DEF RowFor, TypeOK
  <2>5. pc \in {"sync", "write"} /\ (pc = "sync" => doc = reg)
    OBVIOUS
  <2> HIDE DEF doc, u, pc
  <2> QED
    BY <1>1, <2>1, <2>2, <2>3, <2>4, <2>5, PlanCarries
<1>13. CASE Acquire(c) \/ PassGuard(c) \/ Look(c)
  <2>1. /\ pr'[c].dir = pr[c].dir /\ pr'[c].root = pr[c].root
        /\ pr'[c].op = pr[c].op /\ pr'[c].uuid = pr[c].uuid
        /\ pr'[c].doc = pr[c].doc
        /\ reg' = reg /\ mark' = mark
    BY <1>1, <1>13 DEF Acquire, PassGuard, Look, TypeOK
  <2>2. \/ pr[c].pc = "wait" /\ pr'[c].pc = "decide"
        \/ pr[c].pc = "write" /\ pr'[c].pc = "rename"
        \/ pr[c].pc \in {"look", "again"} /\ pr'[c].pc \in {"wait", "serve", "stray"}
    BY <1>1, <1>13 DEF Acquire, PassGuard, Look, TypeOK
  <2> QED
    BY <2>1, <2>2 DEF Carried
<1>14. CASE Rename(c)
  <2>1. /\ pr'[c].dir = pr[c].dir /\ pr'[c].root = pr[c].root
        /\ pr'[c].op = pr[c].op /\ pr'[c].uuid = pr[c].uuid
        /\ reg' = pr[c].doc /\ mark' = mark
        /\ pr[c].pc = "rename" /\ pr'[c].pc = "sync"
    BY <1>1, <1>14 DEF Rename, TypeOK
  <2>2. pr[c].op \in {"resolve", "locked"} =>
          mark[pr[c].dir] = pr[c].uuid \/ reg'[pr[c].uuid].st = "tomb"
    BY <1>1, <2>1 DEF Carried, Opened, NeverReborn
  <2> QED
    BY <2>1, <2>2 DEF Carried
<1>15. CASE Report(c)
  <2>1. \/ pr'[c].pc = "idle"
        \/ /\ pr'[c].dir = pr[c].dir /\ pr'[c].op = pr[c].op
           /\ pr'[c].uuid = pr[c].uuid /\ pr'[c].pc = "again"
           /\ reg' = reg /\ mark' = mark /\ pr[c].pc = "sync"
    BY <1>1, <1>15 DEF Report, Idle, TypeOK
  <2> QED
    BY <1>2, <2>1 DEF Carried
<1> QED
  BY <1>3, <1>4, <1>5, <1>6, <1>7, <1>8, <1>9, <1>10, <1>11, <1>12, <1>13,
     <1>14, <1>15 DEF Command

CarriedInv == RegistryInv /\ \A c \in Procs: Carried(c)

LEMMA CarriedInit == RegistryAssumption /\ Init => CarriedInv
<1> SUFFICES ASSUME RegistryAssumption, Init PROVE CarriedInv
  OBVIOUS
<1>1. \A c \in Procs: pr[c].pc = "idle"
  BY DEF Init, Idle
<1> QED
  BY <1>1, InitInv DEF CarriedInv, Carried

LEMMA CarriedInvStep ==
  RegistryAssumption /\ CarriedInv /\ [Next]_vars => CarriedInv'
<1> SUFFICES ASSUME RegistryAssumption, CarriedInv, [Next]_vars
             PROVE  CarriedInv'
  OBVIOUS
<1>1. RegistryInv /\ RegistryInv' /\ NeverReborn /\ TypeOK
  BY InvStep, TombstonesStay DEF CarriedInv, RegistryInv
<1>2. ASSUME NEW c \in Procs PROVE Carried(c)'
  <2>1. CASE Command(c)
    BY <1>1, <2>1, CarriedStep DEF CarriedInv
  <2>2. CASE ~Command(c)
    <3>1. pr'[c] = pr[c]
      <4>1. ASSUME NEW b \in Procs, Command(b) PROVE pr'[c] = pr[c]
        <5>1. b # c
          BY <2>2, <4>1
        <5> QED
          BY <1>1, <4>1, <5>1 DEF Command, OpenDir, OpenMissing, Acquire, Stop,
             AddNothing, AddMoved, AddLeftover, AddMinted, WriteMarker, ProveMarker,
             Tombstone, TombstoneNothing, Reindex, PassGuard, Rename, Report, Look,
             Serve, ServeStray, Plan, TypeOK
      <4>2. User => pr'[c] = pr[c]
        BY DEF User, TakeAway, PutAt, Copy, LoseMarker, UserChange
      <4> QED
        BY <4>1, <4>2 DEF Next, vars
    <3>2. CASE pr[c].pc = "idle"
      BY <3>1, <3>2 DEF Carried
    <3>3. lock = c => reg' = reg
      <4>1. ASSUME NEW b \in Procs, Command(b), lock = c PROVE reg' = reg
        <5>1. ~Rename(b)
          BY <1>1, <2>2, <4>1, OnlyHolder DEF Rename, Locked
        <5> QED
          BY <4>1, <5>1 DEF Command, OpenDir, OpenMissing, Acquire, Stop,
             AddNothing, AddMoved, AddLeftover, AddMinted, WriteMarker, ProveMarker,
             Tombstone, TombstoneNothing, Reindex, PassGuard, Report, Look,
             Serve, ServeStray, Plan
      <4>2. User => reg' = reg
        BY DEF User, TakeAway, PutAt, Copy, LoseMarker, UserChange
      <4> QED
        BY <4>1, <4>2 DEF Next, vars
    <3>4. MarkerStep(c)
      BY <1>1, <2>2, MarkersUnderCommands DEF Command
    <3>5. CASE pr[c].pc # "idle"
      BY <1>1, <3>1, <3>3, <3>4, <3>5, CarriedOn DEF CarriedInv
    <3> QED
      BY <3>2, <3>5
  <2> QED
    BY <2>1, <2>2
<1> QED
  BY <1>1, <1>2 DEF CarriedInv

\* A registration or reindex reports success only when its row is active at
\* its root, alone there, and the directory that is at the root now carries no
\* other identity - whatever the user and other commands did meanwhile.
THEOREM SuccessIsTrue == Spec => ReportedTrue
<1> DEFINE Report1 == \A c \in Procs:
       (pr[c].op # "rm" /\ Report(c)) =>
         /\ ActiveAt(pr[c].root) = {pr[c].uuid}
         /\ at[pr[c].root] = pr[c].dir
         /\ mark[pr[c].dir] \in {0, pr[c].uuid}
<1>1. RegistryAssumption
  BY RegistryAssumption
<1>2. CarriedInv => Report1
  <2> SUFFICES ASSUME CarriedInv, NEW c \in Procs, pr[c].op # "rm", Report(c)
               PROVE  /\ ActiveAt(pr[c].root) = {pr[c].uuid}
                      /\ at[pr[c].root] = pr[c].dir
                      /\ mark[pr[c].dir] \in {0, pr[c].uuid}
    OBVIOUS
  <2>1. /\ pr[c].pc = "sync" /\ Guarded(c) /\ Carried(c) /\ Opened(c)
        /\ OnePathOneProject
    BY DEF Report, CarriedInv, RegistryInv, CommandInv
  <2>2. /\ pr[c].uuid \in Uuids /\ Active(pr[c].uuid)
        /\ reg[pr[c].uuid].path = pr[c].root
        /\ pr[c].op \in {"add", "resolve", "locked"}
    BY <2>1 DEF Carried, Active
  <2>3. ActiveAt(pr[c].root) = {pr[c].uuid}
    BY <2>1, <2>2 DEF ActiveAt, OnePathOneProject
  <2>4. at[pr[c].root] = pr[c].dir
    BY <1>1, <2>1, <2>2 DEF Guarded, Opened, RegistryAssumption
  <2>5. mark[pr[c].dir] = pr[c].uuid
    BY <2>1, <2>2 DEF Carried, Active
  <2> QED
    BY <2>3, <2>4, <2>5
<1>3. Init => CarriedInv
  BY <1>1, CarriedInit
<1>4. CarriedInv /\ [Next]_vars => CarriedInv'
  BY <1>1, CarriedInvStep
<1>5. CarriedInv /\ [Next]_vars => Report1
  BY <1>2
<1> QED
  BY <1>3, <1>4, <1>5, PTL DEF Spec, ReportedTrue
-----------------------------------------------------------------------------
(* Identities and directories, one to one.  While the user leaves the      *)
(* directories alone under running commands, what a command decided about  *)
(* them stays so until it acts: a row whose path shows a directory is not  *)
(* led elsewhere, and a directory that lost its marker is marked anew only *)
(* when every active row has a witness.                                    *)

Standing(c) ==
  /\ pr[c].pc \in {"look", "again", "serve", "stray"} => pr[c].op \in {"resolve", "locked"}
  /\ ~raced /\ pr[c].pc # "idle" => at[pr[c].root] = pr[c].dir
  /\ pr[c].pc \in {"write", "rename"} =>
       /\ pr[c].uuid \in Uuids
       /\ \A w \in Uuids \ {pr[c].uuid}: pr[c].doc[w] = reg[w]
       /\ pr[c].doc[pr[c].uuid].st # "none"
       /\ ~raced /\ Active(pr[c].uuid) /\ Available(reg[pr[c].uuid].path) =>
            \/ pr[c].doc[pr[c].uuid].st = "tomb"
            \/ pr[c].doc[pr[c].uuid].path = reg[pr[c].uuid].path
  /\ pr[c].pc = "mark" /\ ~raced /\ mark[pr[c].dir] = 0 => AllWitnessed

\* The directories that were given the mailbox of u, or are about to be.
Handed(u) ==
  {d \in Dirs: \/ served[u] = d
               \/ \E c \in Procs: pr[c].pc = "serve" /\ pr[c].uuid = u /\ pr[c].dir = d}

HandedOnce ==
  \A u \in Uuids: \A d \in Handed(u):
    /\ reg[u].st # "none"
    /\ Active(u) => at[reg[u].path] = d
    /\ \A e \in Handed(u): d = e

\* The directory an active row was written for carries no other identity.
OwnerMarked ==
  \A u \in Uuids: Active(u) /\ owner[u] \in Dirs => mark[owner[u]] \in {0, u}

OneToOneInv ==
  /\ CarriedInv
  /\ \A c \in Procs: Standing(c)
  /\ ~raced => HandedOnce
  /\ OwnerMarked

LEMMA OneToOneInit == RegistryAssumption /\ Init => OneToOneInv
<1> SUFFICES ASSUME RegistryAssumption, Init PROVE OneToOneInv
  OBVIOUS
<1>1. CarriedInv
  BY CarriedInit
<1>2. \A c \in Procs: pr[c].pc = "idle"
  BY DEF Init, Idle
<1>3. \A c \in Procs: Standing(c)
  BY <1>2 DEF Standing
<1>4. HandedOnce
  BY <1>2 DEF HandedOnce, Handed, Init, RegistryAssumption
<1>5. OwnerMarked
  BY DEF OwnerMarked, Active, Init, NoRow
<1> QED
  BY <1>1, <1>3, <1>4, <1>5 DEF OneToOneInv

\* What others do leaves a command's decision standing.
LEMMA StandingKept ==
  ASSUME RegistryInv, NEW c \in Procs, Standing(c), pr'[c] = pr[c],
         ~raced' /\ pr[c].pc # "idle" => at' = at /\ ~raced,
         lock = c => reg' = reg,
         lock = c /\ ~raced' => mark' = mark
  PROVE  Standing(c)'
<1>1. pr[c].pc \in Locked => lock = c
  BY OnlyHolder
<1>2. CASE pr[c].pc = "idle"
  BY <1>2 DEF Standing
<1>3. CASE pr[c].pc \in Locked
  BY <1>1, <1>3 DEF Standing, Locked, Active, Available, AllWitnessed, Witnessed
<1>4. CASE pr[c].pc \notin Locked
  BY <1>4 DEF Standing, Locked
<1> QED
  BY <1>3, <1>4

LEMMA UserLeaves ==
  ASSUME RegistryAssumption, OneToOneInv, User
  PROVE  (\A c \in Procs: Standing(c)') /\ (~raced' => HandedOnce') /\ OwnerMarked'
<1>1. /\ UNCHANGED <<reg, lock, minted, pr, owner>>
      /\ raced' = (raced \/ ~Quiet)
      /\ served' = [u \in Uuids |-> none]
  BY DEF User, TakeAway, PutAt, Copy, LoseMarker, UserChange
<1>2. RegistryInv /\ TypeOK
  BY DEF OneToOneInv, CarriedInv, RegistryInv
<1>3. ~raced' => ~raced /\ \A c \in Procs: pr[c].pc = "idle"
  BY <1>1 DEF Quiet
<1>4. ASSUME NEW c \in Procs PROVE Standing(c)'
  <2>1. CASE pr[c].pc = "idle"
    BY <1>1, <2>1 DEF Standing
  <2>2. CASE pr[c].pc # "idle"
    <3>1. raced'
      BY <1>3, <2>2
    <3> QED
      BY <1>1, <1>2, <3>1, StandingKept DEF OneToOneInv
  <2> QED
    BY <2>1, <2>2
<1>5. ~raced' => HandedOnce'
  BY <1>1, <1>3 DEF HandedOnce, Handed, RegistryAssumption
<1>6. OwnerMarked'
  <2>1. ASSUME NEW d \in Dirs, NEW e \in Dirs, NEW p \in Paths, Copy(d, e, p)
        PROVE  OwnerMarked'
    <3>1. /\ \A u \in Uuids: owner[u] # e
          /\ \A f \in Dirs \ {e}: mark'[f] = mark[f]
      BY <1>2, <2>1 DEF Copy, TypeOK
    <3> QED
      BY <1>1, <3>1 DEF OneToOneInv, OwnerMarked, Active
  <2>2. ASSUME NEW d \in Dirs, LoseMarker(d) PROVE OwnerMarked'
    <3>1. \A f \in Dirs: mark'[f] \in {0, mark[f]}
      BY <1>2, <2>2 DEF LoseMarker, TypeOK
    <3> QED
      BY <1>1, <3>1 DEF OneToOneInv, OwnerMarked, Active
  <2>3. CASE mark' = mark
    BY <1>1, <2>3 DEF OneToOneInv, OwnerMarked, Active
  <2> QED
    BY <2>1, <2>2, <2>3 DEF User, TakeAway, PutAt
<1> QED
  BY <1>4, <1>5, <1>6

\* Steps that change neither registry, markers nor what was handed out.
LEMMA HandedKept ==
  ASSUME OneToOneInv, NEW c \in Procs, pr' = [pr EXCEPT ![c] = pr'[c]],
         pr'[c].pc # "serve",
         UNCHANGED <<reg, at, served, raced>>
  PROVE  ~raced' => HandedOnce'
<1>1. TypeOK
  BY DEF OneToOneInv, CarriedInv, RegistryInv
<1>2. \A b \in Procs: pr'[b].pc = "serve" => pr'[b] = pr[b]
  BY <1>1 DEF TypeOK
<1>3. \A u \in Uuids: Handed(u)' \subseteq Handed(u)
  BY <1>2 DEF Handed
<1> QED
  BY <1>3 DEF OneToOneInv, HandedOnce, Active

LEMMA OwnersKept ==
  ASSUME OwnerMarked, UNCHANGED <<reg, mark, owner>>
  PROVE  OwnerMarked'
BY DEF OwnerMarked, Active

\* A decision.
LEMMA PlanStands ==
  ASSUME OneToOneInv, NEW c \in Procs, NEW pc \in {"mark", "write", "sync"},
         NEW u, NEW o, NEW doc, pr[c].pc # "idle",
         Plan(c, pc, u, o, doc),
         pc = "mark" /\ mark[pr[c].dir] = 0 => AllWitnessed,
         pc = "write" =>
           /\ u \in Uuids
           /\ \A w \in Uuids \ {u}: doc[w] = reg[w]
           /\ doc[u].st # "none"
           /\ Active(u) /\ Available(reg[u].path) =>
                doc[u].st = "tomb" \/ doc[u].path = reg[u].path
  PROVE  Standing(c)' /\ (~raced' => HandedOnce') /\ OwnerMarked'
<1>1. TypeOK
  BY DEF OneToOneInv, CarriedInv, RegistryInv
<1>2. /\ pr'[c].pc = pc /\ pr'[c].uuid = u /\ pr'[c].doc = doc
      /\ pr'[c].op = pr[c].op /\ pr'[c].root = pr[c].root /\ pr'[c].dir = pr[c].dir
      /\ pr' = [pr EXCEPT ![c] = pr'[c]]
      /\ UNCHANGED <<reg, at, mark, served, owner, raced>>
  <2> DEFINE r == [pr[c] EXCEPT !.pc = pc, !.uuid = u, !.old = o, !.doc = doc]
  <2>1. pr' = [pr EXCEPT ![c] = r]
    BY <1>1 DEF Plan
  <2>2. pr'[c] = r
    BY <1>1, <2>1 DEF TypeOK
  <2>3. /\ r.pc = pc /\ r.uuid = u /\ r.doc = doc
        /\ r.op = pr[c].op /\ r.root = pr[c].root /\ r.dir = pr[c].dir
    BY <1>1 DEF TypeOK
  <2> HIDE DEF r
  <2> QED
    BY <2>1, <2>2, <2>3 DEF Plan, History
<1>3. Standing(c)'
  <2>1. ~raced => at[pr[c].root] = pr[c].dir
    BY DEF OneToOneInv, Standing
  <2>2. pr'[c].pc = "mark" /\ ~raced' /\ mark'[pr'[c].dir] = 0 => AllWitnessed'
    BY <1>2 DEF AllWitnessed, Witnessed, Active, Available
  <2>3. pr'[c].pc = "write" =>
          /\ u \in Uuids
          /\ \A w \in Uuids \ {u}: doc[w] = reg'[w]
          /\ doc[u].st # "none"
          /\ ~raced' /\ Active(u)' /\ Available(reg[u].path)' =>
               doc[u].st = "tomb" \/ doc[u].path = reg'[u].path
    BY <1>2 DEF Active, Available
  <2> QED
    BY <1>2, <2>1, <2>2, <2>3 DEF Standing
<1>4. ~raced' => HandedOnce'
  BY <1>2, HandedKept
<1>5. OwnerMarked'
  BY <1>2, OwnersKept DEF OneToOneInv
<1> QED
  BY <1>3, <1>4, <1>5
LEMMA DecisionsStand ==
  ASSUME RegistryAssumption, OneToOneInv, NEW c \in Procs,
         \/ AddNothing(c) \/ AddMoved(c) \/ AddLeftover(c) \/ AddMinted(c)
         \/ ProveMarker(c) \/ Tombstone(c) \/ TombstoneNothing(c) \/ Reindex(c)
  PROVE  Standing(c)' /\ (~raced' => HandedOnce') /\ OwnerMarked'
<1>1. /\ TypeOK /\ CommandInv(c) /\ reg \in [Uuids -> Rows]
      /\ pr[c].pc # "idle"
  BY DEF OneToOneInv, CarriedInv, RegistryInv, TypeOK, AddNothing, AddMoved,
     AddLeftover, AddMinted, ProveMarker, Tombstone, TombstoneNothing, Reindex, Deciding
<1> DEFINE m == mark[pr[c].dir]
<1>2. CASE AddNothing(c) \/ TombstoneNothing(c)
  <2>1. \E u: Plan(c, "sync", u, 0, reg)
    BY <1>2 DEF AddNothing, TombstoneNothing
  <2> QED
    BY <1>1, <2>1, PlanStands
<1>3. CASE AddLeftover(c)
  <2>1. Plan(c, "mark", m, 0, reg) /\ m # 0
    BY <1>3 DEF AddLeftover
  <2> QED
    BY <1>1, <2>1, PlanStands
<1>4. CASE AddMinted(c)
  <2>1. Plan(c, "mark", minted + 1, m, reg) /\ (m = 0 => AllWitnessed)
    BY <1>4 DEF AddMinted, MayMintFor
  <2> QED
    BY <1>1, <2>1, PlanStands
<1>5. CASE AddMoved(c)
  <2> DEFINE doc == [reg EXCEPT ![m] = RowFor(c, m)]
  <2>1. Plan(c, "write", m, 0, doc) /\ m # 0 /\ ~Available(reg[m].path)
    BY <1>5 DEF AddMoved, AddMoveOccupied
  <2>2. m \in Uuids
    <3>1. pr[c].dir \in Dirs
      BY <1>1, <1>5 DEF AddMoved, Deciding, CommandInv, Opened
    <3> QED
      BY <1>1, <2>1, <3>1 DEF TypeOK, Uuids, RegistryAssumption
  <2> HIDE DEF m
  <2>3. doc[m].st = "active" /\ \A w \in Uuids \ {m}: doc[w] = reg[w]
    BY <1>1, <2>2 DEF RowFor
  <2> HIDE DEF doc
  <2> QED
    BY <1>1, <2>1, <2>2, <2>3, PlanStands
<1>6. CASE ProveMarker(c)
  <2> DEFINE u == pr[c].uuid
             doc == [reg EXCEPT ![u] = RowFor(c, u)]
  <2>1. /\ Plan(c, "write", u, 0, doc) /\ u \in Uuids /\ ~Active(u)
    BY <1>1, <1>6 DEF ProveMarker, CommandInv, Marking, Active
  <2> HIDE DEF u
  <2>2. doc[u].st = "active" /\ \A w \in Uuids \ {u}: doc[w] = reg[w]
    BY <1>1, <2>1 DEF RowFor
  <2> HIDE DEF doc
  <2> QED
    BY <1>1, <2>1, <2>2, PlanStands
<1>7. CASE Tombstone(c)
  <2>1. PICK u \in Removable(c):
          Plan(c, "write", u, 0,
               [reg EXCEPT ![u].st = "tomb", ![u].path = pr[c].root])
    BY <1>7 DEF Tombstone
  <2> DEFINE doc == [reg EXCEPT ![u].st = "tomb", ![u].path = pr[c].root]
  <2>2. u \in Uuids
    <3>1. pr[c].uuid \in 0..MaxUuid
      BY <1>1 DEF TypeOK
    <3> QED
      BY <3>1 DEF Removable, ActiveAt, Uuids, RegistryAssumption
  <2>3. doc[u].st = "tomb" /\ \A w \in Uuids \ {u}: doc[w] = reg[w]
    BY <1>1, <2>2 DEF Rows
  <2>4. Plan(c, "write", u, 0, doc)
    BY <2>1
  <2> HIDE DEF doc
  <2> QED
    BY <1>1, <2>2, <2>3, <2>4, PlanStands
<1>8. CASE Reindex(c)
  <2> DEFINE u == pr[c].uuid
             doc == [reg EXCEPT ![u] = RowFor(c, u)]
  <2>1. /\ \E pc \in {"sync", "write"}: Plan(c, pc, u, 0, doc)
        /\ ~ReindexConflict(c) /\ pr[c].op = "resolve"
    BY <1>8 DEF Reindex, Deciding
  <2>2. u \in Uuids
    BY <1>1, <2>1 DEF CommandInv, Opened
  <2>3. Available(reg[u].path) => reg[u].path = pr[c].root
    BY <2>1 DEF ReindexConflict
  <2> HIDE DEF u
  <2>4. /\ doc[u].st = "active" /\ doc[u].path = pr[c].root
        /\ \A w \in Uuids \ {u}: doc[w] = reg[w]
    BY <1>1, <2>2 DEF RowFor
  <2> HIDE DEF doc
  <2> QED
    BY <1>1, <2>1, <2>2, <2>3, <2>4, PlanStands
<1> QED
  BY <1>2, <1>3, <1>4, <1>5, <1>6, <1>7, <1>8

\* Opening a directory, and the steps that only move a command along.
LEMMA PassesStand ==
  ASSUME RegistryAssumption, OneToOneInv, NEW c \in Procs,
         \/ \E op \in Ops, p \in Paths: OpenDir(c, op, p)
         \/ \E p \in Paths: OpenMissing(c, p)
         \/ Acquire(c) \/ Stop(c) \/ PassGuard(c) \/ Report(c)
  PROVE  Standing(c)' /\ (~raced' => HandedOnce') /\ OwnerMarked'
<1>1. TypeOK /\ Standing(c)
  BY DEF OneToOneInv, CarriedInv, RegistryInv
<1>2. /\ UNCHANGED <<reg, at, mark, served, owner, raced>>
      /\ pr' = [pr EXCEPT ![c] = pr'[c]]
  <2>1. ASSUME NEW r, pr' = [pr EXCEPT ![c] = r]
        PROVE  pr' = [pr EXCEPT ![c] = pr'[c]]
    BY <1>1, <2>1 DEF TypeOK
  <2>2. \E r: pr' = [pr EXCEPT ![c] = r]
    BY <1>1 DEF OpenDir, OpenMissing, Acquire, Stop, PassGuard, Report, TypeOK
  <2> QED
    BY <2>1, <2>2 DEF OpenDir, OpenMissing, Acquire, Stop, PassGuard, Report, History
<1>3. /\ pr'[c].pc # "serve"
      /\ Standing(c)'
  <2>1. ASSUME NEW op \in Ops, NEW p \in Paths, OpenDir(c, op, p)
        PROVE  pr'[c].pc # "serve" /\ Standing(c)'
    <3>1. pr'[c] = [Idle EXCEPT !.op = op, !.root = p, !.dir = at[p],
                      !.pc = IF op \in {"add", "rm"} THEN "wait" ELSE "look",
                      !.uuid = IF op = "add" THEN 0 ELSE mark[at[p]]]
      BY <1>1, <2>1 DEF OpenDir, TypeOK
    <3>2. /\ pr'[c].op = op /\ pr'[c].root = p /\ pr'[c].dir = at[p]
          /\ pr'[c].pc = IF op \in {"add", "rm"} THEN "wait" ELSE "look"
      BY <3>1 DEF Idle
    <3>3. op \in {"add", "rm", "resolve", "locked"}
      BY DEF RegistryAssumption
    <3> QED
      BY <1>2, <3>2, <3>3 DEF Standing
  <2>2. ASSUME NEW p \in Paths, OpenMissing(c, p)
        PROVE  pr'[c].pc # "serve" /\ Standing(c)'
    <3>1. pr'[c] = [Idle EXCEPT !.op = "rm", !.root = p, !.pc = "wait"] /\ at[p] = none
      BY <1>1, <2>2 DEF OpenMissing, Available, TypeOK
    <3>2. pr'[c].root = p /\ pr'[c].dir = none /\ pr'[c].pc = "wait"
      BY <3>1 DEF Idle
    <3> QED
      BY <1>2, <3>1, <3>2 DEF Standing
  <2>3. CASE pr'[c] = Idle
    BY <2>3 DEF Idle, Standing
  <2>4. CASE Acquire(c)
    <3>1. pr'[c] = [pr[c] EXCEPT !.pc = "decide"] /\ pr[c].pc = "wait"
      BY <1>1, <2>4 DEF Acquire, TypeOK
    <3>2. pr'[c].pc = "decide" /\ pr'[c].root = pr[c].root /\ pr'[c].dir = pr[c].dir
      BY <1>1, <3>1 DEF TypeOK
    <3> QED
      BY <1>1, <1>2, <3>1, <3>2 DEF Standing
  <2>5. CASE PassGuard(c)
    <3>1. pr'[c] = [pr[c] EXCEPT !.pc = "rename"] /\ pr[c].pc = "write"
      BY <1>1, <2>5 DEF PassGuard, TypeOK
    <3>2. /\ pr'[c].pc = "rename" /\ pr'[c].root = pr[c].root /\ pr'[c].dir = pr[c].dir
          /\ pr'[c].uuid = pr[c].uuid /\ pr'[c].doc = pr[c].doc
      BY <1>1, <3>1 DEF TypeOK
    <3> QED
      BY <1>1, <1>2, <3>1, <3>2 DEF Standing, Active, Available
  <2>6. CASE Report(c) /\ pr'[c] # Idle
    <3>1. /\ pr'[c] = [pr[c] EXCEPT !.pc = "again", !.doc = Idle.doc]
          /\ pr[c].pc = "sync" /\ pr[c].op = "resolve"
      BY <1>1, <2>6 DEF Report, TypeOK
    <3>2. /\ pr'[c].pc = "again" /\ pr'[c].root = pr[c].root /\ pr'[c].dir = pr[c].dir
          /\ pr'[c].op = "resolve"
      BY <1>1, <3>1 DEF TypeOK
    <3> QED
      BY <1>1, <1>2, <3>1, <3>2 DEF Standing
  <2>7. Stop(c) => pr'[c] = Idle
    BY <1>1 DEF Stop, TypeOK
  <2>8. Idle.pc # "serve"
    BY DEF Idle
  <2> QED
    BY <2>1, <2>2, <2>3, <2>4, <2>5, <2>6, <2>7, <2>8 DEF Acquire, PassGuard
<1> QED
  BY <1>2, <1>3, HandedKept, OwnersKept DEF OneToOneInv

\* A lookup hands out a mailbox only to the directory at its row's path.
LEMMA LookStands ==
  ASSUME RegistryAssumption, OneToOneInv, NEW c \in Procs, Look(c)
  PROVE  Standing(c)' /\ (~raced' => HandedOnce') /\ OwnerMarked'
<1>1. /\ TypeOK /\ Standing(c) /\ CommandInv(c)
      /\ UNCHANGED <<reg, at, mark, served, owner, raced>>
  BY DEF OneToOneInv, CarriedInv, RegistryInv, Look, History
<1> DEFINE u == pr[c].uuid
<1>2. /\ pr[c].pc \in {"look", "again"} /\ pr[c].op \in {"resolve", "locked"}
      /\ pr[c].dir \in Dirs /\ u \in Uuids /\ Active(u)
  BY <1>1 DEF Look, Resolvable, Standing, CommandInv, Opened
<1>3. /\ pr' = [pr EXCEPT ![c] = pr'[c]]
      /\ pr'[c].pc = IF ~Drifted(c) THEN "serve"
                      ELSE IF pr[c].op = "locked" THEN "stray" ELSE "wait"
      /\ pr'[c].op = pr[c].op /\ pr'[c].root = pr[c].root
      /\ pr'[c].dir = pr[c].dir /\ pr'[c].uuid = u
  BY <1>1 DEF Look, TypeOK
<1>4. Standing(c)'
  BY <1>1, <1>2, <1>3 DEF Standing
<1>5. ~raced' => HandedOnce'
  <2>1. CASE Drifted(c)
    BY <1>1, <1>3, <2>1, HandedKept
  <2>2. CASE ~Drifted(c) /\ ~raced
    <3>1. at[reg[u].path] = pr[c].dir
      BY <1>1, <1>2, <2>2 DEF Drifted, Standing
    <3>2. \A b \in Procs \ {c}: pr'[b] = pr[b]
      BY <1>1, <1>3 DEF TypeOK
    <3>3. HandedOnce
      BY <2>2 DEF OneToOneInv
    <3>4. ASSUME NEW v \in Uuids, NEW d \in Handed(v)'
          PROVE  /\ reg[v].st # "none"
                 /\ Active(v) => at[reg[v].path] = d
                 /\ \A e \in Handed(v)': d = e
      <4>1. \A e \in Handed(v)': e \in Handed(v) \/ (v = u /\ e = pr[c].dir)
        BY <1>1, <1>3, <3>2 DEF Handed
      <4>2. CASE v # u
        BY <3>3, <4>1, <4>2 DEF HandedOnce
      <4>3. CASE v = u
        <5>1. Active(v) /\ reg[v].st # "none" /\ at[reg[v].path] = pr[c].dir
          BY <1>2, <3>1, <4>3 DEF Active
        <5>2. \A e \in Handed(v): e = pr[c].dir
          BY <3>3, <5>1 DEF HandedOnce
        <5> QED
          BY <4>1, <5>1, <5>2
      <4> QED
        BY <4>2, <4>3
    <3> QED
      BY <1>1, <3>4 DEF HandedOnce, Active
  <2> QED
    BY <1>1, <2>1, <2>2
<1>6. OwnerMarked'
  BY <1>1, OwnersKept DEF OneToOneInv
<1> QED
  BY <1>4, <1>5, <1>6

LEMMA ServeStands ==
  ASSUME RegistryAssumption, OneToOneInv, NEW c \in Procs, Serve(c)
  PROVE  Standing(c)' /\ (~raced' => HandedOnce') /\ OwnerMarked'
<1>1. /\ TypeOK /\ Standing(c) /\ CommandInv(c)
      /\ UNCHANGED <<reg, at, mark, owner, raced>> /\ pr[c].pc = "serve"
      /\ served' = [served EXCEPT ![pr[c].uuid] = pr[c].dir]
      /\ pr' = [pr EXCEPT ![c] = Idle]
  BY DEF OneToOneInv, CarriedInv, RegistryInv, Serve, History
<1>2. pr'[c] = Idle /\ Idle.pc = "idle" /\ \A b \in Procs \ {c}: pr'[b] = pr[b]
  BY <1>1 DEF TypeOK, Idle
<1>3. Standing(c)'
  BY <1>2 DEF Standing
<1>4. \A v \in Uuids: Handed(v)' \subseteq Handed(v)
  BY <1>1, <1>2 DEF Handed, TypeOK
<1>5. ~raced' => HandedOnce'
  BY <1>1, <1>4 DEF OneToOneInv, HandedOnce, Active
<1> QED
  BY <1>1, <1>3, <1>5, OwnersKept DEF OneToOneInv

LEMMA ServeStrayStands ==
  ASSUME RegistryAssumption, OneToOneInv, NEW c \in Procs, ServeStray(c)
  PROVE  Standing(c)' /\ (~raced' => HandedOnce') /\ OwnerMarked'
<1>1. /\ TypeOK
      /\ UNCHANGED <<reg, at, mark, served, owner, raced>>
      /\ pr' = [pr EXCEPT ![c] = Idle]
  BY DEF OneToOneInv, CarriedInv, RegistryInv, ServeStray, History
<1>2. pr' = [pr EXCEPT ![c] = pr'[c]] /\ pr'[c] = Idle /\ Idle.pc = "idle"
  BY <1>1 DEF TypeOK, Idle
<1>3. Standing(c)'
  BY <1>2 DEF Standing
<1>4. ~raced' => HandedOnce'
  BY <1>1, <1>2, HandedKept
<1> QED
  BY <1>1, <1>3, <1>4, OwnersKept DEF OneToOneInv

\* Marking a directory releases the identities its row was written for.
LEMMA MarkStands ==
  ASSUME RegistryAssumption, OneToOneInv, NEW c \in Procs, WriteMarker(c)
  PROVE  Standing(c)' /\ (~raced' => HandedOnce') /\ OwnerMarked'
<1>1. /\ TypeOK /\ Standing(c) /\ CommandInv(c) /\ pr[c].pc = "mark"
      /\ UNCHANGED <<reg, at, served, raced>>
      /\ pr' = [pr EXCEPT ![c].pc = "marked"]
  BY DEF OneToOneInv, CarriedInv, RegistryInv, WriteMarker
<1>2. /\ pr' = [pr EXCEPT ![c] = pr'[c]] /\ pr'[c].pc = "marked"
      /\ pr'[c].root = pr[c].root /\ pr'[c].dir = pr[c].dir
  BY <1>1 DEF TypeOK
<1>3. Standing(c)'
  BY <1>1, <1>2 DEF Standing
<1>4. ~raced' => HandedOnce'
  BY <1>1, <1>2, HandedKept
<1>5. OwnerMarked'
  <2>1. pr[c].dir \in Dirs
    BY <1>1 DEF CommandInv, Opened
  <2>2. \A d \in Dirs: mark'[d] = IF d = pr[c].dir THEN pr[c].uuid ELSE mark[d]
    BY <1>1 DEF WriteMarker, TypeOK
  <2>3. \A u \in Uuids: owner'[u] = IF u # pr[c].uuid /\ owner[u] = pr[c].dir
                                    THEN none ELSE owner[u]
    BY DEF WriteMarker
  <2>4. OwnerMarked /\ none \notin Dirs
    BY DEF OneToOneInv, RegistryAssumption
  <2> QED
    BY <1>1, <2>1, <2>2, <2>3, <2>4 DEF OwnerMarked, Active
<1> QED
  BY <1>3, <1>4, <1>5

\* A new document leads no row away from a directory that is there.
LEMMA RenameStands ==
  ASSUME RegistryAssumption, OneToOneInv, NEW c \in Procs, Rename(c)
  PROVE  Standing(c)' /\ (~raced' => HandedOnce') /\ OwnerMarked'
<1> DEFINE u == pr[c].uuid
           doc == pr[c].doc
<1>1. /\ TypeOK /\ Standing(c) /\ CommandInv(c) /\ Carried(c) /\ pr[c].pc = "rename"
      /\ UNCHANGED <<at, mark, served, raced>> /\ reg' = doc
      /\ pr' = [pr EXCEPT ![c].pc = "sync"]
  BY DEF OneToOneInv, CarriedInv, RegistryInv, Rename
<1>2. /\ pr'[c].pc = "sync" /\ pr'[c].root = pr[c].root /\ pr'[c].dir = pr[c].dir
      /\ \A b \in Procs \ {c}: pr'[b] = pr[b]
  BY <1>1 DEF TypeOK
<1>3. /\ u \in Uuids /\ doc[u].st # "none"
      /\ \A w \in Uuids \ {u}: doc[w] = reg[w]
      /\ ~raced /\ Active(u) /\ Available(reg[u].path) =>
           doc[u].st = "tomb" \/ doc[u].path = reg[u].path
      /\ reg[u].st = "tomb" => doc[u].st = "tomb"
  BY <1>1 DEF Standing, CommandInv, Planned
<1>4. Standing(c)'
  BY <1>1, <1>2 DEF Standing
<1>5. ~raced' => HandedOnce'
  <2>1. SUFFICES ASSUME ~raced PROVE HandedOnce'
    BY <1>1
  <2>2. HandedOnce
    BY <2>1 DEF OneToOneInv
  <2>3. \A v \in Uuids: Handed(v)' \subseteq Handed(v)
    BY <1>1, <1>2 DEF Handed
  <2>4. ASSUME NEW v \in Uuids, NEW d \in Handed(v)
        PROVE  doc[v].st # "none" /\ (doc[v].st = "active" => at[doc[v].path] = d)
    <3>1. d \in Dirs /\ d # none
      BY DEF Handed, RegistryAssumption
    <3>2. reg[v].st # "none" /\ (Active(v) => at[reg[v].path] = d)
      BY <2>2 DEF HandedOnce
    <3>3. reg[v].st \in {"none", "active", "tomb"}
      BY <1>1 DEF TypeOK, Rows
    <3> QED
      BY <1>3, <2>1, <3>1, <3>2, <3>3 DEF Active, Available
  <2> QED
    BY <1>1, <2>2, <2>3, <2>4 DEF HandedOnce, Active
<1>6. OwnerMarked'
  <2>1. \A v \in Uuids: owner'[v] = IF v = u
                                    THEN IF pr[c].op = "rm" THEN none ELSE pr[c].dir
                                    ELSE owner[v]
    BY <1>1, <1>3 DEF Rename, TypeOK
  <2>2. pr[c].op # "rm" /\ doc[u].st = "active" => mark[pr[c].dir] = u
    BY <1>1, <1>3 DEF Carried
  <2>3. OwnerMarked /\ none \notin Dirs
    BY DEF OneToOneInv, RegistryAssumption
  <2> QED
    BY <1>1, <1>3, <2>1, <2>2, <2>3 DEF OwnerMarked, Active
<1> QED
  BY <1>4, <1>5, <1>6

LEMMA OneToOneStep ==
  RegistryAssumption /\ OneToOneInv /\ [Next]_vars => OneToOneInv'
<1> SUFFICES ASSUME RegistryAssumption, OneToOneInv, [Next]_vars
             PROVE  OneToOneInv'
  OBVIOUS
<1>1. CarriedInv' /\ RegistryInv /\ TypeOK
  BY CarriedInvStep DEF OneToOneInv, CarriedInv, RegistryInv
<1>2. CASE User
  BY <1>1, <1>2, UserLeaves DEF OneToOneInv
<1>3. ASSUME NEW c \in Procs, Command(c) PROVE OneToOneInv'
  <2>1. Standing(c)' /\ (~raced' => HandedOnce') /\ OwnerMarked'
    BY <1>3, DecisionsStand, PassesStand, LookStands, ServeStands,
       ServeStrayStands, MarkStands, RenameStands DEF Command
  <2>2. ASSUME NEW b \in Procs \ {c} PROVE Standing(b)'
    <3>1. pr'[b] = pr[b] /\ at' = at /\ raced' = raced
      BY <1>1, <1>3 DEF Command, OpenDir, OpenMissing, Acquire, Stop, AddNothing,
         AddMoved, AddLeftover, AddMinted, WriteMarker, ProveMarker, Tombstone,
         TombstoneNothing, Reindex, PassGuard, Rename, Report, Look, Serve, ServeStray, Plan,
         History, TypeOK
    <3>2. lock = b => reg' = reg /\ mark' = mark
      <4>1. Rename(c) \/ WriteMarker(c) => lock = c
        BY <1>1, OnlyHolder DEF Rename, WriteMarker, Locked
      <4> QED
        BY <1>3, <4>1 DEF Command, OpenDir, OpenMissing, Acquire, Stop, AddNothing,
           AddMoved, AddLeftover, AddMinted, ProveMarker, Tombstone,
           TombstoneNothing, Reindex, PassGuard, Report, Look, Serve, ServeStray, Plan
    <3> QED
      BY <1>1, <3>1, <3>2, StandingKept DEF OneToOneInv
  <2> QED
    BY <1>1, <2>1, <2>2 DEF OneToOneInv
<1>4. CASE UNCHANGED vars
  <2>1. \A c \in Procs: Standing(c)'
    BY <1>1, <1>4, StandingKept DEF vars, OneToOneInv
  <2>2. UNCHANGED <<reg, at, mark, served, owner, raced, pr>>
    BY <1>4 DEF vars
  <2>3. (~raced' => HandedOnce') /\ OwnerMarked'
    BY <2>2, OwnersKept DEF OneToOneInv, HandedOnce, Handed, Active
  <2> QED
    BY <1>1, <2>1, <2>3 DEF OneToOneInv
<1> QED
  BY <1>2, <1>3, <1>4 DEF Next

\* As long as the user changes directories only between commands, a UUID's row
\* leads lookups to one directory, once it has done so no other directory with
\* that marker is taken for the project under the layout lock, and no directory
\* whose identity is active is marked with a second one unless a copy stands
\* where its row says.
THEOREM IdentitiesOneToOne == Spec => OneToOne
<1>1. RegistryAssumption
  BY RegistryAssumption
<1>2. OneToOneInv => ServesOne
  <2> SUFFICES ASSUME OneToOneInv, NEW c \in Procs, Serve(c), ~raced
               PROVE  served[pr[c].uuid] \in {none, pr[c].dir}
    BY DEF ServesOne
  <2>1. /\ TypeOK /\ Standing(c) /\ Opened(c) /\ HandedOnce /\ pr[c].pc = "serve"
    BY DEF OneToOneInv, CarriedInv, RegistryInv, CommandInv, Serve
  <2>2. pr[c].uuid \in Uuids /\ pr[c].dir \in Dirs
    BY <2>1 DEF Standing, Opened
  <2>3. pr[c].dir \in Handed(pr[c].uuid)
    BY <2>1, <2>2 DEF Handed
  <2>4. served[pr[c].uuid] \in Dirs => served[pr[c].uuid] \in Handed(pr[c].uuid)
    BY DEF Handed
  <2>5. served[pr[c].uuid] \in Dirs \cup {none}
    BY <2>1, <2>2 DEF TypeOK
  <2> QED
    BY <2>1, <2>2, <2>3, <2>4, <2>5 DEF HandedOnce
<1>3. OneToOneInv => MintsOne
  <2> SUFFICES ASSUME OneToOneInv, NEW c \in Procs, WriteMarker(c), ~raced,
                      NEW v \in Uuids, v # pr[c].uuid, Active(v), owner[v] = pr[c].dir
               PROVE  Witnessed(v)
    BY DEF MintsOne
  <2>1. /\ TypeOK /\ Standing(c) /\ Opened(c) /\ Marking(c) /\ OwnerMarked
        /\ pr[c].pc = "mark" /\ MarkAllowed(c)
    BY DEF OneToOneInv, CarriedInv, RegistryInv, CommandInv, WriteMarker
  <2>2. pr[c].dir \in Dirs /\ v # 0
    BY <2>1 DEF Opened, Uuids
  <2>3. mark[pr[c].dir] \in {0, v}
    BY <2>1, <2>2 DEF OwnerMarked
  <2>4. mark[pr[c].dir] # v
    BY <2>1, <2>2 DEF MarkAllowed, Marking, Active
  <2> QED
    BY <2>1, <2>3, <2>4 DEF Standing, AllWitnessed
<1>4. OneToOneInv => StraysFirst
  <2> SUFFICES ASSUME OneToOneInv, NEW c \in Procs, Look(c), Drifted(c), ~raced
               PROVE  served[pr[c].uuid] \in {none, pr[c].dir}
    BY DEF StraysFirst
  <2> DEFINE u == pr[c].uuid
  <2>1. /\ TypeOK /\ Standing(c) /\ Opened(c) /\ HandedOnce
        /\ pr[c].pc # "idle" /\ Resolvable(c)
        /\ pr[c].pc \in {"look", "again"}
    BY DEF OneToOneInv, CarriedInv, RegistryInv, CommandInv, Look
  <2>2. u \in Uuids /\ Active(u) /\ at[pr[c].root] = pr[c].dir
    BY <2>1 DEF Standing, Opened, Resolvable
  <2>3. served[u] \in Dirs \cup {none}
    BY <2>1, <2>2 DEF TypeOK
  <2>4. ASSUME served[u] \in Dirs PROVE served[u] = pr[c].dir
    <3>1. served[u] \in Handed(u)
      BY <2>4 DEF Handed
    <3>2. at[reg[u].path] = served[u]
      BY <2>1, <2>2, <3>1 DEF HandedOnce
    <3>3. Available(reg[u].path)
      BY <1>1, <2>4, <3>2 DEF Available, RegistryAssumption
    <3>4. reg[u].path = pr[c].root
      BY <2>1, <3>3 DEF Resolvable
    <3> QED
      BY <2>2, <3>2, <3>4
  <2> QED
    BY <2>3, <2>4
<1>5. Init => OneToOneInv
  BY <1>1, OneToOneInit
<1>6. OneToOneInv /\ [Next]_vars => OneToOneInv'
  BY <1>1, OneToOneStep
<1> QED
  BY <1>2, <1>3, <1>4, <1>5, <1>6, PTL DEF Spec, OneToOne
-----------------------------------------------------------------------------
(* Addresses (ProjectAddress).  A send's registry steps are those of a     *)
(* command, so everything above holds beside senders as well.              *)

Sends ==
  [pc: {"idle", "origin", "reconcile", "select", "deliver", "publish"},
   root: Paths \cup {none}, name: Names \cup {none}, to: 0..MaxUuid,
   doc: [Uuids -> Rows], group: Groups \cup {none},
   path: Paths \cup {none}, again: BOOLEAN, since: 0..MaxMoves,
   seen: 0..MaxMoves]

\* What a send has established so far.
Addressed(s) ==
  /\ snd[s].since <= moves /\ snd[s].seen <= moves
  /\ snd[s].name \in Sought \cup {none}
  /\ snd[s].pc # "idle" => snd[s].root \in Paths
  /\ snd[s].pc \in {"origin", "reconcile", "select"} /\ snd[s].name # none =>
       snd[s].to = 0
  /\ snd[s].pc = "select" => snd[s].group \in Groups
  /\ snd[s].pc \in {"select", "deliver", "publish"} /\ snd[s].since = moves =>
       snd[s].group = GroupOf[at[snd[s].root]]
  /\ snd[s].pc \in {"deliver", "publish"} /\ snd[s].since = moves =>
       GroupOf[at[snd[s].path]] = snd[s].group
  /\ snd[s].pc \in {"deliver", "publish"} =>
       snd[s].path \in Paths /\ snd[s].to \in Uuids
  /\ snd[s].pc = "publish" /\ snd[s].seen = moves =>
       /\ at[snd[s].path] \in Dirs
       /\ mark[at[snd[s].path]] = snd[s].to \/ reg[snd[s].to].st = "tomb"

AddressInv ==
  RegistryInv /\ ATypeOK /\ \A s \in Senders: Addressed(s)

LEMMA NonzeroIsUuid ==
  ASSUME RegistryAssumption, NEW t \in 0..MaxUuid, t # 0
  PROVE  t \in Uuids
BY DEF Uuids, RegistryAssumption

LEMMA NoSendIsSend ==
  RegistryAssumption =>
    /\ NoSend \in Sends
    /\ NoSend.pc = "idle" /\ NoSend.name = none /\ NoSend.since = 0
       /\ NoSend.seen = 0
<1> SUFFICES ASSUME RegistryAssumption
             PROVE  /\ NoSend \in Sends
                    /\ NoSend.pc = "idle" /\ NoSend.name = none /\ NoSend.since = 0
       /\ NoSend.seen = 0
  OBVIOUS
<1>1. 0 \in 0..MaxUuid /\ 0 \in 0..MaxMoves
  BY DEF RegistryAssumption
<1>2. Idle.doc \in [Uuids -> Rows]
  BY NoRowIsRow DEF Idle
<1> HIDE DEF Idle
<1> QED
  BY <1>1, <1>2 DEF Sends, NoSend

LEMMA AddressInit ==
  RegistryAssumption /\ AddressAssumption /\ AInit => AddressInv
<1> SUFFICES ASSUME RegistryAssumption, AddressAssumption, AInit PROVE AddressInv
  OBVIOUS
<1>1. RegistryInv
  BY InitInv DEF AInit
<1>2. \A s \in Senders: snd[s] = NoSend /\ snd[s] \in Sends
  BY NoSendIsSend DEF AInit
<1>3. snd \in [Senders -> Sends] /\ lastTo \in [Sought \X Groups -> 0..MaxUuid]
  <2>1. 0 \in 0..MaxUuid
    BY DEF RegistryAssumption
  <2>2. snd \in [Senders -> Sends]
    BY <1>2 DEF AInit
  <2> QED
    BY <2>1, <2>2 DEF AInit
<1>4. ASSUME NEW s \in Senders PROVE Addressed(s)
  <2>1. /\ snd[s].pc = "idle" /\ snd[s].name = none /\ snd[s].since = 0
        /\ snd[s].seen = 0
        /\ moves = 0
    BY <1>2, NoSendIsSend DEF AInit, Init
  <2> QED
    BY <2>1 DEF Addressed
<1> QED
  BY <1>1, <1>3, <1>4 DEF AddressInv, ATypeOK, RegistryInv, Sends

\* Senders take the registry's own steps.
LEMMA SendsAreCommands ==
  ASSUME AddressAssumption, AddressInv, [ANext]_avars
  PROVE  [Next]_vars
<1>1. Senders \subseteq Procs
  BY DEF AddressAssumption
<1>2. ASSUME NEW s \in Senders, Send(s) PROVE [Next]_vars
  <2>1. s \in Procs
    BY <1>1
  <2>2. CASE UNCHANGED vars
    BY <2>2
  <2>3. ASSUME Command(s) PROVE [Next]_vars
    BY <2>1, <2>3 DEF Next
  <2>4. Reconcile(s) => Command(s)
    <3>1. Reconcile(s) => snd[s].root \in Paths
      BY DEF AddressInv, Addressed, Reconcile
    <3>2. Reconcile(s) => "resolve" \in Ops /\ OpenDir(s, "resolve", snd[s].root)
      BY DEF Reconcile, OpenDir
    <3> QED
      BY <3>1, <3>2 DEF Command
  <2>5. Reconciling(s) \/ Reconciled(s) => Command(s)
    BY DEF Reconciling, Reconciled, Command
  <2>6. GiveUp(s) => Command(s) \/ UNCHANGED vars
    BY DEF GiveUp, Command
  <2>7. Origin(s) \/ Select(s) \/ LookUp(s) \/ Publish(s) => UNCHANGED vars
    BY DEF Origin, Select, LookUp, Publish
  <2>8. ASSUME NEW p, NEW n, NEW t, Begin(s, p, n, t) PROVE UNCHANGED vars
    BY <2>8 DEF Begin
  <2> QED
    BY <1>2, <2>2, <2>3, <2>4, <2>5, <2>6, <2>7, <2>8 DEF Send
<1>3. ASSUME NEW c \in Procs \ Senders, Command(c) PROVE [Next]_vars
  BY <1>3 DEF Next
<1>4. AUser => [Next]_vars
  BY DEF AUser, Next
<1>5. UNCHANGED avars => UNCHANGED vars
  BY DEF avars
<1> QED
  BY <1>2, <1>3, <1>4, <1>5 DEF ANext

\* Only the user's steps move directories.
LEMMA CommandsLeaveDirs ==
  ASSUME NEW c, Command(c)
  PROVE  at' = at /\ moves' = moves
BY DEF Command, OpenDir, OpenMissing, Acquire, Stop, AddNothing, AddMoved,
       AddLeftover, AddMinted, WriteMarker, ProveMarker, Tombstone,
       TombstoneNothing, Reindex, PassGuard, Rename, Report, Look, Serve, ServeStray, Plan, History

\* While the user does nothing, the directory that carries a UUID goes on
\* carrying it until that UUID is dead, and then it is dead for good.
IdentitiesKept ==
  /\ \A d \in Dirs: mark[d] # 0 =>
       mark'[d] = mark[d] \/ reg'[mark[d]].st = "tomb"
  /\ \A u \in Uuids: reg[u].st = "tomb" => reg'[u].st = "tomb"

LEMMA CommandsKeepIdentities ==
  ASSUME RegistryAssumption, AddressInv, [ANext]_avars, moves' = moves
  PROVE  IdentitiesKept
<1>1. RegistryInv /\ TypeOK /\ [Next]_vars
  BY SendsAreCommands, AddressAssumption DEF AddressInv, RegistryInv
<1>2. NeverReborn /\ MarkerKept
  BY <1>1, TombstonesStay, MarkersStay
<1>3. ASSUME NEW d \in Dirs, mark[d] # 0, mark'[d] # mark[d]
      PROVE  reg[mark[d]].st = "tomb" /\ mark[d] \in Uuids
  <2>1. mark[d] \in Uuids
    BY <1>1, <1>3 DEF TypeOK, Uuids, RegistryAssumption
  <2>2. ~User
    <3>1. User => moves' = moves + 1
      BY DEF User, TakeAway, PutAt, Copy, LoseMarker, UserChange
    <3>2. moves \in Nat
      BY <1>1 DEF TypeOK, RegistryAssumption
    <3> QED
      BY <3>1, <3>2
  <2>3. PICK c \in Procs: WriteMarker(c)
    <3>1. ASSUME NEW c \in Procs, Command(c), ~WriteMarker(c) PROVE mark' = mark
      BY <3>1 DEF Command, OpenDir, OpenMissing, Acquire, Stop, AddNothing,
         AddMoved, AddLeftover, AddMinted, ProveMarker, Tombstone,
         TombstoneNothing, Reindex, PassGuard, Rename, Report, Look, Serve,
         ServeStray, Plan
    <3>2. UNCHANGED vars => mark' = mark
      BY DEF vars
    <3> QED
      BY <1>1, <1>3, <2>2, <3>1, <3>2 DEF Next
  <2>4. mark'[d] # 0
    <3>1. pr[c].uuid \in Uuids /\ mark' = [mark EXCEPT ![pr[c].dir] = pr[c].uuid]
      BY <1>1, <2>3 DEF WriteMarker, RegistryInv, CommandInv, Marking
    <3> QED
      BY <1>1, <1>3, <3>1 DEF TypeOK, Uuids
  <2> QED
    BY <1>2, <1>3, <2>1, <2>4 DEF MarkerKept
<1> QED
  BY <1>2, <1>3 DEF IdentitiesKept, NeverReborn

\* A send keeps what it established while the user does nothing, and forgets
\* nothing but the group when he does.
LEMMA AddressedKept ==
  ASSUME RegistryAssumption, AddressInv, NEW s \in Senders, snd'[s] = snd[s],
         \/ at' = at /\ moves' = moves /\ IdentitiesKept
         \/ moves' = moves + 1
  PROVE  Addressed(s)'
<1>1. /\ Addressed(s) /\ moves \in Nat /\ snd[s].since \in Nat
      /\ snd[s].seen \in Nat
  <2>1. /\ moves \in 0..MaxMoves /\ snd[s].since \in 0..MaxMoves
        /\ snd[s].seen \in 0..MaxMoves
    BY DEF AddressInv, ATypeOK, TypeOK
  <2> QED
    BY <2>1 DEF AddressInv, RegistryAssumption
<1>2. CASE moves' = moves + 1
  BY <1>1, <1>2 DEF Addressed
<1>3. CASE at' = at /\ moves' = moves /\ IdentitiesKept
  <2>1. snd[s].pc = "publish" /\ snd[s].seen = moves =>
          mark'[at[snd[s].path]] = snd[s].to \/ reg'[snd[s].to].st = "tomb"
    BY <1>1, <1>3 DEF Addressed, IdentitiesKept, Uuids
  <2> QED
    BY <1>1, <1>3, <2>1 DEF Addressed
<1> QED
  BY <1>2, <1>3

\* The steps of a send.
LEMMA SendStep ==
  ASSUME RegistryAssumption, AddressAssumption, AddressInv, NEW s \in Senders, Send(s)
  PROVE  /\ snd' \in [Senders -> Sends]
         /\ \A r \in Senders \ {s}: snd'[r] = snd[r]
         /\ at' = at /\ moves' = moves
         /\ Addressed(s)'
         /\ lastTo' \in [Sought \X Groups -> 0..MaxUuid]
<1>1. /\ snd \in [Senders -> Sends] /\ TypeOK /\ Addressed(s)
      /\ lastTo \in [Sought \X Groups -> 0..MaxUuid]
      /\ snd[s] \in Sends /\ snd[s].since <= moves
  BY DEF AddressInv, ATypeOK, Sends, Addressed
<1>2. /\ moves \in 0..MaxMoves /\ moves \in Nat /\ MaxMoves \in Nat /\ MaxUuid \in Nat
      /\ minted \in 0..MaxUuid
  BY <1>1 DEF TypeOK, RegistryAssumption
<1>3. NoSend \in Sends /\ NoSend.pc = "idle" /\ NoSend.name = none /\ NoSend.since = 0
       /\ NoSend.seen = 0
  BY NoSendIsSend
<1>4. at' = at /\ moves' = moves
  <2>1. [Next]_vars /\ s \in Procs
    BY SendsAreCommands DEF ANext, AddressAssumption
  <2>2. UNCHANGED vars => at' = at /\ moves' = moves
    BY DEF vars
  <2>3. ASSUME NEW p, NEW op, OpenDir(s, op, p) PROVE at' = at /\ moves' = moves
    BY <2>3 DEF OpenDir
  <2>4. Look(s) \/ Acquire(s) \/ Reindex(s) \/ PassGuard(s) \/ Rename(s) \/ Report(s)
          \/ Serve(s) \/ Stop(s) => at' = at /\ moves' = moves
    BY CommandsLeaveDirs DEF Command
  <2> QED
    BY <2>2, <2>3, <2>4 DEF Send, Begin, Origin, Reconcile, Reconciling, Reconciled,
       Select, LookUp, Publish, GiveUp
<1>5. ASSUME NEW r \in Sends, Put(s, r)
      PROVE  /\ snd' \in [Senders -> Sends] /\ snd'[s] = r
             /\ \A q \in Senders \ {s}: snd'[q] = snd[q]
  BY <1>1, <1>5 DEF Put
<1>6. ASSUME NEW p \in Paths, NEW n \in Sought \cup {none}, NEW t \in 0..MaxUuid,
             n # none => t = 0, Begin(s, p, n, t)
      PROVE  /\ snd' \in [Senders -> Sends] /\ Addressed(s)'
             /\ \A q \in Senders \ {s}: snd'[q] = snd[q]
             /\ lastTo' = lastTo
  <2> DEFINE r == [NoSend EXCEPT !.pc = "origin", !.root = p, !.name = n, !.to = t,
                                   !.since = moves]
  <2>1. r \in Sends
    BY <1>2, <1>3, <1>6 DEF Sends, AddressAssumption
  <2>2. /\ r.pc = "origin" /\ r.root = p /\ r.name = n /\ r.to = t /\ r.since = moves
        /\ r.seen = 0
    BY <1>3 DEF Sends
  <2>3. Put(s, r) /\ lastTo' = lastTo
    BY <1>6 DEF Begin
  <2> HIDE DEF r
  <2>4. snd' \in [Senders -> Sends] /\ snd'[s] = r /\ \A q \in Senders \ {s}: snd'[q] = snd[q]
    BY <1>5, <2>1, <2>3
  <2>5. Addressed(s)'
    BY <1>2, <1>4, <1>6, <2>2, <2>4 DEF Addressed
  <2> QED
    BY <2>3, <2>4, <2>5
<1>7. CASE Origin(s)
  <2> DEFINE r == [snd[s] EXCEPT !.pc = "select", !.doc = reg,
                                 !.group = GroupOf[at[snd[s].root]]]
  <2>1. /\ Put(s, r) /\ lastTo' = lastTo /\ snd[s].pc = "origin"
        /\ Available(snd[s].root)
    BY <1>7 DEF Origin
  <2>2. at[snd[s].root] \in Dirs /\ snd[s].root \in Paths
    BY <1>1, <2>1 DEF Addressed, Available, TypeOK
  <2>3. GroupOf[at[snd[s].root]] \in Groups /\ reg \in [Uuids -> Rows]
    BY <1>1, <2>2 DEF RegistryAssumption, TypeOK
  <2>4. r \in Sends
    BY <1>1, <2>3 DEF Sends
  <2>5. /\ r.pc = "select" /\ r.root = snd[s].root /\ r.name = snd[s].name
        /\ r.to = snd[s].to /\ r.since = snd[s].since
        /\ r.group = GroupOf[at[snd[s].root]] /\ r.seen = snd[s].seen
    BY <1>1 DEF Sends
  <2> HIDE DEF r
  <2>6. snd' \in [Senders -> Sends] /\ snd'[s] = r /\ \A q \in Senders \ {s}: snd'[q] = snd[q]
    BY <1>5, <2>1, <2>4
  <2>7. Addressed(s)'
    BY <1>1, <1>4, <2>1, <2>2, <2>3, <2>5, <2>6 DEF Addressed
  <2> QED
    BY <1>1, <1>4, <2>1, <2>6, <2>7
<1>8. CASE Reconcile(s) \/ Reconciled(s)
  <2> DEFINE r1 == [snd[s] EXCEPT !.pc = "reconcile", !.again = TRUE]
             r2 == [snd[s] EXCEPT !.pc = "origin"]
  <2>1. /\ Put(s, r1) \/ Put(s, r2)
        /\ lastTo' = lastTo /\ snd[s].pc \in {"origin", "reconcile"}
    BY <1>8 DEF Reconcile, Reconciled
  <2>2. r1 \in Sends /\ r2 \in Sends
    BY <1>1 DEF Sends
  <2>3. \A r \in {r1, r2}:
          /\ r.pc \in {"origin", "reconcile"} /\ r.root = snd[s].root
          /\ r.name = snd[s].name /\ r.to = snd[s].to /\ r.since = snd[s].since
          /\ r.seen = snd[s].seen
    <3>1. /\ r1.pc = "reconcile" /\ r1.root = snd[s].root
          /\ r1.name = snd[s].name /\ r1.to = snd[s].to
          /\ r1.since = snd[s].since /\ r1.seen = snd[s].seen
      BY <1>1 DEF Sends
    <3>2. /\ r2.pc = "origin" /\ r2.root = snd[s].root
          /\ r2.name = snd[s].name /\ r2.to = snd[s].to
          /\ r2.since = snd[s].since /\ r2.seen = snd[s].seen
      BY <1>1 DEF Sends
    <3> HIDE DEF r1, r2
    <3> QED
      BY <3>1, <3>2
  <2> HIDE DEF r1, r2
  <2>4. PICK r \in {r1, r2}: Put(s, r)
    BY <2>1
  <2>5. snd' \in [Senders -> Sends] /\ snd'[s] = r /\ \A q \in Senders \ {s}: snd'[q] = snd[q]
    BY <1>5, <2>2, <2>4
  <2>6. Addressed(s)'
    BY <1>1, <1>4, <2>1, <2>3, <2>5 DEF Addressed
  <2> QED
    BY <1>1, <1>4, <2>1, <2>5, <2>6
<1>9. CASE Reconciling(s)
  <2>1. moves' = moves /\ [ANext]_avars
    BY <1>4 DEF ANext
  <2>2. IdentitiesKept
    BY <2>1, CommandsKeepIdentities
  <2> QED
    BY <1>1, <1>4, <1>9, <2>2, AddressedKept DEF Reconciling
<1>10. CASE Select(s)
  <2>1. PICK t \in Matches(s):
          /\ Put(s, [snd[s] EXCEPT !.pc = "deliver", !.to = t,
                                   !.path = snd[s].doc[t].path, !.doc = Idle.doc])
          /\ lastTo' = IF snd[s].name = none THEN lastTo
                       ELSE [lastTo EXCEPT ![<<snd[s].name, snd[s].group>>] = t]
    BY <1>10 DEF Select
  <2>2. snd[s].pc = "select"
    BY <1>10 DEF Select
  <2> DEFINE r == [snd[s] EXCEPT !.pc = "deliver", !.to = t,
                                 !.path = snd[s].doc[t].path, !.doc = Idle.doc]
  <2>3. /\ t \in Candidates(s) /\ GroupOf[at[snd[s].doc[t].path]] = snd[s].group
    BY DEF Matches
  <2>4. t \in Uuids /\ t \in 0..MaxUuid
    <3>1. snd[s].to # 0 => snd[s].to \in Uuids
      BY <1>1, <1>2 DEF Sends, Uuids
    <3>2. t \in Uuids
      BY <2>3, <3>1 DEF Candidates, Named
    <3> QED
      BY <1>2, <3>2 DEF Uuids
  <2>5. snd[s].doc[t].path \in Paths /\ Idle.doc \in [Uuids -> Rows]
    <3>1. snd[s].doc[t] \in Rows /\ snd[s].doc[t].st = "active"
      BY <1>1, <2>3, <2>4 DEF Sends, Candidates, Named
    <3> QED
      BY <3>1, NoRowIsRow DEF Rows, Idle
  <2>6. r \in Sends
    BY <1>1, <2>4, <2>5 DEF Sends
  <2>7. /\ r.pc = "deliver" /\ r.root = snd[s].root /\ r.name = snd[s].name
        /\ r.since = snd[s].since /\ r.group = snd[s].group
        /\ r.path = snd[s].doc[t].path /\ r.to = t /\ r.seen = snd[s].seen
    BY <1>1 DEF Sends
  <2>8. Put(s, r)
    BY <2>1
  <2> HIDE DEF r
  <2>9. snd' \in [Senders -> Sends] /\ snd'[s] = r /\ \A q \in Senders \ {s}: snd'[q] = snd[q]
    BY <1>5, <2>6, <2>8
  <2>10. Addressed(s)'
    BY <1>1, <1>4, <2>2, <2>3, <2>4, <2>5, <2>7, <2>9 DEF Addressed
  <2>11. lastTo' \in [Sought \X Groups -> 0..MaxUuid]
    BY <1>1, <2>1, <2>4
  <2> QED
    BY <1>4, <2>9, <2>10, <2>11
<1>11. CASE Publish(s) \/ GiveUp(s)
  <2>1. Put(s, NoSend) /\ lastTo' = lastTo
    BY <1>11 DEF Publish, GiveUp
  <2>2. snd' \in [Senders -> Sends] /\ snd'[s] = NoSend /\ \A q \in Senders \ {s}: snd'[q] = snd[q]
    BY <1>3, <1>5, <2>1
  <2>3. Addressed(s)'
    BY <1>2, <1>3, <1>4, <2>2 DEF Addressed
  <2> QED
    BY <1>1, <1>4, <2>1, <2>2, <2>3
<1>12. CASE LookUp(s)
  <2> DEFINE r == [snd[s] EXCEPT !.pc = "publish", !.seen = moves]
             d == at[snd[s].path]
             t == snd[s].to
  <2>1. /\ Put(s, r) /\ UNCHANGED vars /\ lastTo' = lastTo
        /\ snd[s].pc = "deliver"
        /\ Available(snd[s].path) /\ mark[d] = t /\ Active(t)
    BY <1>12 DEF LookUp
  <2>2. t \in 0..MaxUuid /\ r \in Sends
    BY <1>1, <1>2 DEF Sends
  <2>3. snd[s].path \in Paths /\ t \in Uuids
    BY <1>1, <2>1 DEF Addressed
  <2>4. d \in Dirs
    BY <1>1, <2>1, <2>3 DEF Available, TypeOK
  <2>5. /\ r.pc = "publish" /\ r.root = snd[s].root /\ r.name = snd[s].name
        /\ r.since = snd[s].since /\ r.group = snd[s].group
        /\ r.path = snd[s].path /\ r.to = t /\ r.seen = moves
    BY <1>1 DEF Sends
  <2> HIDE DEF r
  <2>6. /\ snd' \in [Senders -> Sends] /\ snd'[s] = r
        /\ \A q \in Senders \ {s}: snd'[q] = snd[q]
    BY <1>5, <2>1, <2>2
  <2>7. mark' = mark /\ reg' = reg
    BY <2>1 DEF vars
  <2>8. Addressed(s)'
    BY <1>1, <1>2, <1>4, <2>1, <2>3, <2>4, <2>5, <2>6, <2>7 DEF Addressed
  <2> QED
    BY <1>1, <1>4, <2>1, <2>6, <2>8
<1>13. CASE \E p \in Paths:
              \/ \E n \in Sought: Begin(s, p, n, 0)
              \/ \E t \in 1..minted: Begin(s, p, none, t)
  <2>1. 0 \in 0..MaxUuid /\ 1..minted \subseteq 0..MaxUuid
    BY <1>2
  <2> QED
    BY <1>1, <1>4, <1>6, <1>13, <2>1
<1> QED
  BY <1>7, <1>8, <1>9, <1>10, <1>11, <1>12, <1>13 DEF Send

LEMMA AddressStep ==
  RegistryAssumption /\ AddressAssumption /\ AddressInv /\ [ANext]_avars => AddressInv'
<1> SUFFICES ASSUME RegistryAssumption, AddressAssumption, AddressInv, [ANext]_avars
             PROVE  AddressInv'
  OBVIOUS
<1>1. RegistryInv' /\ TypeOK'
  BY SendsAreCommands, InvStep DEF AddressInv, RegistryInv
<1>2. snd \in [Senders -> Sends] /\ lastTo \in [Sought \X Groups -> 0..MaxUuid]
  BY DEF AddressInv, ATypeOK, Sends
<1>3. ASSUME NEW s \in Senders, Send(s) PROVE AddressInv'
  <2>1. /\ snd' \in [Senders -> Sends]
        /\ \A r \in Senders \ {s}: snd'[r] = snd[r]
        /\ at' = at /\ moves' = moves
        /\ Addressed(s)'
        /\ lastTo' \in [Sought \X Groups -> 0..MaxUuid]
    BY <1>3, SendStep
  <2>2. IdentitiesKept
    BY <2>1, CommandsKeepIdentities
  <2>3. \A r \in Senders: Addressed(r)'
    BY <2>1, <2>2, AddressedKept
  <2> QED
    BY <1>1, <2>1, <2>3 DEF AddressInv, ATypeOK, Sends
<1>4. ASSUME UNCHANGED <<snd, lastTo>>,
             (at' = at /\ moves' = moves) \/ moves' = moves + 1
      PROVE  AddressInv'
  <2>1. moves' = moves => IdentitiesKept
    BY CommandsKeepIdentities
  <2>2. \A r \in Senders: Addressed(r)'
    BY <1>4, <2>1, AddressedKept
  <2> QED
    BY <1>1, <1>2, <1>4, <2>2 DEF AddressInv, ATypeOK, Sends
<1>5. AUser => UNCHANGED <<snd, lastTo>> /\ moves' = moves + 1
  BY DEF AUser, User, TakeAway, PutAt, Copy, LoseMarker, UserChange
<1>6. ASSUME NEW c, Command(c) PROVE at' = at /\ moves' = moves
  BY <1>6, CommandsLeaveDirs
<1>7. UNCHANGED avars => UNCHANGED <<snd, lastTo>> /\ at' = at /\ moves' = moves
  BY DEF avars, vars
<1> QED
  BY <1>3, <1>4, <1>5, <1>6, <1>7 DEF ANext

LEMMA AddressInvariance == ASpec => []AddressInv
<1>1. RegistryAssumption /\ AddressAssumption
  BY RegistryAssumption, AddressAssumption
<1>2. AInit => AddressInv
  BY <1>1, AddressInit
<1>3. AddressInv /\ [ANext]_avars => AddressInv'
  BY <1>1, AddressStep
<1> QED
  BY <1>2, <1>3, PTL DEF ASpec

\* The variables of ProjectAddress keep their types.
THEOREM AddressTypeCorrect == ASpec => []ATypeOK
<1>1. AddressInv => ATypeOK
  BY DEF AddressInv
<1> QED
  BY <1>1, AddressInvariance, PTL

\* Mail is written to a directory that carries the UUID it was addressed to,
\* whatever commands did since the lookup found it there - unless the project
\* was removed meanwhile, or the user changed the directories.
THEOREM DeliveredRight == ASpec => DeliveredAsAddressed
<1> DEFINE Right ==
      \A s \in Senders:
        Publish(s) /\ snd[s].seen = moves =>
          \/ mark[at[snd[s].path]] = snd[s].to
          \/ reg[snd[s].to].st = "tomb"
<1>1. AddressInv => Right
  BY DEF Publish, AddressInv, Addressed
<1>2. ASpec => [][ANext]_avars
  BY PTL DEF ASpec
<1> QED
  BY <1>1, <1>2, AddressInvariance, PTL DEF DeliveredAsAddressed

\* An address does not drift: mail stays in the sender's Git group while the
\* user leaves the directories alone, and a name goes on standing for its
\* project while the snapshot has that project under it, away or not.
THEOREM AddressIsKept == ASpec => AddressKept
<1>1. AddressInv => InGroup
  BY DEF AddressInv, Addressed, InGroup, Publish
<1>2. ASSUME AddressInv, [ANext]_avars PROVE NameStable
  <2> SUFFICES ASSUME NEW s \in Senders, Select(s), snd[s].name # none,
                      NEW t, t = lastTo[<<snd[s].name, snd[s].group>>], t # 0,
                      snd[s].doc[t].st = "active",
                      NameOf[snd[s].doc[t].path] = snd[s].name,
                      snd[s].doc[t].group = snd[s].group,
                      WitnessAt(s, t) => GroupOf[at[snd[s].doc[t].path]] = snd[s].group
               PROVE  snd'[s].to = t
    BY DEF NameStable
  <2>1. /\ snd \in [Senders -> Sends] /\ Addressed(s) /\ snd[s].pc = "select"
        /\ lastTo \in [Sought \X Groups -> 0..MaxUuid]
    BY <1>2 DEF AddressInv, ATypeOK, Sends, Select
  <2>2. snd[s].name \in Sought /\ snd[s].group \in Groups /\ snd[s].to = 0
    BY <2>1 DEF Addressed
  <2>3. t \in Uuids
    <3>1. t \in 0..MaxUuid
      BY <2>1, <2>2
    <3> QED
      BY <3>1, RegistryAssumption, NonzeroIsUuid
  <2>4. t \in Candidates(s)
    BY <2>2, <2>3 DEF Candidates, Named
  <2>5. PICK u \in Matches(s):
          /\ Matches(s) = {u}
          /\ Put(s, [snd[s] EXCEPT !.pc = "deliver", !.to = u,
                                   !.path = snd[s].doc[u].path, !.doc = Idle.doc])
    BY DEF Select
  <2>6. ~Spoils(s, t)
    BY <2>4, <2>5 DEF Matches
  <2>7. LiveAt(s, t) /\ WitnessAt(s, t)
    BY <2>6 DEF Spoils
  <2>8. t \in Matches(s)
    BY <2>4, <2>5, <2>7 DEF Matches
  <2>9. snd'[s].to = u
    BY <2>1, <2>5 DEF Put, Sends
  <2> QED
    BY <2>5, <2>8, <2>9
<1>3. ASpec => [][ANext]_avars
  BY PTL DEF ASpec
<1> QED
  BY <1>1, <1>2, <1>3, AddressInvariance, PTL DEF AddressKept
=============================================================================
