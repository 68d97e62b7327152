--------------------------- MODULE ProjectAddress ---------------------------
(***************************************************************************)
(* Sending to a sibling project by name, or back to an origin by UUID.     *)
(* The sender reads one snapshot of the registry, proves itself and its    *)
(* Git group, brings its own row up to date if its directory was moved,    *)
(* selects the target from the snapshot against the live directories,      *)
(* looks the target's own mailbox up, and writes the mail to the path that *)
(* lookup gave it - while registry commands run and the user moves         *)
(* directories between those steps.  Mailboxes are in their directories    *)
(* here (the local layout); a central one is found by UUID, and never      *)
(* misses.                                                                 *)
(* Source: resolve_project_address in _rtlib.py, main in rt-say.           *)
(***************************************************************************)
EXTENDS Registry

CONSTANTS
  Senders,      \* commands that send
  Names,        \* project names: the last component of a path
  Sought,       \* the names that messages are addressed to
  NameOf        \* [Paths -> Names]

ASSUME AddressAssumption ==
  /\ Senders \subseteq Procs
  /\ NameOf \in [Paths -> Names]
  /\ Sought \subseteq Names
  /\ none \notin Names

VARIABLES
  snd,          \* the sends under way
  lastTo        \* per name and group, the project it last stood for

avars == <<vars, snd, lastTo>>

NoSend == [pc |-> "idle", root |-> none, name |-> none, to |-> 0, doc |-> Idle.doc,
           group |-> none, path |-> none, again |-> FALSE, since |-> 0, seen |-> 0]

AInit ==
  /\ Init
  /\ snd = [s \in Senders |-> NoSend]
  /\ lastTo = [k \in Sought \X Groups |-> 0]

Put(s, r) == snd' = [snd EXCEPT ![s] = r]

-----------------------------------------------------------------------------

\* A message is addressed to a name, or (an acknowledgement) to a UUID.
Begin(s, p, n, t) ==
  /\ snd[s].pc = "idle" /\ pr[s].pc = "idle"
  /\ Available(p)
  /\ Put(s, [NoSend EXCEPT !.pc = "origin", !.root = p, !.name = n, !.to = t,
                           !.since = moves])
  /\ UNCHANGED <<vars, lastTo>>

\* The sender's own row in the snapshot: active, and the only claim.
OriginResolvable(s) ==
  LET u == mark[at[snd[s].root]] IN
  /\ u # 0
  /\ Active(u)
  /\ reg[u].path # snd[s].root => ~Available(reg[u].path)
  /\ \A v \in Uuids \ {u}: Active(v) => reg[v].path \notin {reg[u].path, snd[s].root}

\* The sender is proven and its row is current: keep snapshot and live group.
Origin(s) ==
  /\ snd[s].pc = "origin"
  /\ Available(snd[s].root)
  /\ OriginResolvable(s)
  /\ reg[mark[at[snd[s].root]]].path = snd[s].root
  /\ Put(s, [snd[s] EXCEPT !.pc = "select", !.doc = reg,
                           !.group = GroupOf[at[snd[s].root]]])
  /\ UNCHANGED <<vars, lastTo>>

\* The sender was moved: its row is reconciled, once, by the resolver.
Reconcile(s) ==
  /\ snd[s].pc = "origin" /\ ~snd[s].again
  /\ Available(snd[s].root)
  /\ OriginResolvable(s)
  /\ reg[mark[at[snd[s].root]]].path # snd[s].root
  /\ OpenDir(s, "resolve", snd[s].root)
  /\ Put(s, [snd[s] EXCEPT !.pc = "reconcile", !.again = TRUE])
  /\ UNCHANGED lastTo

Reconciled(s) ==
  /\ snd[s].pc = "reconcile"
  /\ Serve(s)
  /\ Put(s, [snd[s] EXCEPT !.pc = "origin"])
  /\ UNCHANGED lastTo

\* The resolver's other steps, taken by the sender itself.
Reconciling(s) ==
  /\ snd[s].pc = "reconcile"
  /\ \/ Look(s) \/ Acquire(s) \/ Reindex(s)
     \/ PassGuard(s) \/ Rename(s) \/ Report(s)
  /\ UNCHANGED <<snd, lastTo>>

-----------------------------------------------------------------------------
(* Selecting the target: the snapshot's rows, judged by what is live now.  *)

Named(doc, n) ==
  {t \in Uuids: doc[t].st = "active" /\ NameOf[doc[t].path] = n}

Candidates(s) ==
  IF snd[s].to # 0 THEN {t \in {snd[s].to}: snd[s].doc[t].st = "active"}
  ELSE Named(snd[s].doc, snd[s].name)

LiveAt(s, t) == Available(snd[s].doc[t].path)

WitnessAt(s, t) == LiveAt(s, t) /\ mark[at[snd[s].doc[t].path]] = t

\* A candidate makes the whole name unusable: it is away but recorded in the
\* sender's group, or what is at its path is not it.
Spoils(s, t) ==
  IF LiveAt(s, t) THEN ~WitnessAt(s, t) ELSE snd[s].doc[t].group = snd[s].group

\* Mutant: a candidate whose directory is away is passed over.
SkipsAway(s) ==
  {t \in Candidates(s): WitnessAt(s, t) /\ GroupOf[at[snd[s].doc[t].path]] = snd[s].group}

\* The live siblings the address may stand for.
Matches(s) ==
  IF \E t \in Candidates(s): Spoils(s, t) THEN {}
  ELSE {t \in Candidates(s):
          LiveAt(s, t) /\ GroupOf[at[snd[s].doc[t].path]] = snd[s].group}

\* Exactly one match is an address; none or several are refused.
Select(s) ==
  /\ snd[s].pc = "select"
  /\ \E t \in Matches(s):
       /\ Matches(s) = {t}
       /\ Put(s, [snd[s] EXCEPT !.pc = "deliver", !.to = t,
                                !.path = snd[s].doc[t].path, !.doc = Idle.doc])
       /\ lastTo' = IF snd[s].name = none THEN lastTo
                    ELSE [lastTo EXCEPT ![<<snd[s].name, snd[s].group>>] = t]
  /\ UNCHANGED vars

\* Mutant: the mailbox found at the address is not compared with its UUID.
LookUpAnyone(s) ==
  LET u == mark[at[snd[s].path]] IN
  /\ snd[s].pc = "deliver"
  /\ Available(snd[s].path)
  /\ u # 0 /\ Active(u)
  /\ reg[u].path # snd[s].path => ~Available(reg[u].path)
  /\ \A v \in Uuids \ {u}: Active(v) => reg[v].path \notin {reg[u].path, snd[s].path}
  /\ Put(s, [snd[s] EXCEPT !.pc = "publish", !.seen = moves])
  /\ UNCHANGED <<vars, lastTo>>

\* The target's mailbox is looked up anew under its layout lock, from the
\* directory that is at the address now; it must still be the UUID the address
\* named.
LookUp(s) ==
  LET u == mark[at[snd[s].path]] IN
  /\ snd[s].pc = "deliver"
  /\ Available(snd[s].path)
  /\ u = snd[s].to /\ Active(u)
  /\ reg[u].path # snd[s].path => ~Available(reg[u].path)
  /\ \A v \in Uuids \ {u}: Active(v) => reg[v].path \notin {reg[u].path, snd[s].path}
  /\ Put(s, [snd[s] EXCEPT !.pc = "publish", !.seen = moves])
  /\ UNCHANGED <<vars, lastTo>>

\* The mail is written by path: into whatever project directory is there now.
Publish(s) ==
  /\ snd[s].pc = "publish"
  /\ Available(snd[s].path)
  /\ Put(s, NoSend)
  /\ UNCHANGED <<vars, lastTo>>

\* A refusal, an error or a kill ends the send.
GiveUp(s) ==
  /\ snd[s].pc # "idle"
  /\ Put(s, NoSend)
  /\ IF pr[s].pc = "idle" THEN UNCHANGED vars ELSE Stop(s)
  /\ UNCHANGED lastTo

Send(s) ==
  \/ \E p \in Paths:
       \/ \E n \in Sought: Begin(s, p, n, 0)
       \/ \E t \in 1..minted: Begin(s, p, none, t)
  \/ Origin(s) \/ Reconcile(s) \/ Reconciling(s) \/ Reconciled(s)
  \/ Select(s) \/ LookUp(s) \/ Publish(s) \/ GiveUp(s)

AUser ==
  /\ User
  /\ UNCHANGED <<snd, lastTo>>

ANext ==
  \/ AUser
  \/ \E c \in Procs \ Senders: Command(c) /\ UNCHANGED <<snd, lastTo>>
  \/ \E s \in Senders: Send(s)

ASpec == AInit /\ [][ANext]_avars

-----------------------------------------------------------------------------

ATypeOK ==
  /\ TypeOK
  /\ snd \in [Senders ->
       [pc: {"idle", "origin", "reconcile", "select", "deliver", "publish"},
        root: Paths \cup {none}, name: Names \cup {none}, to: 0..MaxUuid,
        doc: [Uuids -> Rows], group: Groups \cup {none},
        path: Paths \cup {none}, again: BOOLEAN, since: 0..MaxMoves,
        seen: 0..MaxMoves]]
  /\ lastTo \in [Sought \X Groups -> 0..MaxUuid]

\* What commands do between the lookup and the write does not turn mail over to
\* another project: the directory it is written to carries the UUID it was
\* addressed to, unless that project was removed meanwhile (its directory may
\* then be registered anew) or the user changed the directories.
DeliveredAsAddressed ==
  [][\A s \in Senders:
       Publish(s) /\ snd[s].seen = moves =>
         \/ mark[at[snd[s].path]] = snd[s].to
         \/ reg[snd[s].to].st = "tomb"]_avars

\* Mail never leaves the sender's Git group, whatever rows and copies there
\* are, when the user leaves the directories alone during the send.
InGroup ==
  \A s \in Senders: Publish(s) /\ snd[s].since = moves =>
    GroupOf[at[snd[s].path]] = GroupOf[at[snd[s].root]]

\* A name that stood for one project does not silently become another's while
\* the first is still recorded under that name in that group: a project that
\* is away makes its name unusable, not free.
NameStable ==
  \A s \in Senders: Select(s) =>
    LET t == lastTo[<<snd[s].name, snd[s].group>>] IN
    snd[s].name # none /\ t # 0 /\ snd[s].doc[t].st = "active"
      /\ NameOf[snd[s].doc[t].path] = snd[s].name
      /\ snd[s].doc[t].group = snd[s].group
      /\ (WitnessAt(s, t) => GroupOf[at[snd[s].doc[t].path]] = snd[s].group)
    => snd'[s].to = t

\* What an address stands for does not drift: not to another group, and not to
\* another project of the same name.
AddressKept == [][InGroup /\ NameStable]_avars

=============================================================================
