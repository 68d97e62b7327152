------------------------------ MODULE MailAck ------------------------------
(***************************************************************************)
(* Acknowledging the inbound mail of one seat: bin/rt-ack with the rt-say  *)
(* it runs, bin/_rtmail.py's native _ack, and the Maildir moves both make. *)
(*                                                                         *)
(* A message is a name in new/, in cur/, or (between the link and the      *)
(* unlink of an archive) in both.  rt-ack reads the route of its refs in   *)
(* one shared layout section, has rt-say publish one quiet receipt per     *)
(* sender outside it, and archives that sender's refs in another section,  *)
(* so several rt-acks interleave step by step.  A native acknowledgement   *)
(* keeps the layout lock exclusively from beginning to end.                *)
(*                                                                         *)
(* Every process may fail or be killed at any step, and rt-say may outlive *)
(* its rt-ack.  A check that fails is a guard: the process that meets it   *)
(* has nothing left but to Quit.  A retry is another process.              *)
(***************************************************************************)
EXTENDS Naturals

CONSTANTS
  Refs,        \* messages to the seat
  Senders,     \* their senders' mailboxes
  SenderOf,    \* SenderOf[r]: who sent r
  Local,       \* the senders of the seat's own project
  RtAcks,      \* rt-ack processes
  Natives,     \* native acknowledgements
  NoRef        \* no message in hand

Procs == RtAcks \cup Natives

ASSUME MailAckAssumption ==
  /\ SenderOf \in [Refs -> Senders]
  /\ Local \subseteq Senders
  /\ RtAcks \cap Natives = {}
  /\ NoRef \notin Refs

VARIABLES
  new, cur,    \* the messages named in inbox/<seat>/new and .../cur
  receipts,    \* the quiet receipts published to the senders' mailboxes
  pc,          \* pc[a]: where process a is
  unread,      \* unread[a]: refs whose route a has still to read
  need,        \* need[a]: refs for which a has still to publish a receipt
  todo,        \* todo[a]: refs a has still to archive
  ref,         \* ref[a]: the ref a is archiving
  named,       \* named[a]: the refs a's rt-say was given
  before       \* history, before[a]: the archived refs when a started

vars == <<new, cur, receipts, pc, unread, need, todo, ref, named, before>>

States == {"idle", "reading", "ready", "saying", "validated", "orphaned",
           "archiving", "looking", "linking", "unlinking", "ended"}
Archiving == {"archiving", "looking", "linking", "unlinking"}

Receipt == [by : Procs, refs : SUBSET Refs]

TypeOK ==
  /\ new \subseteq Refs /\ cur \subseteq Refs
  /\ receipts \subseteq Receipt
  /\ pc \in [Procs -> States]
  /\ unread \in [Procs -> SUBSET Refs]
  /\ need \in [Procs -> SUBSET Refs]
  /\ todo \in [Procs -> SUBSET Refs]
  /\ ref \in [Procs -> Refs \cup {NoRef}]
  /\ named \in [Procs -> SUBSET Refs]
  /\ before \in [Procs -> SUBSET Refs]

Init ==
  /\ new = {} /\ cur = {}
  /\ receipts = {}
  /\ pc = [a \in Procs |-> "idle"]
  /\ unread = [a \in Procs |-> {}]
  /\ need = [a \in Procs |-> {}]
  /\ todo = [a \in Procs |-> {}]
  /\ ref = [a \in Procs |-> NoRef]
  /\ named = [a \in Procs |-> {}]
  /\ before = [a \in Procs |-> {}]

mailbox == <<new, cur, receipts>>
plan == <<unread, need, todo>>

To(a, state) == pc' = [pc EXCEPT ![a] = state]

\* The process is gone, and what it had in mind with it.
Ends(a) ==
  /\ To(a, "ended")
  /\ unread' = [unread EXCEPT ![a] = {}]
  /\ need' = [need EXCEPT ![a] = {}]
  /\ todo' = [todo EXCEPT ![a] = {}]
  /\ ref' = [ref EXCEPT ![a] = NoRef]
  /\ named' = [named EXCEPT ![a] = {}]
  /\ UNCHANGED before

Delivered == new \cup cur

\* The receipts that name r, and the refs that have one.
Naming(r) == {x \in receipts : r \in x.refs}
Receipted == UNION {x.refs : x \in receipts}

From(s) == {r \in Refs : SenderOf[r] = s}

\* _exact_copies and inbound_origin_route: the archive copy says that a
\* receipt was sent.
AcknowledgedWhenNotInNew(r) == r \notin new                        \* mutant
Acknowledged(r) == r \in cur

\* Who has the layout lock: see LayoutLock.
InSection(a) == a \in RtAcks /\ pc[a] \in Archiving \cup {"reading"}
Writing(n) == n \in Natives /\ pc[n] \notin {"idle", "ended"}
NoWriter == \A n \in Natives : ~Writing(n)
NobodyInside == NoWriter /\ \A a \in RtAcks : ~InSection(a)

----------------------------------------------------------------------------
\* rt-say or a native send: publish_maildir writes tmp/ and renames into new/.
Deliver(r) ==
  /\ r \notin Delivered
  /\ NoWriter
  /\ new' = new \cup {r}
  /\ UNCHANGED <<cur, receipts, pc, plan, ref, named, before>>

----------------------------------------------------------------------------
(* rt-ack                                                                  *)

\* A shared section begins; the refs name messages the seat may have seen.
Start(a, refs) ==
  /\ pc[a] = "idle"
  /\ NoWriter
  /\ unread' = [unread EXCEPT ![a] = refs]
  /\ before' = [before EXCEPT ![a] = cur]
  /\ To(a, "reading")
  /\ UNCHANGED <<mailbox, need, todo, ref, named>>

\* inbound_origin_route, one ref after another, each in new/ or cur/.
ReadRoute(a, r) ==
  /\ pc[a] = "reading"
  /\ r \in unread[a] \cap Delivered
  /\ unread' = [unread EXCEPT ![a] = @ \ {r}]
  /\ IF Acknowledged(r)
     THEN todo' = [todo EXCEPT ![a] = @ \cup {r}] /\ UNCHANGED need
     ELSE need' = [need EXCEPT ![a] = @ \cup {r}] /\ UNCHANGED todo
  /\ UNCHANGED <<mailbox, pc, ref, named, before>>

RouteRead(a) ==
  /\ pc[a] = "reading"
  /\ unread[a] = {}
  /\ To(a, "ready")
  /\ UNCHANGED <<mailbox, plan, ref, named, before>>

\* archive_refs: the already acknowledged refs first, then each group.
BeginArchive(a) ==
  /\ a \in RtAcks
  /\ pc[a] = "ready"
  /\ todo[a] # {}
  /\ NoWriter
  /\ To(a, "archiving")
  /\ UNCHANGED <<mailbox, plan, ref, named, before>>

\* subprocess.run(rt-say) for the next sender's group.
Say(a, s) ==
  /\ a \in RtAcks
  /\ pc[a] = "ready"
  /\ todo[a] = {}
  /\ need[a] \cap From(s) # {}
  /\ named' = [named EXCEPT ![a] = need[a] \cap From(s)]
  /\ need' = [need EXCEPT ![a] = @ \ From(s)]
  /\ To(a, "saying")
  /\ UNCHANGED <<mailbox, unread, todo, ref, before>>

\* validate_ack_route: each ref must have its copy in the seat's mailbox.
Validate(a) ==
  /\ pc[a] = "saying"
  /\ NoWriter
  /\ named[a] \subseteq Delivered
  /\ To(a, "validated")
  /\ UNCHANGED <<mailbox, plan, ref, named, before>>

\* The mailbox rt-say publishes to is this one when the sender is local.
PublishUnlocked(a) == TRUE                                         \* mutant
MayPublish(a) == named[a] \cap UNION {From(s) : s \in Local} # {} => NoWriter

ReceiptOf(a, refs) == [by |-> a, refs |-> refs]

\* rt-say renames the receipt into the sender's new/.
Publish(a) ==
  /\ pc[a] = "validated"
  /\ MayPublish(a)
  /\ receipts' = receipts \cup {ReceiptOf(a, named[a])}
  /\ todo' = [todo EXCEPT ![a] = named[a]]
  /\ named' = [named EXCEPT ![a] = {}]
  /\ To(a, "ready")
  /\ UNCHANGED <<new, cur, unread, need, ref, before>>

\* rt-ack is killed and its rt-say goes on, or rt-say reports a failure
\* although the rename is already durable.
Orphan(a) ==
  /\ pc[a] = "validated"
  /\ To(a, "orphaned")
  /\ UNCHANGED <<mailbox, plan, ref, named, before>>

PublishOrphan(a) ==
  /\ pc[a] = "orphaned"
  /\ MayPublish(a)
  /\ receipts' = receipts \cup {ReceiptOf(a, named[a])}
  /\ Ends(a)
  /\ UNCHANGED <<new, cur>>

\* Everything is done, an error ends the process, or it is killed.
Quit(a) ==
  /\ pc[a] \notin {"idle", "ended"}
  /\ Ends(a)
  /\ UNCHANGED mailbox

----------------------------------------------------------------------------
(* archive_inbound: lstat the source, lstat the archive, link, unlink.     *)

\* A source that is gone is complete when the archive copy exists.
LookSource(a, r) ==
  /\ pc[a] = "archiving"
  /\ r \in todo[a] \cap Delivered
  /\ IF r \in new
     THEN To(a, "looking") /\ ref' = [ref EXCEPT ![a] = r] /\ UNCHANGED todo
     ELSE todo' = [todo EXCEPT ![a] = @ \ {r}] /\ UNCHANGED <<pc, ref>>
  /\ UNCHANGED <<mailbox, unread, need, named, before>>

UnlinksAtOnce(r) == "unlinking"                                    \* mutant
AfterLook(r) == IF r \in cur THEN "unlinking" ELSE "linking"

LookArchive(a) ==
  /\ pc[a] = "looking"
  /\ To(a, AfterLook(ref[a]))
  /\ UNCHANGED <<mailbox, plan, ref, named, before>>

\* os.link refuses a name that is taken and a source that is gone.
Link(a) ==
  /\ pc[a] = "linking"
  /\ ref[a] \in new \ cur
  /\ cur' = cur \cup {ref[a]}
  /\ To(a, "unlinking")
  /\ UNCHANGED <<new, receipts, plan, ref, named, before>>

Unlink(a) ==
  /\ pc[a] = "unlinking"
  /\ ref[a] \in new
  /\ new' = new \ {ref[a]}
  /\ todo' = [todo EXCEPT ![a] = @ \ {ref[a]}]
  /\ To(a, "archiving")
  /\ ref' = [ref EXCEPT ![a] = NoRef]
  /\ UNCHANGED <<cur, receipts, unread, need, named, before>>

\* The shared section ends.
EndSection(a) ==
  /\ a \in RtAcks
  /\ pc[a] = "archiving"
  /\ todo[a] = {}
  /\ To(a, "ready")
  /\ UNCHANGED <<mailbox, plan, ref, named, before>>

----------------------------------------------------------------------------
(* The native _ack, in one exclusive section.                              *)

\* _receipt_evidence: two receipts for one ref are refused.
Consistent(refs) ==
  \A r \in refs : \A x, y \in Naming(r) : x = y

\* The batch is checked before the first mutation: each ref exists and was
\* sent from this project.
NativeStart(n, refs) ==
  /\ pc[n] = "idle"
  /\ NobodyInside
  /\ refs \subseteq Delivered
  /\ \A r \in refs : SenderOf[r] \in Local
  /\ Consistent(refs)
  /\ before' = [before EXCEPT ![n] = cur]
  /\ need' = [need EXCEPT ![n] = {r \in refs : ~Acknowledged(r) /\ Naming(r) = {}}]
  /\ todo' = [todo EXCEPT ![n] = refs \cap new]
  /\ To(n, "ready")
  /\ UNCHANGED <<mailbox, unread, ref, named>>

\* _publish_observed for one sender's group.
NativePublish(n, s) ==
  /\ n \in Natives
  /\ pc[n] = "ready"
  /\ need[n] \cap From(s) # {}
  /\ receipts' = receipts \cup {ReceiptOf(n, need[n] \cap From(s))}
  /\ need' = [need EXCEPT ![n] = @ \ From(s)]
  /\ UNCHANGED <<new, cur, pc, unread, todo, ref, named, before>>

NativeArchive(n) ==
  /\ n \in Natives
  /\ pc[n] = "ready"
  /\ need[n] = {}
  /\ todo[n] # {}
  /\ To(n, "archiving")
  /\ UNCHANGED <<mailbox, plan, ref, named, before>>

----------------------------------------------------------------------------

ArchiveStep(a) ==
  \/ \E r \in Refs : LookSource(a, r)
  \/ LookArchive(a) \/ Link(a) \/ Unlink(a) \/ EndSection(a)

RtAckStep(a) ==
  \/ \E refs \in SUBSET Refs \ {{}} : Start(a, refs)
  \/ \E r \in Refs : ReadRoute(a, r)
  \/ \E s \in Senders : Say(a, s)
  \/ RouteRead(a) \/ BeginArchive(a) \/ Validate(a) \/ Publish(a)
  \/ Orphan(a) \/ PublishOrphan(a)

NativeStep(n) ==
  \/ \E refs \in SUBSET Refs \ {{}} : NativeStart(n, refs)
  \/ \E s \in Senders : NativePublish(n, s)
  \/ NativeArchive(n)

Next ==
  \/ \E r \in Refs : Deliver(r)
  \/ \E a \in Procs : ArchiveStep(a) \/ Quit(a)
  \/ \E a \in RtAcks : RtAckStep(a)
  \/ \E n \in Natives : NativeStep(n)

Spec == Init /\ [][Next]_vars

----------------------------------------------------------------------------
(* Properties.                                                             *)

\* rt-ack: retrying a batch "cannot mint duplicate receipts for earlier
\* successful groups": nobody publishes a receipt for a message that was
\* archived when it started.
RetryDoesNotRedeliver ==
  \A x \in receipts : x.refs \cap before[x.by] = {}

\* mutate_mail: "The exclusive layout section serializes competing native
\* mutations": a native receipt never names a message that has a receipt,
\* whoever published that, and through every crash and retry.
NativeReceiptIsFirst ==
  \A x \in receipts' \ receipts :
    x.by \in Natives => x.refs \cap Receipted = {}

NativeReceiptsOnce == [][NativeReceiptIsFirst]_vars

\* The mailbox keeps its promise: see AckedDelivery.
Stage(r) ==
  IF r \in new
  THEN IF r \in Receipted THEN "receipted" ELSE "delivered"
  ELSE IF r \in cur THEN "archived" ELSE "unsent"

Promise == INSTANCE AckedDelivery WITH stage <- [r \in Refs |-> Stage(r)]

ImplementsAckedDelivery == Promise!Spec
=============================================================================
