----------------------------- MODULE ReplyAlarm -----------------------------
(***************************************************************************)
(* An answer that does not come: what rt-say --expect-reply asks of a      *)
(* seat's watchers.  rt-say publishes a message and then records an        *)
(* expectation for it in the seat's runtime; the watchers of rt-wait-inbox *)
(* look for its quiet receipt and clear or raise it; and rt-inbox          *)
(* --archive-quiet-acks moves the receipts while they look.                *)
(*                                                                         *)
(* Watchers, drains and the peers' rt-acks all hold the layout lock        *)
(* shared, so they interleave file by file.  The expectations are written  *)
(* under the seat's state lock, one action here.                           *)
(***************************************************************************)
EXTENDS Naturals

CONSTANTS
  Asked,       \* messages sent with --expect-reply
  Watchers,    \* pids of watchers
  Drains,      \* rt-inbox processes that archive quiet receipts
  None,        \* no watcher, no message
  MaxGen,      \* bound: generations of the seat's lease
  MaxFaults    \* bound: watchers killed, and slots taken from a slow watcher

ReplyAlarmAssumption ==
  /\ None \notin Watchers \cup Asked
  /\ MaxGen \in Nat \ {0} /\ MaxFaults \in Nat

VARIABLES
  gen,         \* the current generation of the seat's lease
  slot,        \* its watcherPid
  say,         \* say[m]: the rt-say that asks m, and the fence it presents
  quietNew,    \* the asked messages whose receipt is named in new/ ...
  quietCur,    \* ... and in cur/
  expects,     \* reply-expectations.json
  due,         \* of these, the ones whose deadline has passed
  watch,       \* watch[w]: the watcher w
  drain,       \* drain[d]: the drain d
  faults,
  recorded,    \* history: the messages ever expected
  raised,      \* history: the alarms reported
  lost,        \* history: the alarms that a killed watcher had taken
  answered     \* history, answered[w]: the receipts there when w began to look

mail == <<quietNew, quietCur>>
alarms == <<expects, due>>
history == <<recorded, raised, lost, answered>>
vars == <<gen, slot, say, mail, alarms, watch, drain, faults, history>>

NoWatch == [pc |-> "none", gen |-> 0, todo |-> {}, seen |-> {}, fired |-> {}]
NoDrain == [pc |-> "none", todo |-> {}, ref |-> None]

TypeOK ==
  /\ gen \in 1..MaxGen
  /\ slot \in Watchers \cup {None}
  /\ say \in [Asked -> [pc : {"none", "sent", "ended"}, gen : 0..MaxGen]]
  /\ quietNew \subseteq Asked /\ quietCur \subseteq Asked
  /\ expects \subseteq Asked /\ due \subseteq expects
  /\ watch \in [Watchers ->
       [pc : {"none", "probing", "looking", "reading", "reconciling",
              "reporting", "polling"},
        gen : 0..MaxGen, todo : SUBSET Asked, seen : SUBSET Asked,
        fired : SUBSET Asked]]
  /\ drain \in [Drains -> [pc : {"none", "next", "link", "unlink"},
                           todo : SUBSET Asked, ref : Asked \cup {None}]]
  /\ faults \in 0..MaxFaults
  /\ recorded \subseteq Asked /\ raised \subseteq Asked /\ lost \subseteq Asked
  /\ answered \in [Watchers -> SUBSET Asked]

Init ==
  /\ gen = 1 /\ slot = None
  /\ say = [m \in Asked |-> [pc |-> "none", gen |-> 0]]
  /\ quietNew = {} /\ quietCur = {}
  /\ expects = {} /\ due = {}
  /\ watch = [w \in Watchers |-> NoWatch]
  /\ drain = [d \in Drains |-> NoDrain]
  /\ faults = 0
  /\ recorded = {} /\ raised = {} /\ lost = {}
  /\ answered = [w \in Watchers |-> {}]

\* The seat passes to another owner (SeatLease); its expectations stay.
Relaunch ==
  /\ gen < MaxGen
  /\ gen' = gen + 1 /\ slot' = None
  /\ UNCHANGED <<say, mail, alarms, watch, drain, faults, history>>

-----------------------------------------------------------------------------
(* rt-say --expect-reply, and the answer.                                  *)

\* The message is delivered; what follows is outside the mailbox.
Send(m) ==
  /\ say[m].pc = "none"
  /\ say' = [say EXCEPT ![m] = [pc |-> "sent", gen |-> gen]]
  /\ UNCHANGED <<gen, slot, mail, alarms, watch, drain, faults, history>>

\* add_reply_expectation under the fence that rt-say was sent with.
Record(m) ==
  /\ say[m].pc = "sent" /\ say[m].gen = gen
  /\ say' = [say EXCEPT ![m].pc = "ended"]
  /\ expects' = expects \cup {m}
  /\ recorded' = recorded \cup {m}
  /\ UNCHANGED <<gen, slot, mail, due, watch, drain, faults, raised, lost,
                 answered>>

\* The fence is rejected, the storage fails or rt-say is killed: the delivery
\* stands without an alarm.
NotRecorded(m) ==
  /\ say[m].pc = "sent"
  /\ say' = [say EXCEPT ![m].pc = "ended"]
  /\ UNCHANGED <<gen, slot, mail, alarms, watch, drain, faults, history>>

\* The peer's quiet receipt arrives, whenever the peer likes.
Receive(m) ==
  /\ say[m].pc # "none" /\ m \notin quietNew \cup quietCur
  /\ quietNew' = quietNew \cup {m}
  /\ UNCHANGED <<gen, slot, say, quietCur, alarms, watch, drain, faults,
                 history>>

Expire(m) ==
  /\ m \in expects \ due
  /\ due' = due \cup {m}
  /\ UNCHANGED <<gen, slot, say, mail, expects, watch, drain, faults, history>>

-----------------------------------------------------------------------------
(* A watcher.                                                              *)

Current(w) == watch[w].gen = gen

\* It claims the slot: nobody has it, its holder is gone, or its holder has not
\* renewed it within the TTL.
Arm(w) ==
  /\ watch[w].pc = "none"
  /\ \/ /\ slot # None => watch[slot].pc = "none"
        /\ UNCHANGED faults
     \/ /\ slot # None /\ watch[slot].pc # "none"
        /\ faults < MaxFaults /\ faults' = faults + 1
  /\ slot' = w
  /\ watch' = [watch EXCEPT ![w] = [NoWatch EXCEPT !.pc = "probing", !.gen = gen]]
  /\ UNCHANGED <<gen, say, mail, alarms, drain, history>>

Goes(w, pc) == watch' = [watch EXCEPT ![w].pc = pc]

\* It ends, and clears the slot if that is still its own.
Ends(w) ==
  /\ watch' = [watch EXCEPT ![w] = NoWatch]
  /\ answered' = [answered EXCEPT ![w] = {}]
  /\ slot' = IF slot = w /\ Current(w) THEN None ELSE slot

\* has_reply_expectations: without the file there is nothing to look for.
Probe(w) ==
  /\ watch[w].pc = "probing"
  /\ Goes(w, IF expects = {} THEN "polling" ELSE "looking")
  /\ UNCHANGED <<gen, slot, say, mail, alarms, drain, faults, history>>

\* A migration holds the layout lock: no look this time.
LookTimesOut(w) ==
  /\ watch[w].pc = "looking"
  /\ Goes(w, "polling")
  /\ UNCHANGED <<gen, slot, say, mail, alarms, drain, faults, history>>

\* _reply_acknowledgements lists new/ and reads its files one by one; one that
\* is gone by then is passed over.
ListNew(w) ==
  /\ watch[w].pc = "looking"
  /\ watch' = [watch EXCEPT ![w].pc = "reading", ![w].todo = quietNew]
  /\ answered' = [answered EXCEPT ![w] = quietNew \cup quietCur]
  /\ UNCHANGED <<gen, slot, say, mail, alarms, drain, faults, recorded, raised,
                 lost>>

ReadNew(w, m) ==
  /\ watch[w].pc = "reading" /\ m \in watch[w].todo
  /\ watch' = [watch EXCEPT ![w].todo = @ \ {m},
                            ![w].seen = @ \cup ({m} \cap quietNew)]
  /\ UNCHANGED <<gen, slot, say, mail, alarms, drain, faults, history>>

\* Then cur/, which only grows.
ReadNewOnly(w) ==                                                  \* mutant
  /\ watch[w].pc = "reading" /\ watch[w].todo = {}
  /\ Goes(w, "reconciling")
  /\ UNCHANGED <<gen, slot, say, mail, alarms, drain, faults, history>>

ReadCur(w) ==
  /\ watch[w].pc = "reading" /\ watch[w].todo = {}
  /\ watch' = [watch EXCEPT ![w].pc = "reconciling",
                            ![w].seen = @ \cup quietCur]
  /\ UNCHANGED <<gen, slot, say, mail, alarms, drain, faults, history>>

\* reconcile_reply_expectations: what is acknowledged is cleared, and what is
\* overdue leaves the file in the write that takes it.
Overdue(w) == due \ watch[w].seen

WritesBeforeFence(w) ==                                            \* mutant
  /\ watch[w].pc = "reconciling"
  /\ expects' = expects \ (watch[w].seen \cup due)
  /\ due' = {}
  /\ watch' = [watch EXCEPT ![w].pc = IF Overdue(w) = {} \/ ~Current(w)
                                      THEN "polling" ELSE "reporting",
                            ![w].todo = {}, ![w].seen = {},
                            ![w].fired = IF Current(w) THEN Overdue(w) ELSE {}]
  /\ answered' = [answered EXCEPT ![w] = IF Overdue(w) = {} THEN {} ELSE @]
  /\ UNCHANGED <<gen, slot, say, mail, drain, faults, recorded, raised, lost>>

Reconcile(w) ==
  /\ watch[w].pc = "reconciling" /\ Current(w)
  /\ expects' = expects \ (watch[w].seen \cup due)
  /\ due' = {}
  /\ watch' = [watch EXCEPT ![w].pc = IF Overdue(w) = {} THEN "polling"
                                      ELSE "reporting",
                            ![w].todo = {}, ![w].seen = {},
                            ![w].fired = Overdue(w)]
  /\ answered' = [answered EXCEPT ![w] = IF Overdue(w) = {} THEN {} ELSE @]
  /\ UNCHANGED <<gen, slot, say, mail, drain, faults, recorded, raised, lost>>

\* The lease or the slot was lost: the watcher ends as superseded.
Superseded(w) ==
  /\ \/ watch[w].pc = "reconciling" /\ ~Current(w)
     \/ watch[w].pc = "polling" /\ (~Current(w) \/ slot # w)
  /\ Ends(w)
  /\ UNCHANGED <<gen, say, mail, alarms, drain, faults, recorded, raised, lost>>

\* The heartbeat is renewed and the seat polled again.
Poll(w) ==
  /\ watch[w].pc = "polling" /\ Current(w) /\ slot = w
  /\ Goes(w, "probing")
  /\ UNCHANGED <<gen, slot, say, mail, alarms, drain, faults, history>>

\* Mail, the end of its lifetime, a signal.
Leave(w) ==
  /\ watch[w].pc = "polling"
  /\ Ends(w)
  /\ UNCHANGED <<gen, say, mail, alarms, drain, faults, recorded, raised, lost>>

Report(w) ==
  /\ watch[w].pc = "reporting"
  /\ raised' = raised \cup watch[w].fired
  /\ Ends(w)
  /\ UNCHANGED <<gen, say, mail, alarms, drain, faults, recorded, lost>>

\* A kill takes the alarms with it that the watcher has taken and not reported;
\* the slot is left behind, or cleared when it was a signal.
Kill(w) ==
  /\ watch[w].pc # "none" /\ faults < MaxFaults
  /\ faults' = faults + 1
  /\ lost' = lost \cup watch[w].fired
  /\ watch' = [watch EXCEPT ![w] = NoWatch]
  /\ answered' = [answered EXCEPT ![w] = {}]
  /\ slot' \in {slot, IF slot = w THEN None ELSE slot}
  /\ UNCHANGED <<gen, say, mail, alarms, drain, recorded, raised>>

-----------------------------------------------------------------------------
(* archive_quiet_acks.                                                     *)

Frame == UNCHANGED <<gen, slot, say, alarms, watch, faults, history>>

ListReceipts(d) ==
  /\ drain[d].pc = "none" /\ quietNew # {}
  /\ drain' = [drain EXCEPT ![d] = [NoDrain EXCEPT !.pc = "next",
                                                   !.todo = quietNew]]
  /\ UNCHANGED mail /\ Frame

\* Both names are examined: one inode under both is an archive to finish.
Examine(d, m) ==
  /\ drain[d].pc = "next" /\ m \in drain[d].todo /\ m \in quietNew
  /\ drain' = [drain EXCEPT ![d].ref = m,
                            ![d].pc = IF m \in quietCur THEN "unlink"
                                      ELSE "link"]
  /\ UNCHANGED mail /\ Frame

\* link(2) refuses a name that is there and a source that is not.
LinkReceipt(d) ==
  /\ drain[d].pc = "link"
  /\ drain[d].ref \in quietNew \ quietCur
  /\ quietCur' = quietCur \cup {drain[d].ref}
  /\ drain' = [drain EXCEPT ![d].pc = "unlink"]
  /\ UNCHANGED quietNew /\ Frame

UnlinkReceipt(d) ==
  /\ drain[d].pc = "unlink" /\ drain[d].ref \in quietNew
  /\ quietNew' = quietNew \ {drain[d].ref}
  /\ drain' = [drain EXCEPT ![d].pc = "next", ![d].ref = None,
                            ![d].todo = @ \ {drain[d].ref}]
  /\ UNCHANGED quietCur /\ Frame

\* It fails, as when another drain was faster, or finishes, or is killed.
DrainStops(d) ==
  /\ drain[d].pc # "none"
  /\ drain' = [drain EXCEPT ![d] = NoDrain]
  /\ UNCHANGED mail /\ Frame

-----------------------------------------------------------------------------
Watcher(w) ==
  \/ Arm(w) \/ Probe(w) \/ LookTimesOut(w) \/ ListNew(w)
  \/ \E m \in Asked : ReadNew(w, m)
  \/ ReadCur(w) \/ Reconcile(w) \/ Superseded(w) \/ Poll(w) \/ Leave(w)
  \/ Report(w) \/ Kill(w)

Drain(d) ==
  \/ ListReceipts(d) \/ \E m \in Asked : Examine(d, m)
  \/ LinkReceipt(d) \/ UnlinkReceipt(d) \/ DrainStops(d)

Next ==
  \/ Relaunch
  \/ \E m \in Asked :
       Send(m) \/ Record(m) \/ NotRecorded(m) \/ Receive(m) \/ Expire(m)
  \/ \E w \in Watchers : Watcher(w)
  \/ \E d \in Drains : Drain(d)

Spec == Init /\ [][Next]_vars

-----------------------------------------------------------------------------
(* Properties.                                                             *)

\* "The matching quiet ack- receipt clears it from either new/ or cur/": no
\* alarm is taken for a message whose receipt was in the mailbox when the
\* watcher began to look, although drains move receipts between the two
\* directories while it reads them.
AlarmTrue == \A w \in Watchers : watch[w].fired \cap answered[w] = {}

\* "A watcher restart can never emit the same alarm twice": an alarm is in the
\* file, with one watcher, reported or lost, and never in two of these, however
\* watchers overlap and seats change hands.
AlarmOnce ==
  /\ \A w, v \in Watchers : w # v => watch[w].fired \cap watch[v].fired = {}
  /\ LET taken == UNION {watch[w].fired : w \in Watchers}
     IN  /\ taken \cap (expects \cup raised \cup lost) = {}
         /\ expects \cap (raised \cup lost) = {} /\ raised \cap lost = {}

\* An expectation that was recorded is accounted for: it stays until there is a
\* receipt or an alarm, and a receipt, once there, is never lost between the
\* directories.
AlarmKept ==
  recorded \subseteq expects \cup quietNew \cup quietCur \cup raised \cup lost
                     \cup UNION {watch[w].fired : w \in Watchers}
=============================================================================
