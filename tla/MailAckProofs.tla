--------------------------- MODULE MailAckProofs ---------------------------
(***************************************************************************)
(* Theorems about MailAck: however rt-acks, native acknowledgements and    *)
(* failures interleave, the mailbox keeps the promise of AckedDelivery, a  *)
(* retry redelivers nothing that was archived, and a native receipt is the *)
(* first one of each message it names.                                     *)
(***************************************************************************)
EXTENDS MCMailAck, TLAPS

\* The invariant, in parts.  Receipts name delivered messages, archived
\* messages have receipts, and a process that published has started.
Receipts ==
  /\ Receipted \subseteq Delivered
  /\ cur \subseteq Receipted
  /\ \A x \in receipts : pc[x.by] # "idle"

\* What a process plans is delivered; what it archives has a receipt, or for a
\* native acknowledgement will have one first.
Plan(a) ==
  /\ (pc[a] \in {"idle", "ended"}) => (need[a] = {} /\ named[a] = {} /\ todo[a] = {})
  /\ need[a] \cup named[a] \subseteq Delivered
  /\ todo[a] \subseteq Receipted \cup need[a]
  /\ (a \in RtAcks \/ pc[a] \in Archiving) => todo[a] \subseteq Receipted
  /\ (pc[a] \in {"looking", "linking", "unlinking"}) => ref[a] \in todo[a]
  /\ (pc[a] = "unlinking") => ref[a] \in cur

\* What was archived when a process started is not named by it.
Fresh(a) ==
  /\ before[a] \subseteq cur
  /\ (need[a] \cup named[a]) \cap before[a] = {}

\* A native acknowledgement works alone on local messages without a receipt.
Native(n) ==
  /\ \A r \in need[n] : SenderOf[r] \in Local
  /\ need[n] \cap Receipted = {}
  /\ Writing(n) => \A a \in Procs \ {n} : ~Writing(a) /\ ~InSection(a)

AckInv ==
  /\ TypeOK
  /\ Receipts
  /\ \A a \in Procs : Plan(a)
  /\ \A a \in Procs : Fresh(a)
  /\ \A n \in Natives : Native(n)
  /\ RetryDoesNotRedeliver

----------------------------------------------------------------------------
(* The model's variables keep their types.                                 *)

LEMMA TypeInit == Init => TypeOK
  BY DEF Init, TypeOK, States

LEMMA TypeArchive ==
  ASSUME TypeOK, NEW a \in Procs, ArchiveStep(a) \/ Quit(a)
  PROVE  TypeOK'
  <1>1. ASSUME NEW r \in Refs, LookSource(a, r) PROVE TypeOK'
    BY <1>1 DEF TypeOK, LookSource, To, mailbox, States
  <1>2. CASE LookArchive(a)
    BY <1>2 DEF TypeOK, LookArchive, AfterLook, To, mailbox, plan, States
  <1>3. CASE Link(a)
    BY <1>3 DEF TypeOK, Link, To, plan, States
  <1>4. CASE Unlink(a)
    BY <1>4 DEF TypeOK, Unlink, To, States
  <1>5. CASE EndSection(a)
    BY <1>5 DEF TypeOK, EndSection, To, mailbox, plan, States
  <1>6. CASE Quit(a)
    BY <1>6 DEF TypeOK, Quit, Ends, To, mailbox, States
  <1> QED BY <1>1, <1>2, <1>3, <1>4, <1>5, <1>6 DEF ArchiveStep

LEMMA TypeRtAck ==
  ASSUME TypeOK, NEW a \in RtAcks, RtAckStep(a)
  PROVE  TypeOK'
  <1>0. a \in Procs
    BY DEF Procs
  <1>1. ASSUME NEW refs \in SUBSET Refs, Start(a, refs) PROVE TypeOK'
    BY <1>0, <1>1 DEF TypeOK, Start, To, mailbox, States
  <1>2. ASSUME NEW r \in Refs, ReadRoute(a, r) PROVE TypeOK'
    BY <1>0, <1>2 DEF TypeOK, ReadRoute, mailbox
  <1>3. ASSUME NEW s \in Senders, Say(a, s) PROVE TypeOK'
    BY <1>0, <1>3 DEF TypeOK, Say, To, mailbox, States
  <1>4. CASE RouteRead(a) \/ BeginArchive(a) \/ Validate(a) \/ Orphan(a)
    BY <1>0, <1>4 DEF TypeOK, RouteRead, BeginArchive, Validate, Orphan, To,
                      mailbox, plan, States
  <1>5. CASE Publish(a) \/ PublishOrphan(a)
    <2>1. ReceiptOf(a, named[a]) \in Receipt
      BY <1>0 DEF TypeOK, ReceiptOf, Receipt
    <2> QED BY <1>0, <1>5, <2>1 DEF TypeOK, Publish, PublishOrphan, Ends, To,
       States
  <1> QED BY <1>1, <1>2, <1>3, <1>4, <1>5 DEF RtAckStep

LEMMA TypeNative ==
  ASSUME TypeOK, NEW n \in Natives, NativeStep(n)
  PROVE  TypeOK'
  <1>0. n \in Procs
    BY DEF Procs
  <1>1. ASSUME NEW refs \in SUBSET Refs, NativeStart(n, refs) PROVE TypeOK'
    BY <1>0, <1>1 DEF TypeOK, NativeStart, To, mailbox, States
  <1>2. ASSUME NEW s \in Senders, NativePublish(n, s) PROVE TypeOK'
    <2>1. ReceiptOf(n, need[n] \cap From(s)) \in Receipt
      BY <1>0 DEF TypeOK, ReceiptOf, Receipt, From
    <2> QED BY <1>0, <1>2, <2>1 DEF TypeOK, NativePublish
  <1>3. CASE NativeArchive(n)
    BY <1>0, <1>3 DEF TypeOK, NativeArchive, To, mailbox, plan, States
  <1> QED BY <1>1, <1>2, <1>3 DEF NativeStep

LEMMA TypeStep == TypeOK /\ [Next]_vars => TypeOK'
  <1> SUFFICES ASSUME TypeOK, [Next]_vars PROVE TypeOK'
    OBVIOUS
  <1>1. ASSUME NEW r \in Refs, Deliver(r) PROVE TypeOK'
    BY <1>1 DEF TypeOK, Deliver, plan
  <1>2. CASE UNCHANGED vars
    BY <1>2 DEF TypeOK, vars
  <1> QED BY <1>1, <1>2, TypeArchive, TypeRtAck, TypeNative DEF Next

\* Every variable of the mailbox and of its acknowledgers keeps its type.
THEOREM TypeCorrect == Spec => []TypeOK
  BY TypeInit, TypeStep, PTL DEF Spec

----------------------------------------------------------------------------
(* A step of one process: what it leaves to the others.                    *)

Step(a) ==
  \/ ArchiveStep(a) \/ Quit(a)
  \/ a \in RtAcks /\ RtAckStep(a)
  \/ a \in Natives /\ NativeStep(a)

\* Nothing of another process changes.
Only(a) ==
  \A b \in Procs \ {a} :
    /\ pc'[b] = pc[b] /\ need'[b] = need[b] /\ todo'[b] = todo[b]
    /\ ref'[b] = ref[b] /\ named'[b] = named[b] /\ before'[b] = before[b]

\* Nothing is lost from the mailbox, the archive or the receipts.
Grows ==
  /\ Delivered \subseteq Delivered'
  /\ cur \subseteq cur'
  /\ receipts \subseteq receipts'

LEMMA StepIsLocal ==
  ASSUME TypeOK, NEW a \in Procs, Step(a)
  PROVE  Only(a)
  <1>1. CASE ArchiveStep(a)
    BY <1>1 DEF Only, TypeOK, ArchiveStep, LookSource, LookArchive, Link,
       Unlink, EndSection, To, plan
  <1>2. CASE Quit(a)
    BY <1>2 DEF Only, TypeOK, Quit, Ends, To
  <1>3. CASE a \in RtAcks /\ RtAckStep(a)
    <2>1. ASSUME NEW refs \in SUBSET Refs, Start(a, refs) PROVE Only(a)
      BY <2>1 DEF Only, TypeOK, Start, To
    <2>2. ASSUME NEW r \in Refs, ReadRoute(a, r) PROVE Only(a)
      BY <2>2 DEF Only, TypeOK, ReadRoute
    <2>3. ASSUME NEW s \in Senders, Say(a, s) PROVE Only(a)
      BY <2>3 DEF Only, TypeOK, Say, To
    <2>4. CASE RouteRead(a) \/ BeginArchive(a) \/ Validate(a) \/ Orphan(a)
      BY <2>4 DEF Only, TypeOK, RouteRead, BeginArchive, Validate, Orphan, To,
         plan
    <2>5. CASE Publish(a) \/ PublishOrphan(a)
      BY <2>5 DEF Only, TypeOK, Publish, PublishOrphan, Ends, To
    <2> QED BY <1>3, <2>1, <2>2, <2>3, <2>4, <2>5 DEF RtAckStep
  <1>4. CASE a \in Natives /\ NativeStep(a)
    BY <1>4 DEF Only, TypeOK, NativeStep, NativeStart, NativePublish,
       NativeArchive, To, plan
  <1> QED BY <1>1, <1>2, <1>3, <1>4 DEF Step

LEMMA StepGrows ==
  ASSUME TypeOK, NEW a \in Procs, Plan(a), Step(a)
  PROVE  Grows
  <1>1. CASE ArchiveStep(a)
    BY <1>1 DEF Grows, Plan, Delivered, ArchiveStep, LookSource, LookArchive,
       Link, Unlink, EndSection, mailbox
  <1>2. CASE Quit(a)
    BY <1>2 DEF Grows, Delivered, Quit, mailbox
  <1>3. CASE a \in RtAcks /\ RtAckStep(a)
    BY <1>3 DEF Grows, Delivered, RtAckStep, Start, ReadRoute, Say, RouteRead,
                BeginArchive, Validate, Orphan, Publish, PublishOrphan, mailbox
  <1>4. CASE a \in Natives /\ NativeStep(a)
    BY <1>4 DEF Grows, Delivered, NativeStep, NativeStart, NativePublish,
                NativeArchive, mailbox
  <1> QED BY <1>1, <1>2, <1>3, <1>4 DEF Step

\* What the others plan stays as good as it was.
LEMMA OthersKeepPlans ==
  ASSUME TypeOK, NEW a \in Procs, Only(a), Grows,
         NEW b \in Procs \ {a}, Plan(b), Fresh(b)
  PROVE  Plan(b)' /\ Fresh(b)'
  <1>1. /\ pc'[b] = pc[b] /\ need'[b] = need[b] /\ todo'[b] = todo[b]
        /\ ref'[b] = ref[b] /\ named'[b] = named[b] /\ before'[b] = before[b]
    BY DEF Only
  <1>2. /\ Delivered \subseteq Delivered' /\ cur \subseteq cur'
        /\ Receipted \subseteq Receipted'
    BY DEF Grows, Receipted
  <1>3. Plan(b)'
    BY <1>1, <1>2 DEF Plan
  <1>4. Fresh(b)'
    BY <1>1, <1>2 DEF Fresh
  <1> QED BY <1>3, <1>4

----------------------------------------------------------------------------
(* A step and the process that takes it.                                   *)

\* An archive keeps its plan: it drops a message only once it is in cur/.
LEMMA ArchiveKeepsPlan ==
  ASSUME TypeOK, NEW a \in Procs, Plan(a), Fresh(a), ArchiveStep(a)
  PROVE  Plan(a)' /\ Fresh(a)'
  <1>1. ASSUME NEW r \in Refs, LookSource(a, r) PROVE Plan(a)' /\ Fresh(a)'
    BY <1>1 DEF TypeOK, Plan, Fresh, LookSource, To, mailbox, Delivered,
       Receipted, Archiving
  <1>2. CASE LookArchive(a)
    BY <1>2 DEF TypeOK, Plan, Fresh, LookArchive, AfterLook, To, mailbox, plan,
                Delivered, Receipted, Archiving
  <1>3. CASE Link(a)
    BY <1>3 DEF TypeOK, Plan, Fresh, Link, To, plan, Delivered, Receipted,
       Archiving
  <1>4. CASE Unlink(a)
    BY <1>4 DEF TypeOK, Plan, Fresh, Unlink, To, Delivered, Receipted,
       Archiving
  <1>5. CASE EndSection(a)
    BY <1>5 DEF TypeOK, Plan, Fresh, EndSection, To, mailbox, plan, Delivered,
                Receipted, Archiving
  <1> QED BY <1>1, <1>2, <1>3, <1>4, <1>5 DEF ArchiveStep

LEMMA QuitKeepsPlan ==
  ASSUME TypeOK, NEW a \in Procs, Plan(a), Fresh(a), Quit(a)
  PROVE  Plan(a)' /\ Fresh(a)'
  BY DEF TypeOK, Plan, Fresh, Quit, Ends, To, mailbox, Delivered, Receipted,
     Archiving

\* rt-ack plans a receipt only for what it read as not archived, and an
\* archive only for what was archived or has just got its receipt.
LEMMA RtAckKeepsPlan ==
  ASSUME TypeOK, Receipts, NEW a \in RtAcks, Plan(a), Fresh(a), RtAckStep(a)
  PROVE  Plan(a)' /\ Fresh(a)'
  <1>0. a \in Procs
    BY DEF Procs
  <1>1. ASSUME NEW refs \in SUBSET Refs, Start(a, refs) PROVE Plan(a)' /\ Fresh(a)'
    BY <1>0, <1>1 DEF TypeOK, Plan, Fresh, Start, To, mailbox, Delivered,
       Receipted, Archiving
  <1>2. ASSUME NEW r \in Refs, ReadRoute(a, r) PROVE Plan(a)' /\ Fresh(a)'
    BY <1>0, <1>2 DEF TypeOK, Receipts, Plan, Fresh, ReadRoute, Acknowledged,
       mailbox, Delivered, Receipted, Archiving
  <1>3. ASSUME NEW s \in Senders, Say(a, s) PROVE Plan(a)' /\ Fresh(a)'
    BY <1>0, <1>3 DEF TypeOK, Plan, Fresh, Say, To, mailbox, Delivered,
       Receipted, Archiving
  <1>4. CASE RouteRead(a) \/ BeginArchive(a) \/ Validate(a) \/ Orphan(a)
    BY <1>0, <1>4 DEF TypeOK, Plan, Fresh, RouteRead, BeginArchive, Validate,
       Orphan, To, mailbox, plan, Delivered, Receipted, Archiving
  <1>5. CASE Publish(a)
    <2>1. named[a] \subseteq Receipted'
      BY <1>5 DEF Publish, ReceiptOf, Receipted
    <2>2. Delivered' = Delivered /\ cur' = cur
      BY <1>5 DEF Publish, Delivered
    <2> QED BY <1>0, <1>5, <2>1, <2>2 DEF TypeOK, Plan, Fresh, Publish, To,
       Archiving
  <1>6. CASE PublishOrphan(a)
    <2>1. Delivered' = Delivered /\ cur' = cur
      BY <1>6 DEF PublishOrphan, Delivered
    <2> QED BY <1>0, <1>6, <2>1 DEF TypeOK, Plan, Fresh, PublishOrphan, Ends,
       To, Archiving
  <1> QED BY <1>1, <1>2, <1>3, <1>4, <1>5, <1>6 DEF RtAckStep

\* A native acknowledgement archives only after all its receipts.
LEMMA NativeKeepsPlan ==
  ASSUME TypeOK, Receipts, NEW n \in Natives, Plan(n), Fresh(n), NativeStep(n)
  PROVE  Plan(n)' /\ Fresh(n)'
  <1>0. n \in Procs /\ n \notin RtAcks
    BY MailAckAssumption DEF Procs
  <1>1. ASSUME NEW refs \in SUBSET Refs, NativeStart(n, refs)
        PROVE Plan(n)' /\ Fresh(n)'
    <2>1. /\ pc'[n] = "ready" /\ named'[n] = {} /\ before'[n] = cur
          /\ need'[n] = {r \in refs : r \notin cur /\ Naming(r) = {}}
          /\ todo'[n] = refs \cap new
          /\ refs \subseteq Delivered
          /\ UNCHANGED mailbox
      BY <1>0, <1>1 DEF TypeOK, Plan, NativeStart, To, Acknowledged
    <2>2. Delivered' = Delivered /\ Receipted' = Receipted /\ cur' = cur
      BY <2>1 DEF mailbox, Delivered, Receipted
    <2>3. todo'[n] \subseteq Receipted \cup need'[n]
      BY <2>1 DEF Receipts, Naming, Receipted
    <2> QED BY <1>0, <2>1, <2>2, <2>3 DEF Plan, Fresh, Archiving
  <1>2. ASSUME NEW s \in Senders, NativePublish(n, s) PROVE Plan(n)' /\ Fresh(n)'
    <2>1. /\ need[n] \cap From(s) \subseteq Receipted'
          /\ Receipted \subseteq Receipted'
      BY <1>2 DEF NativePublish, ReceiptOf, Receipted
    <2>2. Delivered' = Delivered /\ cur' = cur
      BY <1>2 DEF NativePublish, Delivered
    <2> QED BY <1>0, <1>2, <2>1, <2>2 DEF TypeOK, Plan, Fresh, NativePublish,
       Archiving
  <1>3. CASE NativeArchive(n)
    BY <1>0, <1>3 DEF TypeOK, Plan, Fresh, NativeArchive, To, mailbox, plan,
       Delivered, Receipted, Archiving
  <1> QED BY <1>1, <1>2, <1>3 DEF NativeStep

----------------------------------------------------------------------------
(* What a step does to the receipts.                                       *)

\* It publishes at most one, for refs it had planned.
PublishedBy(a) ==
  /\ pc[a] # "idle"
  /\ UNCHANGED <<new, cur, before>>
  /\ \E refs \in SUBSET (need[a] \cup named[a]) :
       receipts' = receipts \cup {ReceiptOf(a, refs)}

LEMMA StepPublishes ==
  ASSUME TypeOK, NEW a \in Procs, Plan(a), Step(a)
  PROVE  /\ UNCHANGED receipts \/ PublishedBy(a)
         /\ pc'[a] # "idle"
         /\ pc[a] # "idle" => before' = before
         /\ cur' \subseteq cur \cup Receipted
  <1>1. CASE ArchiveStep(a)
    BY <1>1 DEF TypeOK, Plan, ArchiveStep, LookSource, LookArchive, AfterLook,
       Link, Unlink, EndSection, To, mailbox, plan, Archiving
  <1>2. CASE Quit(a)
    BY <1>2 DEF TypeOK, Quit, Ends, To, mailbox
  <1>3. CASE a \in RtAcks /\ RtAckStep(a)
    <2>1. ASSUME NEW refs \in SUBSET Refs, Start(a, refs)
          PROVE  /\ UNCHANGED <<receipts, cur>> /\ pc'[a] # "idle" /\ pc[a] = "idle"
      BY <2>1 DEF TypeOK, Start, To, mailbox
    <2>2. ASSUME NEW r \in Refs, ReadRoute(a, r)
          PROVE  UNCHANGED <<receipts, cur, before>> /\ pc'[a] # "idle"
      BY <2>2 DEF TypeOK, ReadRoute, mailbox
    <2>3. ASSUME NEW s \in Senders, Say(a, s)
          PROVE  UNCHANGED <<receipts, cur, before>> /\ pc'[a] # "idle"
      BY <2>3 DEF TypeOK, Say, To, mailbox
    <2>4. CASE RouteRead(a) \/ BeginArchive(a) \/ Validate(a) \/ Orphan(a)
      BY <2>4 DEF TypeOK, RouteRead, BeginArchive, Validate, Orphan, To,
         mailbox
    <2>5. CASE Publish(a) \/ PublishOrphan(a)
      <3>1. PublishedBy(a) /\ pc'[a] # "idle"
        BY <2>5 DEF TypeOK, PublishedBy, Publish, PublishOrphan, Ends, To
      <3> QED BY <3>1 DEF PublishedBy
    <2> QED BY <1>3, <2>1, <2>2, <2>3, <2>4, <2>5 DEF RtAckStep
  <1>4. CASE a \in Natives /\ NativeStep(a)
    <2>1. ASSUME NEW refs \in SUBSET Refs, NativeStart(a, refs)
          PROVE  /\ UNCHANGED <<receipts, cur>> /\ pc'[a] # "idle" /\ pc[a] = "idle"
      BY <2>1 DEF TypeOK, NativeStart, To, mailbox
    <2>2. ASSUME NEW s \in Senders, NativePublish(a, s)
          PROVE  PublishedBy(a) /\ pc'[a] # "idle"
      <3>1. need[a] \cap From(s) \in SUBSET (need[a] \cup named[a])
        OBVIOUS
      <3> QED BY <2>2, <3>1 DEF TypeOK, PublishedBy, NativePublish
    <2>3. CASE NativeArchive(a)
      BY <2>3 DEF TypeOK, NativeArchive, To, mailbox
    <2> QED BY <1>4, <2>1, <2>2, <2>3 DEF NativeStep, PublishedBy
  <1> QED BY <1>1, <1>2, <1>3, <1>4 DEF Step

LEMMA StepKeepsReceipts ==
  ASSUME TypeOK, Receipts, RetryDoesNotRedeliver,
         NEW a \in Procs, Plan(a), Fresh(a), Only(a), Grows, Step(a)
  PROVE  Receipts' /\ RetryDoesNotRedeliver'
  <1>1. /\ UNCHANGED receipts \/ PublishedBy(a)
        /\ pc'[a] # "idle"
        /\ pc[a] # "idle" => before' = before
        /\ cur' \subseteq cur \cup Receipted
    BY StepPublishes
  <1>2. cur' \subseteq Receipted'
    BY <1>1 DEF Receipts, Receipted, Grows
  <1>3. \A x \in receipts : x.by \in Procs
    BY DEF TypeOK, Receipt
  <1>4. CASE UNCHANGED receipts
    <2>1. Receipted' = Receipted
      BY <1>4 DEF Receipted
    <2>2. \A x \in receipts : pc'[x.by] # "idle" /\ before'[x.by] = before[x.by]
      BY <1>1, <1>3 DEF Receipts, Only
    <2> QED BY <1>2, <1>4, <2>1, <2>2 DEF Receipts, RetryDoesNotRedeliver,
       Grows
  <1>5. CASE PublishedBy(a)
    <2>1. PICK refs \in SUBSET (need[a] \cup named[a]) :
            receipts' = receipts \cup {ReceiptOf(a, refs)}
      BY <1>5 DEF PublishedBy
    <2>2. UNCHANGED <<new, cur, before>>
      BY <1>5 DEF PublishedBy
    <2>3. refs \subseteq Delivered /\ refs \cap before[a] = {}
      BY <2>1 DEF Plan, Fresh
    <2>4. Receipted' = Receipted \cup refs
      <3>1. ReceiptOf(a, refs).refs = refs
        BY DEF ReceiptOf
      <3>2. ASSUME NEW r PROVE (r \in Receipted') <=> (r \in Receipted \cup refs)
        BY <2>1, <3>1 DEF Receipted
      <3> QED BY <3>2
    <2>5. \A x \in receipts' : pc'[x.by] # "idle"
      BY <1>1, <1>3, <2>1 DEF Receipts, Only, ReceiptOf
    <2>6. \A x \in receipts' : x.refs \cap before'[x.by] = {}
      BY <2>1, <2>2, <2>3 DEF RetryDoesNotRedeliver, ReceiptOf
    <2> QED BY <1>2, <2>2, <2>3, <2>4, <2>5, <2>6
            DEF Receipts, RetryDoesNotRedeliver, Delivered
  <1> QED BY <1>1, <1>4, <1>5

----------------------------------------------------------------------------
(* The native acknowledgements.                                            *)

\* A receipt published by another process names nothing a native one needs:
\* it is not local, or nobody is writing.
LEMMA ForeignReceipt ==
  ASSUME TypeOK, NEW a \in Procs, NEW n \in Natives, n # a,
         Plan(n), Native(n), Step(a)
  PROVE  need[n] \cap Receipted' = {}
  <1>0. n \in Procs
    BY DEF Procs
  <1>1. CASE receipts' = receipts
    BY <1>1 DEF Native, Receipted
  <1>2. CASE need[n] = {}
    BY <1>2
  <1>3. ASSUME receipts' # receipts, need[n] # {}
        PROVE  need[n] \cap Receipted' = {}
    <2>1. Writing(n)
      BY <1>0, <1>3 DEF Plan, Writing
    <2>2. ~NoWriter
      BY <2>1 DEF NoWriter
    <2>3. \A s \in Senders : a \in Natives => ~NativePublish(a, s)
      BY <1>0, <2>1 DEF Native, NativePublish, Writing
    <2>4. ~ArchiveStep(a) /\ ~Quit(a)
      BY <1>3 DEF ArchiveStep, LookSource, LookArchive, Link, Unlink,
         EndSection, Quit, mailbox
    <2>5. a \in RtAcks /\ (Publish(a) \/ PublishOrphan(a))
      BY <1>3, <2>3, <2>4 DEF Step, RtAckStep, Start, ReadRoute, Say,
         RouteRead, BeginArchive, Validate, Orphan, NativeStep, NativeStart,
         NativeArchive, mailbox
    <2>6. /\ receipts' = receipts \cup {ReceiptOf(a, named[a])}
          /\ named[a] \cap UNION {From(s) : s \in Local} = {}
      BY <2>2, <2>5 DEF Publish, PublishOrphan, MayPublish
    <2>7. need[n] \subseteq UNION {From(s) : s \in Local}
      BY <1>0 DEF TypeOK, Native, From
    <2>8. ReceiptOf(a, named[a]).refs = named[a]
      BY DEF ReceiptOf
    <2>9. ASSUME NEW r \in need[n] PROVE r \notin Receipted'
      BY <2>6, <2>7, <2>8 DEF Native, Receipted
    <2> QED BY <2>9
  <1> QED BY <1>1, <1>2, <1>3

\* Where a process of either kind enters a section, and what it needs then.
LEMMA Entering ==
  ASSUME TypeOK, NEW a \in Procs, Step(a)
  PROVE  /\ (Writing(a)' /\ ~Writing(a)) => NobodyInside
         /\ (InSection(a)' /\ ~InSection(a)) => NoWriter
  <1>1. CASE ArchiveStep(a)
    BY <1>1 DEF TypeOK, ArchiveStep, LookSource, LookArchive, AfterLook, Link,
       Unlink, EndSection, To, plan, Writing, InSection, Archiving
  <1>2. CASE Quit(a)
    BY <1>2 DEF TypeOK, Quit, Ends, To, Writing, InSection, Archiving
  <1>3. CASE a \in RtAcks /\ RtAckStep(a)
    <2>1. ~Writing(a)'
      BY <1>3, MailAckAssumption DEF Writing
    <2>2. ASSUME NEW refs \in SUBSET Refs, Start(a, refs) PROVE NoWriter
      BY <2>2 DEF Start
    <2>3. ASSUME NEW r \in Refs, ReadRoute(a, r) PROVE InSection(a)' => InSection(a)
      BY <2>3 DEF ReadRoute, InSection
    <2>4. ASSUME NEW s \in Senders, Say(a, s) PROVE ~InSection(a)'
      BY <2>4 DEF TypeOK, Say, To, InSection, Archiving
    <2>5. ASSUME RouteRead(a) \/ Validate(a) \/ Orphan(a) \/ Publish(a) \/ PublishOrphan(a)
          PROVE  ~InSection(a)'
      BY <2>5 DEF TypeOK, RouteRead, Validate, Orphan, Publish, PublishOrphan,
         Ends, To, InSection, Archiving
    <2>6. ASSUME BeginArchive(a) PROVE NoWriter
      BY <2>6 DEF BeginArchive
    <2> QED BY <1>3, <2>1, <2>2, <2>3, <2>4, <2>5, <2>6 DEF RtAckStep
  <1>4. CASE a \in Natives /\ NativeStep(a)
    <2>1. ~InSection(a)'
      BY <1>4, MailAckAssumption DEF InSection
    <2>2. ASSUME NEW refs \in SUBSET Refs, NativeStart(a, refs) PROVE NobodyInside
      BY <2>2 DEF NativeStart
    <2>3. ASSUME NEW s \in Senders, NativePublish(a, s) PROVE Writing(a)
      BY <1>4, <2>3 DEF NativePublish, Writing
    <2>4. CASE NativeArchive(a)
      BY <1>4, <2>1, <2>4 DEF NativeArchive, Writing
    <2> QED BY <1>4, <2>1, <2>2, <2>3, <2>4 DEF NativeStep
  <1> QED BY <1>1, <1>2, <1>3, <1>4 DEF Step

\* What a native acknowledgement still needs has no receipt after its own step.
LEMMA OwnReceipts ==
  ASSUME TypeOK, NEW n \in Natives, Plan(n), Native(n), Step(n)
  PROVE  /\ \A r \in need'[n] : SenderOf[r] \in Local
         /\ need'[n] \cap Receipted' = {}
  <1>0. n \in Procs /\ n \notin RtAcks
    BY MailAckAssumption DEF Procs
  <1>1. CASE ArchiveStep(n)
    BY <1>1 DEF Native, Receipted, ArchiveStep, LookSource, LookArchive, Link,
       Unlink, EndSection, mailbox, plan
  <1>2. CASE Quit(n)
    BY <1>0, <1>2 DEF TypeOK, Quit, Ends
  <1>3. ASSUME NEW refs \in SUBSET Refs, NativeStart(n, refs)
        PROVE  /\ \A r \in need'[n] : SenderOf[r] \in Local
               /\ need'[n] \cap Receipted' = {}
    BY <1>0, <1>3 DEF TypeOK, NativeStart, Naming, Receipted, mailbox
  <1>4. ASSUME NEW s \in Senders, NativePublish(n, s)
        PROVE  /\ \A r \in need'[n] : SenderOf[r] \in Local
               /\ need'[n] \cap Receipted' = {}
    <2>1. need'[n] = need[n] \ From(s)
      BY <1>0, <1>4 DEF TypeOK, NativePublish
    <2>2. receipts' = receipts \cup {ReceiptOf(n, need[n] \cap From(s))}
      BY <1>4 DEF NativePublish
    <2>3. ReceiptOf(n, need[n] \cap From(s)).refs = need[n] \cap From(s)
      BY DEF ReceiptOf
    <2>4. ASSUME NEW r \in need'[n] PROVE r \notin Receipted'
      BY <2>1, <2>2, <2>3 DEF Native, Receipted
    <2> QED BY <2>1, <2>4 DEF Native
  <1>5. CASE NativeArchive(n)
    BY <1>5 DEF Native, Receipted, NativeArchive, mailbox, plan
  <1> QED BY <1>0, <1>1, <1>2, <1>3, <1>4, <1>5 DEF Step, NativeStep

LEMMA StepKeepsNative ==
  ASSUME TypeOK, NEW a \in Procs, NEW n \in Natives, Plan(n), Native(n),
         Only(a), Step(a)
  PROVE  Native(n)'
  <1>0. n \in Procs
    BY DEF Procs
  <1>1. CASE a = n
    <2>1. ASSUME Writing(n)', NEW b \in Procs \ {n} PROVE ~Writing(b)' /\ ~InSection(b)'
      <3>1. pc'[b] = pc[b]
        BY <1>1 DEF Only
      <3>2. Writing(n) \/ NobodyInside
        BY <1>0, <1>1, <2>1, Entering
      <3>3. ~Writing(b) /\ ~InSection(b)
        BY <3>2 DEF Native, NobodyInside, NoWriter, Writing, InSection
      <3> QED BY <3>1, <3>3 DEF Writing, InSection
    <2> QED BY <1>1, <2>1, OwnReceipts DEF Native
  <1>2. CASE a # n
    <2>1. pc'[n] = pc[n] /\ need'[n] = need[n]
      BY <1>0, <1>2 DEF Only
    <2>2. need'[n] \cap Receipted' = {}
      BY <1>2, <2>1, ForeignReceipt
    <2>3. ASSUME Writing(n)', NEW b \in Procs \ {n} PROVE ~Writing(b)' /\ ~InSection(b)'
      <3>1. Writing(n) /\ ~NoWriter
        BY <2>1, <2>3 DEF Writing, NoWriter
      <3>2. ~Writing(b) /\ ~InSection(b)
        BY <3>1 DEF Native
      <3>3. CASE b # a
        BY <3>2, <3>3 DEF Only, Writing, InSection
      <3>4. CASE b = a
        BY <3>1, <3>2, <3>4, Entering DEF NobodyInside
      <3> QED BY <3>3, <3>4
    <2> QED BY <2>1, <2>2, <2>3 DEF Native
  <1> QED BY <1>1, <1>2

----------------------------------------------------------------------------
(* The invariant.                                                          *)

LEMMA AckInit == Init => AckInv
  <1> SUFFICES ASSUME Init PROVE AckInv
    OBVIOUS
  <1>1. TypeOK
    BY TypeInit
  <1>2. Receipts /\ RetryDoesNotRedeliver
    BY DEF Init, Receipts, RetryDoesNotRedeliver, Receipted, Delivered
  <1>3. ASSUME NEW a \in Procs PROVE Plan(a) /\ Fresh(a)
    BY DEF Init, Plan, Fresh, Archiving
  <1>4. ASSUME NEW n \in Natives PROVE Native(n)
    BY DEF Init, Native, Writing, Procs
  <1> QED BY <1>1, <1>2, <1>3, <1>4 DEF AckInv

LEMMA DeliverKeepsInv ==
  ASSUME AckInv, NEW r \in Refs, Deliver(r)
  PROVE  AckInv'
  <1>1. TypeOK'
    BY TypeStep DEF AckInv, Next
  <1>2. Delivered \subseteq Delivered' /\ Receipted' = Receipted
    BY DEF Deliver, Delivered, Receipted
  <1>3. Receipts' /\ RetryDoesNotRedeliver'
    BY <1>2 DEF AckInv, Deliver, Receipts, RetryDoesNotRedeliver
  <1>4. ASSUME NEW a \in Procs PROVE Plan(a)' /\ Fresh(a)'
    BY <1>2 DEF AckInv, Deliver, plan, Plan, Fresh
  <1>5. ASSUME NEW n \in Natives PROVE Native(n)'
    BY <1>2 DEF AckInv, Deliver, plan, Native, Writing, InSection
  <1> QED BY <1>1, <1>3, <1>4, <1>5 DEF AckInv

LEMMA StepKeepsInv ==
  ASSUME AckInv, NEW a \in Procs, Step(a)
  PROVE  AckInv'
  <1>0. /\ TypeOK /\ Receipts /\ RetryDoesNotRedeliver
        /\ \A b \in Procs : Plan(b) /\ Fresh(b)
        /\ \A n \in Natives : n \in Procs /\ Native(n)
    BY DEF AckInv, Procs
  <1>1. Only(a) /\ Grows
    BY <1>0, StepIsLocal, StepGrows
  <1>2. TypeOK'
    BY <1>0, TypeArchive, TypeRtAck, TypeNative DEF Step
  <1>3. Receipts' /\ RetryDoesNotRedeliver'
    BY <1>0, <1>1, StepKeepsReceipts
  <1>4. Plan(a)' /\ Fresh(a)'
    BY <1>0, ArchiveKeepsPlan, QuitKeepsPlan, RtAckKeepsPlan, NativeKeepsPlan
       DEF Step
  <1>5. ASSUME NEW b \in Procs PROVE Plan(b)' /\ Fresh(b)'
    BY <1>0, <1>1, <1>4, OthersKeepPlans
  <1>6. ASSUME NEW n \in Natives PROVE Native(n)'
    BY <1>0, <1>1, StepKeepsNative
  <1> QED BY <1>2, <1>3, <1>5, <1>6 DEF AckInv

LEMMA NextIsStep ==
  ASSUME Next
  PROVE  (\E r \in Refs : Deliver(r)) \/ (\E a \in Procs : Step(a))
  BY DEF Next, Step, Procs

LEMMA AckNext == AckInv /\ [Next]_vars => AckInv'
  <1> SUFFICES ASSUME AckInv, [Next]_vars PROVE AckInv'
    OBVIOUS
  <1>1. CASE Next
    BY <1>1, NextIsStep, DeliverKeepsInv, StepKeepsInv
  <1>2. CASE UNCHANGED vars
    BY <1>2 DEF vars, AckInv, TypeOK, Receipts, Plan, Fresh, Native, Writing,
       InSection, RetryDoesNotRedeliver, Delivered, Receipted
  <1> QED BY <1>1, <1>2

LEMMA AckInvariant == Spec => []AckInv
  BY AckInit, AckNext, PTL DEF Spec

\* A retry publishes no receipt for a message that was archived when it began.
THEOREM RetriesAreSafe == Spec => []RetryDoesNotRedeliver
  <1>1. AckInv => RetryDoesNotRedeliver
    BY DEF AckInv
  <1> QED BY <1>1, AckInvariant, PTL

----------------------------------------------------------------------------
(* Native receipts are first.                                              *)

LEMMA StepNativeFirst == AckInv /\ [Next]_vars => NativeReceiptIsFirst
  <1> SUFFICES ASSUME AckInv, [Next]_vars,
                      NEW x \in receipts' \ receipts, x.by \in Natives
               PROVE  x.refs \cap Receipted = {}
    BY DEF NativeReceiptIsFirst
  <1>1. CASE UNCHANGED vars
    BY <1>1 DEF vars
  <1>2. ASSUME NEW r \in Refs, Deliver(r) PROVE FALSE
    BY <1>2 DEF Deliver
  <1>3. ASSUME NEW a \in Procs, Step(a) PROVE x.refs \cap Receipted = {}
    <2>1. TypeOK /\ Plan(a)
      BY DEF AckInv
    <2>2. PublishedBy(a)
      BY <1>3, <2>1, StepPublishes
    <2>3. x.by = a
      BY <2>2 DEF PublishedBy, ReceiptOf
    <2>4. a \in Natives /\ a \notin RtAcks /\ Native(a)
      BY <2>3, MailAckAssumption DEF AckInv
    <2>5. PICK s \in Senders : NativePublish(a, s)
      BY <1>3, <2>4 DEF Step, ArchiveStep, LookSource, LookArchive, Link,
         Unlink, EndSection, Quit, NativeStep, NativeStart, NativeArchive,
         mailbox
    <2>6. x = ReceiptOf(a, need[a] \cap From(s))
      BY <2>5 DEF NativePublish
    <2>7. x.refs \subseteq need[a]
      BY <2>6 DEF ReceiptOf
    <2> QED BY <2>4, <2>7 DEF Native
  <1> QED BY <1>1, <1>2, <1>3, NextIsStep

\* However native acknowledgements and rt-acks interleave, fail and retry, a
\* native receipt names only messages that had none.
THEOREM NativeReceiptsFirst == Spec => NativeReceiptsOnce
  BY AckInvariant, StepNativeFirst, PTL DEF Spec, NativeReceiptsOnce

----------------------------------------------------------------------------
(* The acknowledgement implements the mailbox's promise.                   *)

StageNow == [r \in Refs |-> Stage(r)]

LEMMA StageSame ==
  ASSUME UNCHANGED mailbox
  PROVE  StageNow' = StageNow
  BY DEF mailbox, StageNow, Stage, Receipted

LEMMA PromiseInit == Init => Promise!Init
  BY DEF Init, Promise!Init, Stage

LEMMA PromiseDeliver ==
  ASSUME AckInv, NEW r \in Refs, Deliver(r)
  PROVE  Promise!Deliver(r)
  <1>1. r \notin Receipted /\ Receipted' = Receipted
    BY DEF AckInv, Receipts, Deliver, Receipted
  <1>2. Stage(r) = "unsent"
    BY DEF Deliver, Delivered, Stage
  <1>3. StageNow' = [StageNow EXCEPT ![r] = "delivered"]
    BY <1>1 DEF Deliver, Delivered, StageNow, Stage
  <1> QED BY <1>2, <1>3 DEF Promise!Deliver, StageNow

\* A receipt moves the delivered messages it names, and no other.
LEMMA PromiseReceipt ==
  ASSUME AckInv, NEW a \in Procs, NEW refs \in SUBSET Delivered,
         receipts' = receipts \cup {ReceiptOf(a, refs)}, UNCHANGED <<new, cur>>
  PROVE  refs \in SUBSET Refs /\ Promise!Acknowledge(refs)
  <1>1. refs \in SUBSET Refs
    BY DEF AckInv, TypeOK, Delivered
  <1>2. ReceiptOf(a, refs).refs = refs
    BY DEF ReceiptOf
  <1>3. \A r : r \in Receipted' <=> r \in Receipted \cup refs
    BY <1>2 DEF Receipted
  <1>4. cur \subseteq Receipted
    BY DEF AckInv, Receipts
  <1>5. \A r \in refs : Stage(r) # "unsent"
    BY DEF Stage, Delivered
  <1>6. ASSUME NEW r \in Refs
        PROVE  Stage(r)' = IF r \in refs /\ Stage(r) = "delivered"
                           THEN "receipted" ELSE Stage(r)
    BY <1>3, <1>4 DEF Stage
  <1> QED BY <1>1, <1>5, <1>6 DEF Promise!Acknowledge

LEMMA PromiseArchive ==
  ASSUME AckInv, NEW a \in Procs, Unlink(a)
  PROVE  ref[a] \in Refs /\ Promise!Archive(ref[a])
  <1>1. /\ ref[a] \in new /\ ref[a] \in cur /\ new' = new \ {ref[a]}
        /\ UNCHANGED <<cur, receipts>>
    BY DEF AckInv, Plan, Unlink
  <1>2. ref[a] \in Refs /\ ref[a] \in Receipted
    BY <1>1 DEF AckInv, TypeOK, Receipts
  <1>3. Stage(ref[a]) = "receipted"
    BY <1>1, <1>2 DEF Stage
  <1>4. Receipted' = Receipted
    BY <1>1 DEF Receipted
  <1>5. ASSUME NEW r \in Refs
        PROVE  Stage(r)' = IF r = ref[a] THEN "archived" ELSE Stage(r)
    BY <1>1, <1>4 DEF Stage
  <1> QED BY <1>2, <1>3, <1>5 DEF Promise!Archive

\* The link leaves the name in new/ alone.
LEMMA PromiseLink ==
  ASSUME NEW a \in Procs, Link(a)
  PROVE  StageNow' = StageNow
  <1>1. ref[a] \in new /\ UNCHANGED <<new, receipts>> /\ cur' = cur \cup {ref[a]}
    BY DEF Link
  <1>2. Receipted' = Receipted
    BY <1>1 DEF Receipted
  <1>3. ASSUME NEW r \in Refs PROVE Stage(r)' = Stage(r)
    BY <1>1, <1>2 DEF Stage
  <1> QED BY <1>3 DEF StageNow

LEMMA PromiseStep == AckInv /\ [Next]_vars => [Promise!Next]_StageNow
  <1> SUFFICES ASSUME AckInv, [Next]_vars PROVE [Promise!Next]_StageNow
    OBVIOUS
  <1>1. CASE UNCHANGED vars
    BY <1>1, StageSame DEF vars, mailbox
  <1>2. ASSUME NEW r \in Refs, Deliver(r) PROVE Promise!Next
    BY <1>2, PromiseDeliver DEF Promise!Next
  <1>3. ASSUME NEW a \in Procs, Step(a) PROVE [Promise!Next]_StageNow
    <2>1. CASE Unlink(a)
      BY <2>1, PromiseArchive DEF Promise!Next
    <2>2. CASE Link(a)
      BY <2>2, PromiseLink
    <2>3. CASE ~Unlink(a) /\ ~Link(a) /\ receipts' = receipts
      <3>1. UNCHANGED mailbox
        BY <1>3, <2>3 DEF Step, ArchiveStep, LookSource, LookArchive,
           EndSection, Quit, RtAckStep, Start, ReadRoute, Say, RouteRead,
           BeginArchive, Validate, Orphan, Publish, PublishOrphan, NativeStep,
           NativeStart, NativePublish, NativeArchive, mailbox
      <3> QED BY <3>1, StageSame
    <2>4. CASE receipts' # receipts
      <3>1. TypeOK /\ Plan(a)
        BY DEF AckInv
      <3>2. PublishedBy(a)
        BY <1>3, <2>4, <3>1, StepPublishes
      <3>3. PICK refs \in SUBSET (need[a] \cup named[a]) :
              receipts' = receipts \cup {ReceiptOf(a, refs)}
        BY <3>2 DEF PublishedBy
      <3>4. refs \in SUBSET Delivered /\ UNCHANGED <<new, cur>>
        BY <3>1, <3>2 DEF Plan, PublishedBy
      <3>5. refs \in SUBSET Refs /\ Promise!Acknowledge(refs)
        BY <3>3, <3>4, PromiseReceipt
      <3> QED BY <3>5 DEF Promise!Next
    <2> QED BY <2>1, <2>2, <2>3, <2>4
  <1> QED BY <1>1, <1>2, <1>3, NextIsStep

\* No delivered message is lost, and none leaves new/ without a receipt.
THEOREM KeepsPromise == Spec => ImplementsAckedDelivery
  <1>1. AckInv /\ [Next]_vars => [Promise!Next]_StageNow
    BY PromiseStep
  <1> QED BY <1>1, PromiseInit, AckInvariant, PTL
          DEF Spec, ImplementsAckedDelivery, Promise!Spec, StageNow
----------------------------------------------------------------------------
(* The alarms of a seat that waits for acknowledgements (ReplyAlarm).      *)

\* A drain unlinks only what has its second name.
Moving == \A d \in Drains : drain[d].pc = "unlink" => drain[d].ref \in quietCur

\* What a watcher has seen of the receipts that were there when it began, and
\* what it will still come across.
Reading ==
  \A w \in Watchers :
    /\ watch[w].pc # "reporting" => watch[w].fired = {}
    /\ watch[w].seen \subseteq quietNew \cup quietCur
    /\ watch[w].pc = "reading" =>
         answered[w] \subseteq watch[w].seen \cup (watch[w].todo \cap quietNew)
                               \cup quietCur
    /\ watch[w].pc = "reconciling" => answered[w] \subseteq watch[w].seen

\* A message is expected once, and only what was expected is alarmed.
Asking ==
  /\ \A m \in Asked : say[m].pc # "ended" => m \notin recorded
  /\ expects \cup raised \cup lost \subseteq recorded
  /\ \A w \in Watchers : watch[w].fired \subseteq recorded

\* AlarmOnce and AlarmKept, watcher by watcher.
Apart ==
  /\ \A w, v \in Watchers : w # v => watch[w].fired \cap watch[v].fired = {}
  /\ \A w \in Watchers : watch[w].fired \cap (expects \cup raised \cup lost) = {}
  /\ expects \cap (raised \cup lost) = {} /\ raised \cap lost = {}

Accounted ==
  \A m \in recorded :
    \/ m \in expects \cup quietNew \cup quietCur \cup raised \cup lost
    \/ \E w \in Watchers : m \in watch[w].fired

AlarmInv == /\ Alarm!TypeOK /\ Moving /\ Reading /\ Asking /\ Alarm!AlarmTrue /\ Apart
            /\ Accounted

AlarmWatches ==
  [pc : {"none", "probing", "looking", "reading", "reconciling",
         "reporting", "polling"},
   gen : 0..MaxGen, todo : SUBSET Asked, seen : SUBSET Asked,
   fired : SUBSET Asked]
AlarmDrains == [pc : {"none", "next", "link", "unlink"},
                todo : SUBSET Asked, ref : Asked \cup {None}]

LEMMA BlankAlarm == Alarm!ReplyAlarmAssumption =>
  Alarm!NoWatch \in AlarmWatches /\ Alarm!NoDrain \in AlarmDrains
BY DEF Alarm!ReplyAlarmAssumption, Alarm!NoWatch, Alarm!NoDrain, AlarmWatches,
   AlarmDrains

LEMMA AlarmInit == Alarm!ReplyAlarmAssumption /\ Alarm!Init => AlarmInv
<1> SUFFICES ASSUME Alarm!ReplyAlarmAssumption, Alarm!Init PROVE AlarmInv
  OBVIOUS
<1>1. Alarm!TypeOK
  BY BlankAlarm DEF Alarm!Init, Alarm!TypeOK, Alarm!ReplyAlarmAssumption,
     AlarmWatches, AlarmDrains
<1>2. Moving /\ Reading /\ Asking /\ Alarm!AlarmTrue /\ Apart /\ Accounted
  BY DEF Alarm!Init, Alarm!NoWatch, Alarm!NoDrain, Moving, Reading, Asking,
     Alarm!AlarmTrue, Apart, Accounted
<1> QED
  BY <1>1, <1>2 DEF AlarmInv

\* Steps that leave the watchers and the drains alone.
LEMMA AskingInv ==
  ASSUME Alarm!ReplyAlarmAssumption, AlarmInv, NEW m \in Asked,
         Alarm!Send(m) \/ Alarm!Record(m) \/ Alarm!NotRecorded(m) \/ Alarm!Receive(m)
           \/ Alarm!Expire(m)
  PROVE  AlarmInv'
<1> USE DEF AlarmInv, Alarm!ReplyAlarmAssumption
<1>2. CASE Alarm!Send(m) \/ Alarm!NotRecorded(m)
  <2>1. UNCHANGED <<slot, Alarm!mail, Alarm!alarms, watch, drain, faults, Alarm!history, gen>>
    BY <1>2 DEF Alarm!Send, Alarm!NotRecorded
  <2>2. say' \in [Asked -> [pc : {"none", "sent", "ended"}, gen : 0..MaxGen]]
        /\ \A n \in Asked : say'[n].pc # "ended" => say[n].pc # "ended"
    <3>1. CASE Alarm!Send(m)
      BY <3>1 DEF Alarm!Send, Alarm!TypeOK
    <3>2. CASE Alarm!NotRecorded(m)
      BY <3>2 DEF Alarm!NotRecorded, Alarm!TypeOK
    <3> QED
      BY <1>2, <3>1, <3>2
  <2> QED
    BY <2>1, <2>2 DEF Alarm!mail, Alarm!alarms, Alarm!history, Alarm!TypeOK,
       Moving, Reading, Asking, Alarm!AlarmTrue, Apart, Accounted
<1>3. CASE Alarm!Record(m)
  <2>1. say' \in [Asked -> [pc : {"none", "sent", "ended"}, gen : 0..MaxGen]]
        /\ say'[m].pc = "ended"
        /\ \A n \in Asked \ {m} : say'[n] = say[n]
    BY <1>3 DEF Alarm!Record, Alarm!TypeOK
  <2>2. m \notin recorded /\ expects' = expects \cup {m}
        /\ recorded' = recorded \cup {m}
    BY <1>3 DEF Alarm!Record, Asking
  <2>3. UNCHANGED <<gen, slot, quietNew, quietCur, due, watch, drain, faults,
                    raised, lost, answered>>
    BY <1>3 DEF Alarm!Record, Alarm!mail
  <2> QED
    BY <2>1, <2>2, <2>3 DEF Alarm!TypeOK, Moving, Reading, Asking,
       Alarm!AlarmTrue, Apart, Accounted
<1>4. CASE Alarm!Receive(m)
  BY <1>4 DEF Alarm!Receive, Alarm!alarms, Alarm!history, Alarm!TypeOK,
     Moving, Reading, Asking, Alarm!AlarmTrue, Apart, Accounted
<1>5. CASE Alarm!Expire(m)
  BY <1>5 DEF Alarm!Expire, Alarm!mail, Alarm!history, Alarm!TypeOK, Moving,
     Reading, Asking, Alarm!AlarmTrue, Apart, Accounted
<1> QED
  BY <1>2, <1>3, <1>4, <1>5

\* A watcher's step that takes no alarm and looks at nothing new.
LEMMA QuietStep ==
  ASSUME Alarm!ReplyAlarmAssumption, AlarmInv, NEW w \in Watchers, NEW r \in AlarmWatches,
         watch' = [watch EXCEPT ![w] = r],
         r.fired = {}, watch[w].fired = {},
         r.seen \subseteq quietNew \cup quietCur,
         answered' \in [Watchers -> SUBSET Asked],
         \A v \in Watchers \ {w} : answered'[v] = answered[v],
         r.pc = "reading" =>
           answered'[w] \subseteq r.seen \cup (r.todo \cap quietNew) \cup quietCur,
         r.pc = "reconciling" => answered'[w] \subseteq r.seen,
         slot' \in Watchers \cup {None}, faults' \in 0..MaxFaults,
         UNCHANGED <<gen, say, Alarm!mail, Alarm!alarms, drain, recorded, raised, lost>>
  PROVE  AlarmInv'
<1> USE DEF AlarmInv, Alarm!ReplyAlarmAssumption
<1>1. /\ watch' \in [Watchers -> AlarmWatches] /\ watch'[w] = r
      /\ \A v \in Watchers \ {w} : watch'[v] = watch[v]
  BY DEF Alarm!TypeOK, AlarmWatches
<1>2. Alarm!TypeOK'
  BY <1>1 DEF Alarm!TypeOK, AlarmWatches, Alarm!mail, Alarm!alarms
<1>3. Moving' /\ Reading'
  BY <1>1 DEF Moving, Reading, Alarm!mail
<1>4. Asking' /\ Alarm!AlarmTrue' /\ Apart' /\ Accounted'
  BY <1>1 DEF Asking, Alarm!AlarmTrue, Apart, Accounted, Alarm!mail,
     Alarm!alarms
<1> QED
  BY <1>2, <1>3, <1>4

LEMMA ReconcileInv ==
  ASSUME Alarm!ReplyAlarmAssumption, AlarmInv, NEW w \in Watchers, Alarm!Reconcile(w)
  PROVE  AlarmInv'
<1> USE DEF AlarmInv, Alarm!ReplyAlarmAssumption
<1> DEFINE r == [watch[w] EXCEPT
                   !.pc = IF Alarm!Overdue(w) = {} THEN "polling" ELSE "reporting",
                   !.todo = {}, !.seen = {}, !.fired = Alarm!Overdue(w)]
<1>1. watch[w] \in AlarmWatches /\ watch[w].pc = "reconciling" /\ watch[w].fired = {}
  BY DEF Alarm!Reconcile, Alarm!TypeOK, AlarmWatches, Reading
<1>2. /\ r \in AlarmWatches /\ r.seen = {} /\ r.fired = due \ watch[w].seen
      /\ r.pc # "reading" /\ r.pc # "reconciling"
      /\ r.pc # "reporting" => r.fired = {}
  BY <1>1 DEF Alarm!Overdue, AlarmWatches, Alarm!TypeOK
<1>3. watch' = [watch EXCEPT ![w] = r]
  BY DEF Alarm!Reconcile
<1> HIDE DEF r
<1>4. /\ watch' \in [Watchers -> AlarmWatches] /\ watch'[w] = r
      /\ \A v \in Watchers \ {w} : watch'[v] = watch[v]
  BY <1>2, <1>3 DEF Alarm!TypeOK, AlarmWatches
<1>5. /\ expects' = expects \ (watch[w].seen \cup due) /\ due' = {}
      /\ UNCHANGED <<gen, slot, say, quietNew, quietCur, drain, faults,
                     recorded, raised, lost>>
  BY DEF Alarm!Reconcile, Alarm!mail
<1>6. /\ answered' \in [Watchers -> SUBSET Asked]
      /\ answered'[w] \subseteq answered[w]
      /\ \A v \in Watchers \ {w} : answered'[v] = answered[v]
  BY DEF Alarm!Reconcile, Alarm!TypeOK
<1>7. Alarm!TypeOK'
  BY <1>4, <1>5, <1>6 DEF Alarm!TypeOK, AlarmWatches
<1>8. Moving' /\ Reading'
  BY <1>2, <1>4, <1>5, <1>6 DEF Moving, Reading
<1>9. Alarm!AlarmTrue'
  BY <1>1, <1>2, <1>4, <1>6 DEF Alarm!AlarmTrue, Reading
<1>10. Asking' /\ Apart'
  <2>1. /\ watch'[w].fired \subseteq due /\ due \subseteq expects
        /\ watch'[w].fired \cap expects' = {}
    BY <1>2, <1>4, <1>5 DEF Alarm!TypeOK
  <2>2. Asking'
    BY <1>4, <1>5, <2>1 DEF Asking
  <2>3. \A u, v \in Watchers : u # v => watch'[u].fired \cap watch'[v].fired = {}
    BY <1>4, <2>1 DEF Apart
  <2>4. \A v \in Watchers :
          watch'[v].fired \cap (expects' \cup raised' \cup lost') = {}
    BY <1>4, <1>5, <2>1 DEF Apart
  <2>5. expects' \cap (raised' \cup lost') = {} /\ raised' \cap lost' = {}
    BY <1>5 DEF Apart
  <2> QED
    BY <2>2, <2>3, <2>4, <2>5 DEF Apart
<1>11. Accounted'
  <2> SUFFICES ASSUME NEW m \in recorded
               PROVE \/ m \in expects' \cup quietNew \cup quietCur \cup raised
                                \cup lost
                     \/ \E v \in Watchers : m \in watch'[v].fired
    BY <1>5 DEF Accounted
  <2>1. CASE m \in expects /\ m \in watch[w].seen
    BY <2>1 DEF Reading
  <2>2. CASE m \in expects /\ m \in due /\ m \notin watch[w].seen
    BY <2>2, <1>2, <1>4
  <2>3. CASE m \in expects /\ m \notin due /\ m \notin watch[w].seen
    BY <2>3, <1>5
  <2>4. CASE \E v \in Watchers : m \in watch[v].fired
    BY <2>4, <1>1, <1>4
  <2> QED
    BY <2>1, <2>2, <2>3, <2>4 DEF Accounted
<1> QED
  BY <1>7, <1>8, <1>9, <1>10, <1>11

\* A watcher is gone: what it had taken is reported, or lost with it.
LEMMA GoneInv ==
  ASSUME Alarm!ReplyAlarmAssumption, AlarmInv, NEW w \in Watchers,
         watch' = [watch EXCEPT ![w] = Alarm!NoWatch],
         answered' = [answered EXCEPT ![w] = {}],
         \/ raised' = raised \cup watch[w].fired /\ lost' = lost
         \/ raised' = raised /\ lost' = lost \cup watch[w].fired,
         slot' \in Watchers \cup {None}, faults' \in 0..MaxFaults,
         UNCHANGED <<gen, say, Alarm!mail, Alarm!alarms, drain, recorded>>
  PROVE  AlarmInv'
<1> USE DEF AlarmInv, Alarm!ReplyAlarmAssumption
<1>1. /\ watch' \in [Watchers -> AlarmWatches] /\ watch'[w] = Alarm!NoWatch
      /\ \A v \in Watchers \ {w} : watch'[v] = watch[v]
  BY BlankAlarm DEF Alarm!TypeOK, AlarmWatches
<1>2. watch[w].fired \in SUBSET Asked
  BY DEF Alarm!TypeOK
<1>3. Alarm!TypeOK'
  BY <1>1, <1>2 DEF Alarm!TypeOK, AlarmWatches, Alarm!mail, Alarm!alarms
<1>4. Moving' /\ Reading' /\ Alarm!AlarmTrue'
  BY <1>1 DEF Moving, Reading, Alarm!AlarmTrue, Alarm!TypeOK, Alarm!mail,
     Alarm!NoWatch
<1>5. Asking' /\ Apart' /\ Accounted'
  BY <1>1 DEF Asking, Apart, Accounted, Alarm!mail, Alarm!alarms, Alarm!NoWatch
<1> QED
  BY <1>3, <1>4, <1>5

LEMMA WatcherInv ==
  ASSUME Alarm!ReplyAlarmAssumption, AlarmInv, NEW w \in Watchers, Alarm!Watcher(w)
  PROVE  AlarmInv'
<1> USE DEF AlarmInv, Alarm!ReplyAlarmAssumption
<1>1. /\ watch[w] \in AlarmWatches /\ gen \in 0..MaxGen /\ slot \in Watchers \cup {None}
      /\ faults \in 0..MaxFaults /\ answered \in [Watchers -> SUBSET Asked]
      /\ quietNew \subseteq Asked /\ quietCur \subseteq Asked
  BY DEF Alarm!TypeOK, AlarmWatches
<1>2. watch[w].pc # "reporting" => watch[w].fired = {}
  BY DEF Reading
<1>3. CASE Alarm!Arm(w)
  <2> DEFINE r == [Alarm!NoWatch EXCEPT !.pc = "probing", !.gen = gen]
  <2>1. /\ r \in AlarmWatches /\ r.fired = {} /\ r.seen = {} /\ r.pc = "probing"
        /\ watch' = [watch EXCEPT ![w] = r]
    BY <1>1, <1>3 DEF Alarm!Arm, Alarm!NoWatch, AlarmWatches
  <2>2. faults' \in 0..MaxFaults /\ slot' = w /\ answered' = answered
        /\ UNCHANGED <<gen, say, Alarm!mail, Alarm!alarms, drain, recorded, raised, lost>>
    BY <1>1, <1>3 DEF Alarm!Arm, Alarm!history
  <2>3. watch[w].fired = {}
    BY <1>2, <1>3 DEF Alarm!Arm
  <2> HIDE DEF r
  <2> QED
    BY <1>1, <2>1, <2>2, <2>3, QuietStep
<1>4. CASE Alarm!Probe(w) \/ Alarm!LookTimesOut(w) \/ Alarm!Poll(w)
  <2>1. PICK s \in {"polling", "looking", "probing"} :
          watch' = [watch EXCEPT ![w].pc = s]
    BY <1>4 DEF Alarm!Probe, Alarm!LookTimesOut, Alarm!Poll, Alarm!Goes
  <2> DEFINE r == [watch[w] EXCEPT !.pc = s]
  <2>2. r \in AlarmWatches /\ r.fired = watch[w].fired /\ r.seen = watch[w].seen
        /\ r.pc = s /\ watch' = [watch EXCEPT ![w] = r]
    BY <1>1, <2>1 DEF AlarmWatches
  <2>3. UNCHANGED <<gen, slot, say, Alarm!mail, Alarm!alarms, drain, faults, Alarm!history>>
        /\ watch[w].fired = {}
    BY <1>2, <1>4 DEF Alarm!Probe, Alarm!LookTimesOut, Alarm!Poll
  <2>4. watch[w].seen \subseteq quietNew \cup quietCur
    BY DEF Reading
  <2> HIDE DEF r
  <2> QED
    BY <1>1, <2>1, <2>2, <2>3, <2>4, QuietStep DEF Alarm!history
<1>5. CASE Alarm!ListNew(w)
  <2> DEFINE r == [watch[w] EXCEPT !.pc = "reading", !.todo = quietNew]
  <2>1. /\ r \in AlarmWatches /\ r.fired = watch[w].fired /\ r.seen = watch[w].seen
        /\ r.pc = "reading" /\ r.todo = quietNew
        /\ watch' = [watch EXCEPT ![w] = r]
    BY <1>1, <1>5 DEF Alarm!ListNew, AlarmWatches
  <2>2. UNCHANGED <<gen, slot, say, Alarm!mail, Alarm!alarms, drain, faults, recorded,
                    raised, lost>>
        /\ watch[w].fired = {}
    BY <1>2, <1>5 DEF Alarm!ListNew
  <2>3. /\ answered' \in [Watchers -> SUBSET Asked]
        /\ answered'[w] = quietNew \cup quietCur
        /\ \A v \in Watchers \ {w} : answered'[v] = answered[v]
    BY <1>1, <1>5 DEF Alarm!ListNew
  <2>4. watch[w].seen \subseteq quietNew \cup quietCur
    BY DEF Reading
  <2> HIDE DEF r
  <2> QED
    BY <1>1, <2>1, <2>2, <2>3, <2>4, QuietStep
<1>6. ASSUME NEW m \in Asked, Alarm!ReadNew(w, m) PROVE AlarmInv'
  <2> DEFINE r == [watch[w] EXCEPT !.todo = @ \ {m},
                                   !.seen = @ \cup ({m} \cap quietNew)]
  <2>1. /\ r \in AlarmWatches /\ r.fired = watch[w].fired /\ r.pc = "reading"
        /\ r.seen = watch[w].seen \cup ({m} \cap quietNew)
        /\ r.todo = watch[w].todo \ {m}
        /\ watch' = [watch EXCEPT ![w] = r]
    <3>1. watch[w].pc = "reading" /\ m \in Asked
      BY <1>6 DEF Alarm!ReadNew
    <3>2. watch' = [watch EXCEPT ![w] = r]
      BY <1>1, <1>6 DEF Alarm!ReadNew
    <3>3. /\ r.pc = watch[w].pc /\ r.gen = watch[w].gen
          /\ r.fired = watch[w].fired /\ r.todo = watch[w].todo \ {m}
          /\ r.seen = watch[w].seen \cup ({m} \cap quietNew)
      BY <1>1 DEF AlarmWatches
    <3>4. r \in AlarmWatches
      BY <1>1, <3>1 DEF AlarmWatches
    <3> QED
      BY <3>1, <3>2, <3>3, <3>4
  <2>2. UNCHANGED <<gen, slot, say, Alarm!mail, Alarm!alarms, drain, faults, Alarm!history>>
        /\ watch[w].fired = {}
    BY <1>2, <1>6 DEF Alarm!ReadNew
  <2>3. /\ r.seen \subseteq quietNew \cup quietCur
        /\ answered[w] \subseteq r.seen \cup (r.todo \cap quietNew) \cup quietCur
    BY <1>6, <2>1 DEF Reading, Alarm!ReadNew
  <2> HIDE DEF r
  <2> QED
    BY <1>1, <2>1, <2>2, <2>3, QuietStep DEF Alarm!history
<1>7. CASE Alarm!ReadCur(w)
  <2> DEFINE r == [watch[w] EXCEPT !.pc = "reconciling", !.seen = @ \cup quietCur]
  <2>1. /\ r \in AlarmWatches /\ r.fired = watch[w].fired /\ r.pc = "reconciling"
        /\ r.seen = watch[w].seen \cup quietCur
    BY <1>1, <1>7 DEF Alarm!ReadCur, AlarmWatches
  <2>4. watch' = [watch EXCEPT ![w] = r]
    BY <1>7 DEF Alarm!ReadCur
  <2>2. UNCHANGED <<gen, slot, say, Alarm!mail, Alarm!alarms, drain, faults, Alarm!history>>
        /\ watch[w].fired = {}
    BY <1>2, <1>7 DEF Alarm!ReadCur
  <2>3. r.seen \subseteq quietNew \cup quietCur /\ answered[w] \subseteq r.seen
    BY <1>7, <2>1 DEF Reading, Alarm!ReadCur
  <2> HIDE DEF r
  <2> QED
    BY <1>1, <2>1, <2>2, <2>3, <2>4, QuietStep DEF Alarm!history
<1>8. CASE Alarm!Reconcile(w)
  BY <1>8, ReconcileInv
<1>9. CASE Alarm!Superseded(w) \/ Alarm!Leave(w)
  <2>1. watch[w].fired = {} /\ raised = raised \cup watch[w].fired
    BY <1>2, <1>9 DEF Alarm!Superseded, Alarm!Leave
  <2> QED
    BY <1>1, <1>9, <2>1, GoneInv DEF Alarm!Superseded, Alarm!Leave, Alarm!Ends
<1>10. CASE Alarm!Report(w)
  BY <1>1, <1>10, GoneInv DEF Alarm!Report, Alarm!Ends
<1>11. CASE Alarm!Kill(w)
  <2>1. faults' \in 0..MaxFaults /\ slot' \in Watchers \cup {None}
    BY <1>1, <1>11 DEF Alarm!Kill
  <2> QED
    BY <1>11, <2>1, GoneInv DEF Alarm!Kill
<1> QED
  BY <1>3, <1>4, <1>5, <1>6, <1>7, <1>8, <1>9, <1>10, <1>11 DEF Alarm!Watcher

\* A drain gives a receipt its second name before it takes the first.
LEMMA DrainInv ==
  ASSUME Alarm!ReplyAlarmAssumption, AlarmInv, NEW d \in Drains, Alarm!Drain(d)
  PROVE  AlarmInv'
<1> USE DEF AlarmInv, Alarm!ReplyAlarmAssumption
<1>1. UNCHANGED <<gen, slot, say, expects, due, watch, faults, recorded, raised,
                  lost, answered>>
  BY DEF Alarm!Drain, Alarm!ListReceipts, Alarm!Examine, Alarm!LinkReceipt,
     Alarm!UnlinkReceipt, Alarm!DrainStops, Alarm!Frame, Alarm!alarms,
     Alarm!history
<1> DEFINE Moved == /\ quietNew' \subseteq quietNew
                    /\ quietCur \subseteq quietCur' /\ quietCur' \subseteq Asked
                    /\ quietNew \subseteq quietNew' \cup quietCur'
                    /\ drain' \in [Drains -> AlarmDrains]
                    /\ drain'[d].pc = "unlink" => drain'[d].ref \in quietCur'
                    /\ \A e \in Drains \ {d} : drain'[e] = drain[e]
<1>2. Moved
  <2>1. /\ drain \in [Drains -> AlarmDrains]
        /\ quietNew \subseteq Asked /\ quietCur \subseteq Asked
    BY DEF Alarm!TypeOK, AlarmDrains
  <2>2. CASE Alarm!ListReceipts(d)
    <3>1. [Alarm!NoDrain EXCEPT !.pc = "next", !.todo = quietNew] \in AlarmDrains
      BY <2>1 DEF Alarm!NoDrain, AlarmDrains
    <3> QED
      BY <2>1, <2>2, <3>1 DEF Alarm!ListReceipts, Alarm!NoDrain, Alarm!mail
  <2>3. ASSUME NEW m \in Asked, Alarm!Examine(d, m) PROVE Moved
    <3>1. [drain[d] EXCEPT !.ref = m, !.pc = IF m \in quietCur THEN "unlink"
                                              ELSE "link"] \in AlarmDrains
      BY <2>1 DEF AlarmDrains
    <3> QED
      BY <2>1, <2>3, <3>1 DEF Alarm!Examine, AlarmDrains, Alarm!mail
  <2>4. CASE Alarm!LinkReceipt(d)
    <3>1. [drain[d] EXCEPT !.pc = "unlink"] \in AlarmDrains
      BY <2>1 DEF AlarmDrains
    <3> QED
      BY <2>1, <2>4, <3>1 DEF Alarm!LinkReceipt, AlarmDrains
  <2>5. CASE Alarm!UnlinkReceipt(d)
    <3>1. drain[d].ref \in quietCur
      BY <2>5 DEF Alarm!UnlinkReceipt, Moving
    <3>2. [drain[d] EXCEPT !.pc = "next", !.ref = None, !.todo = @ \ {drain[d].ref}]
            \in AlarmDrains
      BY <2>1 DEF AlarmDrains
    <3> QED
      BY <2>1, <2>5, <3>1, <3>2 DEF Alarm!UnlinkReceipt, AlarmDrains
  <2>6. CASE Alarm!DrainStops(d)
    BY <2>1, <2>6, BlankAlarm DEF Alarm!DrainStops, Alarm!NoDrain, Alarm!mail
  <2> QED
    BY <2>2, <2>3, <2>4, <2>5, <2>6 DEF Alarm!Drain
<1>6. Alarm!TypeOK' /\ Moving'
  BY <1>1, <1>2 DEF Alarm!TypeOK, Moving, AlarmDrains
<1>7. Reading'
  BY <1>1, <1>2 DEF Reading
<1>8. Asking' /\ Alarm!AlarmTrue' /\ Apart' /\ Accounted'
  BY <1>1, <1>2 DEF Asking, Alarm!AlarmTrue, Apart, Accounted
<1> QED
  BY <1>6, <1>7, <1>8

LEMMA AlarmInvariance == Alarm!ReplyAlarmAssumption => (Alarm!Spec => []AlarmInv)
<1> SUFFICES ASSUME Alarm!ReplyAlarmAssumption PROVE Alarm!Spec => []AlarmInv
  OBVIOUS
<1>1. Alarm!Init => AlarmInv
  BY AlarmInit
<1>2. AlarmInv /\ [Alarm!Next]_(Alarm!vars) => AlarmInv'
  <2> SUFFICES ASSUME AlarmInv, [Alarm!Next]_(Alarm!vars) PROVE AlarmInv'
    OBVIOUS
  <2>1. CASE Alarm!Relaunch
    BY <2>1 DEF Alarm!Relaunch, Alarm!mail, Alarm!alarms, Alarm!history,
       AlarmInv, Alarm!TypeOK, Moving, Reading, Asking, Alarm!AlarmTrue,
       Apart, Accounted, Alarm!ReplyAlarmAssumption
  <2>2. CASE UNCHANGED Alarm!vars
    BY <2>2 DEF Alarm!vars, Alarm!mail, Alarm!alarms, Alarm!history, AlarmInv,
       Alarm!TypeOK, Moving, Reading, Asking, Alarm!AlarmTrue, Apart,
       Accounted
  <2> QED
    BY <2>1, <2>2, AskingInv, WatcherInv, DrainInv DEF Alarm!Next
<1> QED
  BY <1>1, <1>2, PTL DEF Alarm!Spec

\* What the alarms do in the sum is what they do alone.
LEMMA AlarmPart == MCSpec => Alarm!Spec
<1>1. MCInit => Alarm!Init
  BY DEF MCInit
<1>2. [MCNext]_<<part, vars, alarmVars>> => [Alarm!Next]_(Alarm!vars)
  BY DEF MCNext, alarmVars, Alarm!vars, Alarm!mail, Alarm!alarms, Alarm!history
<1> QED
  BY <1>1, <1>2, PTL DEF MCSpec, Alarm!Spec

\* No watcher takes an alarm for a message that was answered when it began to
\* look, although drains move the receipts between new/ and cur/ while it
\* reads, for any number of watchers, drains and messages.
THEOREM AlarmsTrue == MCSpec => []AlarmTrue
<1>1. AlarmInv => AlarmTrue
  BY DEF AlarmInv, AlarmTrue
<1>2. MCSpec => []AlarmInv
  BY AlarmPart, AlarmInvariance, MCMailAckAssumption
<1> QED
  BY <1>1, <1>2, PTL

\* Every expectation that was recorded ends in exactly one way, however
\* watchers overlap, die and are taken over: a receipt, one alarm, or the
\* death of the watcher that had taken it.
THEOREM AlarmsKept == MCSpec => []AlarmKept
<1>1. AlarmInv => AlarmKept
  <2>1. Apart => Alarm!AlarmOnce
    BY DEF Apart, Alarm!AlarmOnce
  <2>2. Accounted => Alarm!AlarmKept
    BY DEF Accounted, Alarm!AlarmKept
  <2> QED
    BY <2>1, <2>2 DEF AlarmInv, AlarmKept
<1>2. MCSpec => []AlarmInv
  BY AlarmPart, AlarmInvariance, MCMailAckAssumption
<1> QED
  BY <1>1, <1>2, PTL
=============================================================================
