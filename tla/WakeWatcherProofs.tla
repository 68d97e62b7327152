------------------------- MODULE WakeWatcherProofs -------------------------
(* The watcher slot and the breaker, for any number of hooks and messages.  *)
(* Why retries are bounded: once a generation was retried the lease counts  *)
(* two attempts, so a hook that sees the generation in its first scan stops *)
(* at the breaker.  Only a hook past its first scan can still retry it, and *)
(* none joins those: a first scan that finds nothing proves the generation  *)
(* drained, and names are never used again.                                 *)
EXTENDS WakeWatcher, FiniteSetTheorems, TLAPS

\* A Stop hook that may yet record the generation that was last woken for.
Late(w) ==
  /\ breaker[w]
  /\ \/ pc[w] = "recording" /\ snap[w] = last
     \/ /\ pc[w] \in {"deciding", "claiming", "waiting", "scanning"}
        /\ snap[w] = {} /\ last \subseteq new

LateOnes == {w \in Watchers : Late(w)}

-----------------------------------------------------------------------------
(* Types.                                                                  *)

LEMMA WatcherCount ==
  /\ Cardinality(Watchers) \in Nat /\ MaxRetries \in Nat
  /\ MaxRetries = Cardinality(Watchers) + 1
BY WakeWatcherAssumption, FS_CardinalityType DEF MaxRetries

LEMMA GoneType ==
  ASSUME TypeOK, NEW w \in Watchers, Gone(w)
  PROVE  /\ pc' \in [Watchers -> States] /\ breaker' \in [Watchers -> BOOLEAN]
         /\ snap' \in [Watchers -> SUBSET Mail] /\ ending' \in [Watchers -> Endings]
         /\ restarts' \in [Watchers -> 0..MaxRestarts]
BY WakeWatcherAssumption DEF TypeOK, Gone, To, EndsAs, States, Endings

LEMMA ExitType ==
  ASSUME TypeOK, NEW w \in Watchers, NEW how \in Endings, Exit(w, how)
  PROVE  /\ pc' \in [Watchers -> States] /\ snap' \in [Watchers -> SUBSET Mail]
         /\ ending' \in [Watchers -> Endings]
BY DEF TypeOK, Exit, To, EndsAs, States

LEMMA FaultType ==
  ASSUME TypeOK, Fault PROVE faults' \in 0..MaxFaults
BY WakeWatcherAssumption DEF TypeOK, Fault

LEMMA InitType == Init => TypeOK
<1> SUFFICES ASSUME Init PROVE TypeOK
  OBVIOUS
<1>1. pc \in [Watchers -> States]
  BY DEF Init, States
<1>2. /\ 0 \in 0..MaxAttempts /\ 0 \in 0..MaxRestarts
      /\ 0 \in 0..MaxFaults /\ 0 \in 0..MaxRetries
  BY WatcherCount, WakeWatcherAssumption
<1>3. \A w \in Watchers : "quiet" \in Endings
  BY DEF Endings
<1> QED
  BY <1>1, <1>2, <1>3 DEF Init, TypeOK

\* The session and its surroundings.
LEMMA OutsideType ==
  ASSUME TypeOK,
         \/ \E m \in Mail : Arrive(m) \/ Drain(m)
         \/ UserTurn \/ HookTurn \/ Interrupt \/ LoseLease \/ HeartbeatAges
  PROVE  TypeOK'
<1> USE DEF lease, mine, history
<1>1. ASSUME NEW m \in Mail, Arrive(m) \/ Drain(m) PROVE TypeOK'
  BY <1>1 DEF Arrive, Drain, TypeOK
<1>2. CASE UserTurn \/ HookTurn
  <2>1. 0 \in 0..MaxRetries
    BY WatcherCount
  <2> QED
    BY <1>2, <2>1 DEF UserTurn, HookTurn, Excused, TypeOK
<1>3. CASE Interrupt \/ LoseLease \/ HeartbeatAges
  BY <1>3, FaultType DEF Interrupt, LoseLease, HeartbeatAges, TypeOK
<1> QED
  BY <1>1, <1>2, <1>3

\* The steps by which a process starts, runs and ends.
LEMMA ProcessType ==
  ASSUME TypeOK, NEW w \in Watchers,
         \/ StopHook(w) \/ SessionHook(w) \/ Proceed(w)
         \/ ReplyOverdue(w) \/ Retire(w)
         \/ Terminate(w) \/ Kill(w) \/ Crash(w) \/ CleanUpFails(w)
  PROVE  TypeOK'
<1> USE DEF lease, mine, history, quiet
<1>1. CASE StopHook(w) \/ SessionHook(w)
  BY <1>1 DEF StopHook, SessionHook, Start, To, TypeOK, States
<1>2. CASE LookFirst(w) \/ FirstScan(w) \/ LookAgain(w) \/ Refused(w)
  BY <1>2 DEF LookFirst, FirstScan, LookAgain, Refused, To, EndsAs, TypeOK, States,
     Endings
<1>3. CASE Claim(w)
  BY <1>3, ExitType DEF Claim, To, TypeOK, States, Endings
<1>4. CASE AfterRefusal(w) \/ ReplyOverdue(w) \/ Retire(w) \/ Disowned(w)
  BY <1>4, ExitType DEF AfterRefusal, ReplyOverdue, Retire, RetireStatus, Disowned,
     TypeOK, Endings
<1>5. CASE Renew(w) \/ Scan(w)
  BY <1>5, ExitType DEF Renew, Scan, To, TypeOK, States, Endings
<1>6. CASE Record(w)
  <2>1. AttemptsAt(w) \in 0..MaxAttempts /\ RetriesAt(w) \in 0..MaxRetries
    BY WatcherCount, WakeWatcherAssumption DEF AttemptsAt, RetriesAt, TypeOK
  <2> QED
    BY <1>6, <2>1, ExitType DEF Record, TypeOK, Endings
<1>7. CASE Clear(w) \/ CleanUp(w)
  BY <1>7 DEF Clear, CleanUp, ClearWake, To, TypeOK, States
<1>8. CASE Leave(w) \/ Kill(w)
  BY <1>8, GoneType, FaultType DEF Leave, Kill, Excuse, TypeOK
<1>9. CASE Terminate(w) \/ Crash(w) \/ CleanUpFails(w)
  BY <1>9, FaultType DEF Terminate, Crash, CleanUpFails, To, EndsAs, TypeOK, States,
     Endings
<1>10. CASE Heal(w) \/ GiveUp(w)
  BY <1>10, WakeWatcherAssumption DEF Heal, GiveUp, To, EndsAs, TypeOK, States, Endings
<1> QED
  BY <1>1, <1>2, <1>3, <1>4, <1>5, <1>6, <1>7, <1>8, <1>9, <1>10 DEF Proceed

LEMMA TypeStep == TypeOK /\ [Next]_vars => TypeOK'
<1> SUFFICES ASSUME TypeOK, [Next]_vars PROVE TypeOK'
  OBVIOUS
<1>1. CASE UNCHANGED vars
  BY <1>1 DEF vars, lease, mine, history, TypeOK
<1> QED
  BY <1>1, OutsideType, ProcessType DEF Next

\* What the session, the slot and every hook process record keeps its type.
THEOREM TypeCorrect == Spec => []TypeOK
BY InitType, TypeStep, PTL DEF Spec

-----------------------------------------------------------------------------
(* The slot.                                                               *)

\* "A superseded watcher must never clear its successor's wake state": the slot
\* is taken from a watcher only while it is clearing it itself, has ended or
\* has fallen silent, however hooks overlap, crash and heal.
THEOREM SlotSafe == Spec => SlotNotStolen
<1>1. ASSUME [Next]_vars, slot # None, slot' # slot
      PROVE  ~Running(slot) \/ ~fresh \/ pc[slot] \in {"clearing", "crashed"}
  <2> USE DEF lease, history, mine, quiet
  <2>1. PICK w \in Watchers : Claim(w) \/ Clear(w) \/ CleanUp(w)
    <3>1. Next
      BY <1>1 DEF vars
    <3>2. ASSUME NEW m \in Mail, Arrive(m) \/ Drain(m) PROVE FALSE
      BY <1>1, <3>2 DEF Arrive, Drain
    <3>3. ~(UserTurn \/ HookTurn \/ Interrupt \/ LoseLease \/ HeartbeatAges)
      BY <1>1 DEF UserTurn, HookTurn, Interrupt, LoseLease, HeartbeatAges
    <3>4. ASSUME NEW v \in Watchers,
                 \/ StopHook(v) \/ SessionHook(v) \/ ReplyOverdue(v) \/ Retire(v)
                 \/ Terminate(v) \/ Kill(v) \/ Crash(v) \/ CleanUpFails(v)
          PROVE  FALSE
      BY <1>1, <3>4 DEF StopHook, SessionHook, ReplyOverdue, Retire, Terminate, Kill,
         Crash, CleanUpFails
    <3>5. ASSUME NEW v \in Watchers,
                 \/ LookFirst(v) \/ FirstScan(v) \/ LookAgain(v) \/ Refused(v)
                 \/ AfterRefusal(v) \/ Renew(v) \/ Scan(v) \/ Record(v) \/ Leave(v)
                 \/ Disowned(v) \/ Heal(v) \/ GiveUp(v)
          PROVE  FALSE
      BY <1>1, <3>5 DEF LookFirst, FirstScan, LookAgain, Refused, AfterRefusal, Renew,
         Scan, Record, Leave, Disowned, Heal, GiveUp
    <3> QED
      BY <3>1, <3>2, <3>3, <3>4, <3>5 DEF Next, Proceed
  <2>2. CASE Claim(w)
    BY <1>1, <2>2 DEF Claim, Claimable, WatcherIsLive
  <2>3. CASE Clear(w) \/ CleanUp(w)
    BY <1>1, <2>3 DEF Clear, CleanUp, ClearWake, ClearsSlot
  <2> QED
    BY <2>1, <2>2, <2>3
<1>2. [Next]_vars => [SlotHandover]_vars
  BY <1>1 DEF SlotHandover
<1> QED
  BY <1>2, PTL DEF Spec, SlotNotStolen
-----------------------------------------------------------------------------
(* The breaker.                                                            *)

\* What the watchers saw is mail that was delivered; one that polls has seen
\* none, and one that records has seen some.
SeenInv ==
  /\ \A w \in Watchers :
       /\ pc[w] = "recording" => snap[w] # {}
       /\ pc[w] \in {"waiting", "scanning"} => snap[w] = {}
  /\ last # {} => attempts >= 1
  /\ last \subseteq delivered
  /\ \A w \in Watchers : snap[w] \subseteq delivered

Counted ==
  retries > 0 =>
    /\ last # {} /\ attempts >= 2
    /\ retries + Cardinality(LateOnes) <= Cardinality(Watchers)

RetryInv == TypeOK /\ SeenInv /\ Counted

LEMMA SeenOutside ==
  ASSUME TypeOK, SeenInv,
         \/ \E m \in Mail : Arrive(m) \/ Drain(m)
         \/ UserTurn \/ HookTurn \/ Interrupt \/ LoseLease \/ HeartbeatAges
  PROVE  SeenInv'
<1> USE DEF lease, mine, history
<1>1. ASSUME NEW m \in Mail, Arrive(m) \/ Drain(m) PROVE SeenInv'
  BY <1>1 DEF Arrive, Drain, SeenInv
<1>2. CASE UserTurn \/ HookTurn \/ Interrupt
  BY <1>2 DEF UserTurn, HookTurn, Interrupt, SeenInv
<1>3. CASE LoseLease \/ HeartbeatAges
  BY <1>3 DEF LoseLease, HeartbeatAges, SeenInv
<1> QED
  BY <1>1, <1>2, <1>3

\* A process that is not polling or recording, or has the snapshot it had.
LEMMA SeenBy ==
  ASSUME TypeOK, SeenInv, NEW w \in Watchers, NEW to \in States,
         NEW seen \in SUBSET delivered,
         pc' = [pc EXCEPT ![w] = to], snap' = [snap EXCEPT ![w] = seen],
         UNCHANGED <<delivered, last, attempts>>,
         to = "recording" => seen # {},
         to \in {"waiting", "scanning"} => seen = {}
  PROVE  SeenInv'
BY DEF TypeOK, SeenInv

LEMMA SeenSame ==
  ASSUME TypeOK, SeenInv, NEW w \in Watchers, NEW to \in States,
         pc' = [pc EXCEPT ![w] = to], snap' = snap,
         UNCHANGED <<delivered, last, attempts>>,
         to = "recording" => snap[w] # {},
         to \in {"waiting", "scanning"} => snap[w] = {}
  PROVE  SeenInv'
BY DEF TypeOK, SeenInv

LEMMA SeenExit ==
  ASSUME TypeOK, SeenInv, NEW w \in Watchers, NEW how, Exit(w, how),
         UNCHANGED <<delivered, last, attempts>>
  PROVE  SeenInv'
BY SeenBy DEF Exit, To, States

LEMMA SeenProcess ==
  ASSUME TypeOK, SeenInv, NEW w \in Watchers,
         \/ StopHook(w) \/ SessionHook(w) \/ Proceed(w)
         \/ ReplyOverdue(w) \/ Retire(w)
         \/ Terminate(w) \/ Kill(w) \/ Crash(w) \/ CleanUpFails(w)
  PROVE  SeenInv'
<1> USE DEF lease, mine, history, quiet, To
<1>1. CASE StopHook(w) \/ SessionHook(w)
  BY <1>1, SeenSame DEF StopHook, SessionHook, Start, States
<1>2. CASE LookFirst(w) \/ LookAgain(w) \/ Refused(w)
  BY <1>2, SeenSame DEF LookFirst, LookAgain, Refused, States
<1>3. CASE FirstScan(w) \/ Scan(w)
  <2>1. new \in SUBSET delivered
    BY DEF TypeOK
  <2> QED
    BY <1>3, <2>1, SeenBy DEF FirstScan, Scan, States
<1>4. CASE Claim(w)
  <2>1. UNCHANGED <<delivered, last, attempts>>
    BY <1>4 DEF Claim
  <2>2. CASE Exhausted(w)
    BY <1>4, <2>1, <2>2, SeenExit DEF Claim
  <2>3. CASE ~Exhausted(w)
    BY <1>4, <2>1, <2>3, SeenSame DEF Claim, States
  <2> QED
    BY <2>2, <2>3
<1>5. CASE AfterRefusal(w) \/ ReplyOverdue(w) \/ Retire(w) \/ Disowned(w)
  BY <1>5, SeenExit DEF AfterRefusal, ReplyOverdue, Retire, Disowned
<1>6. CASE Renew(w)
  <2>1. snap[w] = {} /\ UNCHANGED <<delivered, last, attempts>>
    BY <1>6 DEF Renew, SeenInv
  <2>2. CASE slot = w
    BY <1>6, <2>1, <2>2, SeenSame DEF Renew, States
  <2>3. CASE slot # w
    BY <1>6, <2>1, <2>3, SeenExit DEF Renew
  <2> QED
    BY <2>2, <2>3
<1>7. CASE Record(w)
  <2>1. delivered' = delivered /\ \A v \in Watchers : pc'[v] = "recording" => pc[v] = "recording"
    BY <1>7 DEF Record, Exit, TypeOK
  <2>2. \A v \in Watchers : /\ pc'[v] \in {"recording", "waiting", "scanning"} =>
                                 pc'[v] = pc[v] /\ snap'[v] = snap[v]
                            /\ snap'[v] \in {snap[v], {}}
    BY <1>7 DEF Record, Exit, TypeOK
  <2>3. last' \in {last, snap[w]} /\ (last' # {} => attempts' >= 1)
    BY <1>7, WakeWatcherAssumption DEF Record, AttemptsAt, SeenInv, TypeOK
  <2> QED
    BY <2>1, <2>2, <2>3 DEF SeenInv
<1>8. CASE Clear(w) \/ CleanUp(w)
  <2>1. UNCHANGED <<delivered, last, attempts>>
    BY <1>8 DEF Clear, CleanUp, ClearWake
  <2> QED
    BY <1>8, <2>1, SeenSame DEF Clear, CleanUp, States
<1>9. CASE Leave(w) \/ Kill(w)
  BY <1>9, SeenBy DEF Leave, Kill, Gone, States
<1>10. CASE Terminate(w) \/ CleanUpFails(w) \/ Heal(w) \/ GiveUp(w)
  BY <1>10, SeenSame DEF Terminate, CleanUpFails, Heal, GiveUp, States
<1>11. CASE Crash(w)
  <2>1. PICK to \in {"crashed", "healing"} : pc' = [pc EXCEPT ![w] = to]
    BY <1>11 DEF Crash
  <2>2. snap' = [snap EXCEPT ![w] = {}] /\ UNCHANGED <<delivered, last, attempts>>
    BY <1>11 DEF Crash
  <2>3. to \in States /\ to \notin {"recording", "waiting", "scanning"}
    BY DEF States
  <2>4. {} \in SUBSET delivered
    OBVIOUS
  <2> QED
    BY <2>1, <2>2, <2>3, <2>4, SeenBy
<1> QED
  BY <1>1, <1>2, <1>3, <1>4, <1>5, <1>6, <1>7, <1>8, <1>9, <1>10, <1>11 DEF Proceed

\* Once a generation was retried, nobody joins those who may retry it.
Calm ==
  /\ UNCHANGED <<last, attempts>>
  /\ retries' \in {0, retries}
  /\ \A v \in Watchers : Late(v)' => Late(v)

LEMMA CalmOutside ==
  ASSUME RetryInv,
         \/ \E m \in Mail : Arrive(m) \/ Drain(m)
         \/ UserTurn \/ HookTurn \/ Interrupt \/ LoseLease \/ HeartbeatAges
  PROVE  Calm
<1> USE DEF lease, mine, history
<1>1. ASSUME NEW m \in Mail, Arrive(m) PROVE Calm
  <2>1. last \subseteq new' => last \subseteq new
    BY <1>1 DEF Arrive, RetryInv, SeenInv
  <2> QED
    BY <1>1, <2>1 DEF Arrive, Calm, Late
<1>2. ASSUME NEW m \in Mail, Drain(m) PROVE Calm
  BY <1>2 DEF Drain, Calm, Late
<1>3. CASE UserTurn \/ HookTurn \/ Interrupt
  BY <1>3 DEF UserTurn, HookTurn, Interrupt, Calm, Late
<1>4. CASE LoseLease \/ HeartbeatAges
  BY <1>4 DEF LoseLease, HeartbeatAges, Calm, Late
<1> QED
  BY <1>1, <1>2, <1>3, <1>4

\* What w does concerns nobody else.
LEMMA CalmBy ==
  ASSUME RetryInv, NEW w \in Watchers, Late(w)' => Late(w),
         \A v \in Watchers \ {w} : /\ pc'[v] = pc[v] /\ snap'[v] = snap[v]
                                   /\ breaker'[v] = breaker[v],
         UNCHANGED <<new, last, attempts, retries>>
  PROVE  Calm
BY DEF Calm, Late

LEMMA CalmExit ==
  ASSUME RetryInv, NEW w \in Watchers, NEW how, Exit(w, how),
         UNCHANGED <<new, breaker, last, attempts, retries>>
  PROVE  Calm
<1>1. ~Late(w)' /\ \A v \in Watchers \ {w} : pc'[v] = pc[v] /\ snap'[v] = snap[v]
  BY DEF RetryInv, TypeOK, Exit, To, Late
<1> QED
  BY <1>1, CalmBy

LEMMA CalmTo ==
  ASSUME RetryInv, NEW w \in Watchers, NEW to \in States, To(w, to),
         snap' = snap \/ \E seen : snap' = [snap EXCEPT ![w] = seen],
         breaker' = breaker \/ \E b : breaker' = [breaker EXCEPT ![w] = b],
         to \notin {"recording", "deciding", "claiming", "waiting", "scanning"},
         UNCHANGED <<new, last, attempts, retries>>
  PROVE  Calm
<1>1. pc'[w] = to /\ \A v \in Watchers \ {w} : pc'[v] = pc[v]
  BY DEF RetryInv, TypeOK, To
<1>2. \A v \in Watchers \ {w} : snap'[v] = snap[v]
  BY DEF RetryInv, TypeOK
<1>3. \A v \in Watchers \ {w} : breaker'[v] = breaker[v]
  BY DEF RetryInv, TypeOK
<1>4. ~Late(w)'
  BY <1>1 DEF Late
<1> QED
  BY <1>1, <1>2, <1>3, <1>4, CalmBy

LEMMA CalmProcess ==
  ASSUME RetryInv, retries > 0, NEW w \in Watchers, ~Record(w),
         \/ StopHook(w) \/ SessionHook(w) \/ Proceed(w)
         \/ ReplyOverdue(w) \/ Retire(w)
         \/ Terminate(w) \/ Kill(w) \/ Crash(w) \/ CleanUpFails(w)
  PROVE  Calm
<1> USE DEF lease, mine, history, quiet
<1>1. CASE StopHook(w) \/ SessionHook(w)
  BY <1>1, CalmTo DEF StopHook, SessionHook, Start, States
<1>2. CASE LookFirst(w) \/ Refused(w) \/ Heal(w) \/ GiveUp(w) \/ Crash(w)
  BY <1>2, CalmTo DEF LookFirst, Refused, Heal, GiveUp, Crash, States
<1>3. CASE AfterRefusal(w) \/ ReplyOverdue(w) \/ Retire(w) \/ Disowned(w)
  BY <1>3, CalmExit DEF AfterRefusal, ReplyOverdue, Retire, Disowned
<1>4. CASE FirstScan(w) \/ Scan(w)
  <2>1. /\ pc'[w] \in {"deciding", "waiting", "recording"} /\ snap'[w] = new
        /\ pc'[w] = "waiting" => new = {}
        /\ pc'[w] = "recording" => pc[w] = "scanning" /\ snap[w] = {}
        /\ \A v \in Watchers \ {w} : pc'[v] = pc[v] /\ snap'[v] = snap[v]
        /\ UNCHANGED <<new, breaker, last, attempts, retries>>
    BY <1>4 DEF FirstScan, Scan, To, RetryInv, TypeOK, SeenInv
  <2>2. last # {}
    BY DEF RetryInv, Counted
  <2>3. Late(w)' => Late(w)
    BY <2>1, <2>2 DEF Late
  <2> QED
    BY <2>1, <2>3, CalmBy
<1>5. CASE LookAgain(w)
  <2>1. CASE To(w, "leaving")
    BY <1>5, <2>1, CalmTo DEF LookAgain, States
  <2>2. CASE To(w, "claiming")
    <3>1. /\ pc[w] = "deciding" /\ pc'[w] = "claiming"
          /\ \A v \in Watchers \ {w} : pc'[v] = pc[v]
          /\ UNCHANGED <<new, snap, breaker, last, attempts, retries>>
      BY <1>5, <2>2 DEF LookAgain, To, RetryInv, TypeOK
    <3>2. Late(w)' => Late(w)
      BY <3>1 DEF Late
    <3> QED
      BY <3>1, <3>2, CalmBy
  <2> QED
    BY <1>5, <2>1, <2>2 DEF LookAgain
<1>6. CASE Claim(w)
  <2>1. CASE Exhausted(w)
    BY <1>6, <2>1, CalmExit DEF Claim
  <2>2. CASE ~Exhausted(w)
    <3>1. /\ pc[w] = "claiming" /\ pc'[w] = IF snap[w] = {} THEN "waiting" ELSE "recording"
          /\ \A v \in Watchers \ {w} : pc'[v] = pc[v]
          /\ UNCHANGED <<new, snap, breaker, last, attempts, retries>>
      BY <1>6, <2>2 DEF Claim, To, RetryInv, TypeOK
    <3>2. breaker[w] => snap[w] # last
      BY <2>2 DEF Exhausted, RetryInv, Counted
    <3>3. Late(w)' => Late(w)
      BY <3>1, <3>2 DEF Late
    <3> QED
      BY <3>1, <3>3, CalmBy
  <2> QED
    BY <2>1, <2>2
<1>7. CASE Renew(w)
  <2>1. CASE slot = w
    <3>1. /\ pc[w] = "waiting" /\ pc'[w] = "scanning"
          /\ \A v \in Watchers \ {w} : pc'[v] = pc[v]
          /\ UNCHANGED <<new, snap, breaker, last, attempts, retries>>
      BY <1>7, <2>1 DEF Renew, To, RetryInv, TypeOK
    <3>2. Late(w)' => Late(w)
      BY <3>1 DEF Late
    <3> QED
      BY <3>1, <3>2, CalmBy
  <2>2. CASE slot # w
    BY <1>7, <2>2, CalmExit DEF Renew
  <2> QED
    BY <2>1, <2>2
<1>8. CASE Clear(w) \/ CleanUp(w)
  <2>1. UNCHANGED <<last, attempts>>
    BY <1>8 DEF Clear, CleanUp, ClearWake
  <2> QED
    BY <1>8, <2>1, CalmTo DEF Clear, CleanUp, States
<1>9. CASE Leave(w) \/ Kill(w)
  BY <1>9, CalmTo DEF Leave, Kill, Gone, States
<1>10. CASE Terminate(w) \/ CleanUpFails(w)
  BY <1>10, CalmTo DEF Terminate, CleanUpFails, States
<1> QED
  BY <1>1, <1>2, <1>3, <1>4, <1>5, <1>6, <1>7, <1>8, <1>9, <1>10 DEF Proceed

\* A watcher that records is one of them, and no longer one afterwards.
LEMMA RecordCounted ==
  ASSUME RetryInv, NEW w \in Watchers, Record(w)
  PROVE  Counted'
<1>1. TypeOK /\ SeenInv /\ snap[w] # {}
  BY DEF RetryInv, SeenInv, Record
<1>2. /\ pc' = [pc EXCEPT ![w] = "clearing"] /\ snap' = [snap EXCEPT ![w] = {}]
      /\ new' = new /\ breaker' = breaker
  BY DEF Record, Exit, To, quiet
<1>3. ASSUME last' = last PROVE LateOnes' \subseteq LateOnes \ {w}
  BY <1>1, <1>2, <1>3 DEF LateOnes, Late, TypeOK
<1>4. /\ IsFiniteSet(LateOnes) /\ IsFiniteSet(LateOnes') /\ IsFiniteSet(Watchers)
      /\ Cardinality(LateOnes) \in Nat /\ Cardinality(LateOnes') \in Nat
  BY WakeWatcherAssumption, FS_Subset, FS_CardinalityType DEF LateOnes
<1>5. CASE slot # w
  <2>1. UNCHANGED <<last, attempts, retries>>
    BY <1>5 DEF Record
  <2>2. Cardinality(LateOnes') <= Cardinality(LateOnes)
    BY <1>3, <1>4, <2>1, FS_Subset
  <2> QED
    BY <1>1, <1>4, <2>1, <2>2, WatcherCount DEF RetryInv, Counted, TypeOK
<1>6. CASE slot = w /\ snap[w] # last
  BY <1>6 DEF Record, RetriesAt, Counted
<1>7. CASE slot = w /\ snap[w] = last
  <2>1. /\ last' = last /\ last # {}
        /\ attempts >= 1 /\ attempts' >= 2 /\ attempts' >= attempts
        /\ retries' = RetriesAt(w)
    BY <1>1, <1>7, WakeWatcherAssumption DEF Record, AttemptsAt, SeenInv, TypeOK
  <2>2. CASE ~breaker[w]
    <3>1. retries' = retries
      BY <1>7, <2>1, <2>2 DEF RetriesAt
    <3>2. Cardinality(LateOnes') <= Cardinality(LateOnes)
      BY <1>3, <1>4, <2>1, FS_Subset
    <3> QED
      BY <1>1, <1>4, <2>1, <3>1, <3>2, WatcherCount DEF RetryInv, Counted, TypeOK
  <2>3. CASE breaker[w]
    <3>1. w \in LateOnes /\ pc[w] = "recording"
      BY <1>7, <2>3 DEF LateOnes, Late, Record
    <3>2. Cardinality(LateOnes') <= Cardinality(LateOnes) - 1
      <4>1. /\ IsFiniteSet(LateOnes \ {w})
            /\ Cardinality(LateOnes \ {w}) = Cardinality(LateOnes) - 1
        BY <1>4, <3>1, FS_RemoveElement
      <4> QED
        BY <1>3, <1>4, <2>1, <4>1, FS_Subset
    <3>3. Cardinality(LateOnes) <= Cardinality(Watchers)
      BY <1>4, FS_Subset DEF LateOnes
    <3>4. retries' <= retries + 1
      BY <1>1, <1>7, <2>1 DEF RetriesAt, TypeOK
    <3>5. retries' \in Nat /\ retries \in Nat
      BY <1>1, <2>1, WatcherCount DEF RetriesAt, TypeOK
    <3>6. retries = 0 \/ retries + Cardinality(LateOnes) <= Cardinality(Watchers)
      BY <3>5 DEF RetryInv, Counted
    <3>7. retries' + Cardinality(LateOnes') <= Cardinality(Watchers)
      BY <1>4, <3>2, <3>3, <3>4, <3>5, <3>6, WatcherCount
    <3> QED
      BY <2>1, <3>7 DEF Counted
  <2> QED
    BY <2>2, <2>3
<1> QED
  BY <1>5, <1>6, <1>7

LEMMA CalmCounted ==
  ASSUME RetryInv, TypeOK', Calm
  PROVE  Counted'
<1>1. LateOnes' \subseteq LateOnes
  BY DEF Calm, LateOnes
<1>2. /\ IsFiniteSet(LateOnes) /\ IsFiniteSet(LateOnes')
      /\ Cardinality(LateOnes) \in Nat /\ Cardinality(LateOnes') \in Nat
  BY WakeWatcherAssumption, FS_Subset, FS_CardinalityType DEF LateOnes
<1>3. Cardinality(LateOnes') <= Cardinality(LateOnes)
  BY <1>1, <1>2, FS_Subset
<1>4. retries \in Nat /\ retries' \in {0, retries} /\ last' = last /\ attempts' = attempts
  BY WatcherCount DEF RetryInv, TypeOK, Calm
<1> QED
  BY <1>2, <1>3, <1>4, WatcherCount DEF RetryInv, Counted

\* Only a recording watcher raises the count.
LEMMA RetriesRaised ==
  ASSUME RetryInv, retries = 0, Next, \A w \in Watchers : ~Record(w)
  PROVE  retries' = 0
<1> USE DEF lease, mine, history, quiet
<1>1. ASSUME NEW m \in Mail, Arrive(m) \/ Drain(m) PROVE retries' = 0
  BY <1>1 DEF Arrive, Drain
<1>2. CASE UserTurn \/ HookTurn \/ Interrupt \/ LoseLease \/ HeartbeatAges
  BY <1>2 DEF UserTurn, HookTurn, Interrupt, LoseLease, HeartbeatAges
<1>3. ASSUME NEW w \in Watchers,
             \/ StopHook(w) \/ SessionHook(w) \/ ReplyOverdue(w) \/ Retire(w)
             \/ Terminate(w) \/ Kill(w) \/ Crash(w) \/ CleanUpFails(w)
      PROVE  retries' = 0
  BY <1>3 DEF StopHook, SessionHook, ReplyOverdue, Retire, Terminate, Kill, Crash,
     CleanUpFails
<1>4. ASSUME NEW w \in Watchers, Proceed(w) PROVE retries' = 0
  BY <1>4 DEF Proceed, LookFirst, FirstScan, LookAgain, Claim, Refused, AfterRefusal,
     Renew, Scan, Clear, Leave, Disowned, CleanUp, Heal, GiveUp
<1> QED
  BY <1>1, <1>2, <1>3, <1>4 DEF Next

LEMMA RetryStep == RetryInv /\ [Next]_vars => RetryInv'
<1> SUFFICES ASSUME RetryInv, [Next]_vars PROVE RetryInv'
  OBVIOUS
<1>1. TypeOK'
  BY TypeStep DEF RetryInv
<1>2. SeenInv'
  <2>1. CASE UNCHANGED vars
    BY <2>1 DEF vars, lease, mine, RetryInv, SeenInv
  <2> QED
    BY <2>1, SeenOutside, SeenProcess DEF RetryInv, Next
<1>3. Counted'
  <2>1. CASE UNCHANGED vars
    <3>1. Calm
      BY <2>1 DEF vars, lease, mine, history, Calm, Late
    <3> QED
      BY <1>1, <3>1, CalmCounted
  <2>2. ASSUME NEW w \in Watchers, Record(w) PROVE Counted'
    BY <2>2, RecordCounted
  <2>3. CASE Next /\ (\A w \in Watchers : ~Record(w)) /\ retries > 0
    BY <1>1, <2>3, CalmOutside, CalmProcess, CalmCounted DEF Next
  <2>4. CASE Next /\ (\A w \in Watchers : ~Record(w)) /\ ~(retries > 0)
    <3>1. retries = 0
      BY <2>4, WatcherCount DEF RetryInv, TypeOK
    <3> QED
      BY <2>4, <3>1, RetriesRaised DEF Counted
  <2> QED
    BY <2>1, <2>2, <2>3, <2>4
<1> QED
  BY <1>1, <1>2, <1>3 DEF RetryInv

\* The breaker: without a turn of the user's one generation of mail is retried
\* at most once per hook process, however many overlap, crash and heal.
THEOREM RetriesBounded == Spec => []BoundedRetries
<1>1. Init => RetryInv
  <2> SUFFICES ASSUME Init PROVE RetryInv
    OBVIOUS
  <2>1. SeenInv /\ Counted
    BY DEF Init, SeenInv, Counted
  <2> QED
    BY <2>1, InitType DEF RetryInv
<1>2. RetryInv => BoundedRetries
  <2> SUFFICES ASSUME RetryInv PROVE BoundedRetries
    OBVIOUS
  <2>1. IsFiniteSet(LateOnes) /\ Cardinality(LateOnes) \in Nat /\ retries \in Nat
    BY WatcherCount, WakeWatcherAssumption, FS_Subset, FS_CardinalityType
       DEF LateOnes, RetryInv, TypeOK
  <2> QED
    BY <2>1, WatcherCount DEF RetryInv, Counted, BoundedRetries
<1> QED
  BY <1>1, <1>2, RetryStep, PTL DEF Spec
============================================================================
