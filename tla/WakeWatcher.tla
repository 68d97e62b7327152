---------------------------- MODULE WakeWatcher ----------------------------
(***************************************************************************)
(* How mail wakes an idle Claude session: the hooks of bin/rt-wait-inbox   *)
(* and the watcher slot they share in the seat's lease.                    *)
(*                                                                         *)
(* SessionStart and Stop each start a watcher process in the background.   *)
(* A watcher claims the slot, polls new/, records the set of pending names *)
(* (the generation) it wakes for, clears the slot and exits 2, upon which  *)
(* Claude Code begins a turn; the Stop hook of that turn starts the next   *)
(* watcher.  A breaker stops the second retry of an undrained generation.  *)
(*                                                                         *)
(* One lease generation of one seat; once it is lost (SeatLease) every     *)
(* fenced call is refused.  A wait for the layout lock stutters.           *)
(***************************************************************************)
EXTENDS Naturals, FiniteSets

CONSTANTS
  Mail,              \* mail to the seat, quiet receipts apart
  Watchers,          \* pids of hook processes
  None,              \* no watcher
  MaxRestarts,       \* SELF_HEAL_MAX_RESTARTS
  DirectoryFails,    \* the runtime directory may turn unreadable or unwritable
  MaxFaults,         \* bound: interruptions, losses, delays, deaths, crashes
  MaxAttempts        \* bound: where the count of wake attempts saturates

ASSUME WakeWatcherAssumption ==
  /\ None \notin Watchers /\ IsFiniteSet(Watchers)
  /\ {MaxRestarts, MaxFaults} \subseteq Nat
  /\ DirectoryFails \in BOOLEAN
  /\ MaxAttempts \in Nat /\ MaxAttempts >= 2

VARIABLES
  delivered,    \* the mail delivered so far
  new,          \* the mail in new/
  session,      \* "idle", or what began the turn: "user" or "hook"
  rewake,       \* a hook has exited 2 and the session has not heard of it
  owned,        \* the lease the hooks present is still the seat's
  slot, fresh,  \* the lease's watcherPid; its heartbeat is within the TTL
  last,         \* lastWakeMessages
  attempts,     \* wakeAttempts
  pc,           \* pc[w]: where process w is
  breaker,      \* breaker[w]: w is the Stop hook of a turn a hook began
  snap,         \* snap[w]: the pending mail w saw last
  ending,       \* ending[w]: how w is to exit
  restarts,     \* restarts[w]: how often w healed itself
  faults,       \* what has gone wrong so far
  excuse,       \* history: why nobody watches for an idle session; for good
                \* once a watcher could not clear its slot
  retries       \* history: Stop-hook retries of last since the user's turn

lease == <<slot, fresh, last, attempts>>
mine == <<breaker, snap, ending, restarts>>
history == <<excuse, retries>>
vars == <<delivered, new, session, rewake, owned, lease, pc, mine, faults, history>>

\* Where the count of retries saturates.
MaxRetries == Cardinality(Watchers) + 1

States == {"none", "start", "seen", "deciding", "claiming", "refused",
           "waiting", "scanning", "recording", "clearing", "leaving",
           "crashed", "healing"}
\* Within the try whose finally clears the slot.
Guarded == {"claiming", "refused", "waiting", "scanning", "recording"}
Unguarded == {"start", "seen", "deciding"}

\* Status 2 wakes; of the others, the breaker's and a death are told apart.
Endings == {"quiet", "wake", "paused", "killed"}

TypeOK ==
  /\ delivered \subseteq Mail
  /\ new \subseteq delivered
  /\ session \in {"idle", "user", "hook"}
  /\ rewake \in BOOLEAN /\ owned \in BOOLEAN /\ fresh \in BOOLEAN
  /\ slot \in Watchers \cup {None}
  /\ last \subseteq Mail
  /\ attempts \in 0..MaxAttempts
  /\ pc \in [Watchers -> States]
  /\ breaker \in [Watchers -> BOOLEAN]
  /\ snap \in [Watchers -> SUBSET Mail]
  /\ ending \in [Watchers -> Endings]
  /\ restarts \in [Watchers -> 0..MaxRestarts]
  /\ faults \in 0..MaxFaults
  /\ excuse \in {"no", "paused", "killed", "uncleared"}
  /\ retries \in 0..MaxRetries

\* The session starts, and its SessionStart hook with it.
Init ==
  /\ delivered = {} /\ new = {}
  /\ session = "idle"
  /\ rewake = FALSE
  /\ owned = TRUE
  /\ slot = None /\ fresh = FALSE
  /\ last = {} /\ attempts = 0
  /\ \E w \in Watchers :
       pc = [v \in Watchers |-> IF v = w THEN "start" ELSE "none"]
  /\ breaker = [w \in Watchers |-> FALSE]
  /\ snap = [w \in Watchers |-> {}]
  /\ ending = [w \in Watchers |-> "quiet"]
  /\ restarts = [w \in Watchers |-> 0]
  /\ faults = 0
  /\ excuse = "no" /\ retries = 0

To(w, state) == pc' = [pc EXCEPT ![w] = state]

EndsAs(w, how) == ending' = [ending EXCEPT ![w] = how]

\* _watch is over; the finally clause comes next.
Exit(w, how) ==
  /\ To(w, "clearing")
  /\ EndsAs(w, how)
  /\ snap' = [snap EXCEPT ![w] = {}]

Fault ==
  /\ faults < MaxFaults
  /\ faults' = faults + 1

\* Nobody may be left to watch; in a turn, a Stop hook is still to come.
Excuse(why) ==
  excuse' = IF session = "idle" /\ why \in {"paused", "killed"}
               /\ excuse # "uncleared"
            THEN why ELSE excuse

\* A turn begins.
Excused == excuse' = IF excuse = "uncleared" THEN excuse ELSE "no"

Running(w) == pc[w] # "none"

\* watcher_is_live
WatcherIsLive == slot # None /\ Running(slot) /\ fresh

\* update_wake's test of a claim, with _watcher_can_be_replaced
Claimable(w) == slot \in {None, w} \/ ~WatcherIsLive

\* _stop_hook_retry_exhausted
NeverExhausted(w) == FALSE                                         \* mutant
Exhausted(w) == breaker[w] /\ snap[w] = last /\ attempts >= 2

\* The process is gone.
Gone(w) ==
  /\ To(w, "none")
  /\ breaker' = [breaker EXCEPT ![w] = FALSE]
  /\ snap' = [snap EXCEPT ![w] = {}]
  /\ EndsAs(w, "quiet")
  /\ restarts' = [restarts EXCEPT ![w] = 0]

----------------------------------------------------------------------------
(* The session and its surroundings.                                       *)

\* Every message has a name of its own.
Arrive(m) ==
  /\ m \notin delivered
  /\ delivered' = delivered \cup {m}
  /\ new' = new \cup {m}
  /\ UNCHANGED <<session, rewake, owned, lease, pc, mine, faults, history>>

\* The model reads and acknowledges mail in a turn of either kind.
Drain(m) ==
  /\ session # "idle"
  /\ m \in new
  /\ new' = new \ {m}
  /\ UNCHANGED <<delivered, session, rewake, owned, lease, pc, mine, faults, history>>

UserTurn ==
  /\ session = "idle"
  /\ session' = "user"
  /\ Excused /\ retries' = 0
  /\ UNCHANGED <<delivered, new, rewake, owned, lease, pc, mine, faults>>

\* asyncRewake: the exit status 2 of a background hook begins a turn.
HookTurn ==
  /\ session = "idle"
  /\ rewake
  /\ session' = "hook"
  /\ rewake' = FALSE
  /\ Excused
  /\ UNCHANGED <<delivered, new, owned, lease, pc, mine, faults, retries>>

\* A new process: its pid is not the one a killed watcher left in the slot.
Start(w, stopHookActive) ==
  /\ ~Running(w) /\ slot # w
  /\ To(w, "start")
  /\ breaker' = [breaker EXCEPT ![w] = stopHookActive]
  /\ UNCHANGED <<snap, ending, restarts>>

\* The turn completes and the Stop hook runs; stop_hook_active tells it that
\* a hook began the turn.
StopHook(w) ==
  /\ session # "idle"
  /\ session' = "idle"
  /\ Start(w, session = "hook")
  /\ UNCHANGED <<delivered, new, rewake, owned, lease, faults, history>>

\* A compaction runs the SessionStart hook again.
SessionHook(w) ==
  /\ Start(w, FALSE)
  /\ UNCHANGED <<delivered, new, session, rewake, owned, lease, faults, history>>

\* The user interrupts the turn: no Stop hook.
Interrupt ==
  /\ session # "idle"
  /\ session' = "idle"
  /\ excuse' = IF excuse = "uncleared" THEN excuse ELSE "killed"
  /\ Fault
  /\ UNCHANGED <<delivered, new, rewake, owned, lease, pc, mine, retries>>

LoseLease ==
  /\ owned
  /\ owned' = FALSE
  /\ Fault
  /\ UNCHANGED <<delivered, new, session, rewake, lease, pc, mine, history>>

\* The watcher does not come round within DEFAULT_HEARTBEAT_TTL.
HeartbeatAges ==
  /\ fresh
  /\ fresh' = FALSE
  /\ Fault
  /\ UNCHANGED <<delivered, new, session, rewake, owned, slot, last, attempts,
                 pc, mine, history>>

----------------------------------------------------------------------------
(* _watch                                                                  *)

quiet == <<delivered, new, session, rewake, owned>>

\* A live watcher makes a hook stand down; this check, on lease as just read,
\* comes first and again after the first scan.
LookFirst(w) ==
  /\ pc[w] = "start" /\ owned
  /\ To(w, IF WatcherIsLive THEN "leaving" ELSE "seen")
  /\ UNCHANGED <<quiet, faults, lease, mine, history>>

FirstScan(w) ==
  /\ pc[w] = "seen"
  /\ snap' = [snap EXCEPT ![w] = new]
  /\ To(w, "deciding")
  /\ UNCHANGED <<quiet, faults, lease, breaker, ending, restarts, history>>

LookAgain(w) ==
  /\ pc[w] = "deciding" /\ owned
  /\ \/ WatcherIsLive /\ To(w, "leaving") /\ UNCHANGED ending
     \/ ~WatcherIsLive /\ Exhausted(w) /\ To(w, "leaving") /\ EndsAs(w, "paused")
     \/ ~WatcherIsLive /\ ~Exhausted(w) /\ To(w, "claiming") /\ UNCHANGED ending
  /\ UNCHANGED <<quiet, faults, lease, breaker, snap, restarts, history>>

\* update_wake(watcher_pid = w), then the breaker on the lease it returns,
\* then the mail of the first scan.
Claim(w) ==
  /\ pc[w] = "claiming" /\ owned /\ Claimable(w)
  /\ slot' = w /\ fresh' = TRUE
  /\ IF Exhausted(w)
     THEN Exit(w, "paused")
     ELSE /\ To(w, IF snap[w] = {} THEN "waiting" ELSE "recording")
          /\ UNCHANGED <<ending, snap>>
  /\ UNCHANGED <<quiet, faults, last, attempts, breaker, restarts, history>>

Refused(w) ==
  /\ pc[w] = "claiming" /\ owned /\ ~Claimable(w)
  /\ To(w, "refused")
  /\ UNCHANGED <<quiet, faults, lease, mine, history>>

\* Stand down when the winner is still there, or wake with a fence error.
AfterRefusal(w) ==
  /\ pc[w] = "refused" /\ owned
  /\ Exit(w, IF WatcherIsLive THEN "quiet" ELSE "wake")
  /\ UNCHANGED <<quiet, faults, lease, breaker, restarts, history>>

\* A watcher whose slot is another's is superseded.
Renew(w) ==
  /\ pc[w] = "waiting" /\ owned
  /\ IF slot = w
     THEN fresh' = TRUE /\ To(w, "scanning") /\ UNCHANGED <<ending, snap>>
     ELSE Exit(w, "quiet") /\ UNCHANGED fresh
  /\ UNCHANGED <<quiet, faults, slot, last, attempts, breaker, restarts, history>>

Scan(w) ==
  /\ pc[w] = "scanning"
  /\ snap' = [snap EXCEPT ![w] = new]
  /\ To(w, IF new = {} THEN "waiting" ELSE "recording")
  /\ UNCHANGED <<quiet, faults, lease, breaker, ending, restarts, history>>

\* A reply alarm is due, without mail: _reconcile_reply_alarms.
ReplyOverdue(w) ==
  /\ pc[w] \in {"waiting", "scanning"} /\ owned
  /\ Exit(w, "wake")
  /\ UNCHANGED <<quiet, faults, lease, breaker, restarts, history>>

\* RT_WATCHER_MAX_LIFETIME_SECONDS
RetiresSilently == "quiet"                                         \* mutant
RetireStatus == "wake"
Retire(w) ==
  /\ pc[w] = "waiting"
  /\ Exit(w, RetireStatus)
  /\ UNCHANGED <<quiet, faults, lease, breaker, restarts, history>>

AttemptsAt(w) ==
  IF snap[w] # last THEN 1
  ELSE IF attempts < MaxAttempts THEN attempts + 1 ELSE attempts

RetriesAt(w) ==
  IF snap[w] # last THEN 0
  ELSE IF breaker[w] /\ retries < MaxRetries THEN retries + 1 ELSE retries

\* update_wake(last_wake_messages, wake_attempts, expected_watcher_pid = w);
\* refused when the slot is another's, which exits 2 as well.
Record(w) ==
  /\ pc[w] = "recording" /\ owned
  /\ IF slot = w
     THEN /\ last' = snap[w] /\ attempts' = AttemptsAt(w) /\ fresh' = TRUE
          /\ retries' = RetriesAt(w)
     ELSE UNCHANGED <<last, attempts, fresh, retries>>
  /\ Exit(w, "wake")
  /\ UNCHANGED <<quiet, faults, slot, breaker, restarts, excuse>>

\* clear_wake(expected_watcher_pid = w), as a watcher ends or crashes.
ClearsAnySlot(w) == slot # None                                    \* mutant
ClearsSlot(w) == slot = w
ClearWake(w) ==
  IF owned /\ ClearsSlot(w)
  THEN slot' = None /\ fresh' = FALSE /\ UNCHANGED <<last, attempts>>
  ELSE UNCHANGED lease

Clear(w) ==
  /\ pc[w] = "clearing"
  /\ ClearWake(w)
  /\ To(w, "leaving")
  /\ UNCHANGED <<quiet, faults, mine, history>>

Leave(w) ==
  /\ pc[w] = "leaving"
  /\ rewake' = (rewake \/ ending[w] = "wake")
  /\ Gone(w)
  /\ Excuse(ending[w])
  /\ UNCHANGED <<delivered, new, session, owned, faults, lease, retries>>

\* A fenced call finds the lease lost.  The renewal ends quietly; the rest
\* raises FenceRejected, which main turns into 2.
Disowned(w) ==
  /\ ~owned
  /\ pc[w] \in (Guarded \cup Unguarded) \ {"seen", "scanning"}
  /\ Exit(w, IF pc[w] = "waiting" THEN "quiet" ELSE "wake")
  /\ UNCHANGED <<quiet, faults, lease, breaker, restarts, history>>

----------------------------------------------------------------------------
(* Deaths, and run's healing of crashes.                                   *)

\* SIGTERM, SIGINT, SIGHUP: StopRequested ends the process with status 0; in
\* the finally clause it replaces the clearing of the slot.
Terminate(w) ==
  /\ \/ pc[w] \in Guarded /\ To(w, "clearing")
     \/ pc[w] \in Unguarded \cup {"crashed", "clearing"} /\ To(w, "leaving")
  /\ EndsAs(w, "killed")
  /\ Fault
  /\ UNCHANGED <<quiet, lease, breaker, snap, restarts, history>>

\* SIGKILL
Kill(w) ==
  /\ Running(w)
  /\ Gone(w)
  /\ Excuse("killed")
  /\ Fault
  /\ UNCHANGED <<quiet, lease, retries>>

\* An exception other than FenceRejected.
Crash(w) ==
  /\ \/ pc[w] \in Guarded /\ To(w, "crashed")
     \/ pc[w] \in Unguarded /\ To(w, "healing")
  /\ snap' = [snap EXCEPT ![w] = {}]
  /\ Fault
  /\ UNCHANGED <<quiet, lease, breaker, ending, restarts, history>>

CleanUp(w) ==
  /\ pc[w] = "crashed"
  /\ ClearWake(w)
  /\ To(w, "healing")
  /\ UNCHANGED <<quiet, faults, mine, history>>

\* clear_wake fails: an OSError is a crash by itself, or takes the place of
\* the one before; a RuntimeStateError is dropped.
CleanUpFails(w) ==
  /\ DirectoryFails
  /\ Fault
  /\ \/ pc[w] \in {"crashed", "clearing"} /\ To(w, "healing")
     \/ pc[w] = "clearing" /\ To(w, "leaving")
  /\ excuse' = "uncleared"
  /\ UNCHANGED <<quiet, lease, mine, retries>>

\* The lease still holds and restarts remain: _watch begins again.
Heal(w) ==
  /\ pc[w] = "healing" /\ owned /\ restarts[w] < MaxRestarts
  /\ restarts' = [restarts EXCEPT ![w] = @ + 1]
  /\ EndsAs(w, "quiet")
  /\ To(w, "start")
  /\ UNCHANGED <<quiet, faults, lease, breaker, snap, history>>

\* No restarts remain, or the lease is lost or cannot be read.  The exception
\* is raised: main exits 2 for the known kinds, Python 1.
GiveUp(w) ==
  /\ pc[w] = "healing"
  /\ ~owned \/ restarts[w] = MaxRestarts \/ DirectoryFails
  /\ To(w, "leaving")
  /\ \E how \in {"wake", "killed"} : EndsAs(w, how)
  /\ UNCHANGED <<quiet, faults, lease, breaker, snap, restarts, history>>

----------------------------------------------------------------------------

\* What a running watcher does next by itself.
Proceed(w) ==
  \/ LookFirst(w) \/ FirstScan(w) \/ LookAgain(w)
  \/ Claim(w) \/ Refused(w) \/ AfterRefusal(w)
  \/ Renew(w) \/ Scan(w) \/ Record(w) \/ Clear(w) \/ Leave(w)
  \/ Disowned(w) \/ CleanUp(w) \/ Heal(w) \/ GiveUp(w)

Next ==
  \/ \E m \in Mail : Arrive(m) \/ Drain(m)
  \/ UserTurn \/ HookTurn \/ Interrupt \/ LoseLease \/ HeartbeatAges
  \/ \E w \in Watchers :
       \/ StopHook(w) \/ SessionHook(w) \/ Proceed(w)
       \/ ReplyOverdue(w) \/ Retire(w)
       \/ Terminate(w) \/ Kill(w) \/ Crash(w) \/ CleanUpFails(w)

Spec == Init /\ [][Next]_vars

\* A process runs until it exits, and Claude Code heeds an exit status of 2.
\* Nobody has to write mail, take a turn, end one, or fail.
FairSpec ==
  Spec /\ WF_vars(HookTurn) /\ \A w \in Watchers : WF_vars(Proceed(w))

----------------------------------------------------------------------------
(* Properties.                                                             *)

\* "Automatic re-wake pauses to prevent a model-turn loop": without a turn of
\* the user's, a generation is retried once, and once more for each other hook
\* that scanned new/ before it arrived, however hooks overlap, crash and heal.
BoundedRetries == retries <= Cardinality(Watchers)

\* "A superseded watcher must never clear its successor's wake state": the
\* slot leaves a watcher only when that watcher itself is clearing it, or has
\* ended or fallen silent.
SlotHandover ==
  (slot # None /\ slot' # slot) =>
    \/ ~Running(slot) \/ ~fresh
    \/ pc[slot] \in {"clearing", "crashed"}

SlotNotStolen == [][SlotHandover]_vars

\* An idle session with mail hears of it, whatever the watchers crash and heal
\* from: a turn begins unless the breaker has paused, the watcher or the turn
\* was killed, a watcher could not clear its slot, or the lease is lost.
Notified ==
  (session = "idle" /\ new # {})
    ~> (session # "idle" \/ new = {} \/ excuse # "no" \/ ~owned)
=============================================================================
