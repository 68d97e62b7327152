---------------------------- MODULE CodexBinding ----------------------------
(***************************************************************************)
(* Which Codex thread the mail of a project wakes.  A launcher claims a    *)
(* lease and arms an intent; the SessionStart hook of a thread takes the   *)
(* intent and leaves a bind request, one file per lease; the wake bridge   *)
(* binds the threads of the requests, and wakes the bound thread.  Threads *)
(* are cleared and forked, leases end, users bind and unbind by hand,      *)
(* hooks and the bridge die.                                               *)
(* Source: rt-codex-wake, rt-codex-session-start, the launch intent of     *)
(* _rtruntime.py.                                                          *)
(***************************************************************************)
EXTENDS Naturals, FiniteSets

CONSTANTS
  MaxLease,     \* bound: launches
  MaxThread,    \* bound: Codex threads
  MaxHand,      \* bound: binds and unbinds by hand
  MaxKill,      \* bound: processes killed
  MaxEvent,     \* bound: threads opened, hooks that wait and processes killed,
                \* together
  Killable      \* which may be: "hook", "bridge"

ASSUME BindingAssumption ==
  /\ MaxLease \in Nat \ {0} /\ MaxThread \in Nat \ {0}
  /\ {MaxHand, MaxKill, MaxEvent} \subseteq Nat
  /\ Killable \subseteq {"hook", "bridge"}

Leases == 1..MaxLease
Threads == 1..MaxThread

VARIABLES
  lease,      \* the live lease of the seat (0: none)
  record,     \* the lease its record holds, that of a dead owner too
  launches,
  tui,        \* the thread the user sees (0: none)
  kind,       \* "unborn", "root", "child" of a root, or "exec": a sub-agent or
              \* another source that is no TUI
  hooks,      \* SessionStart hooks that wait for bind_request_guard
  hook,       \* the one that holds it
  intent,     \* the launch intent: its lease and its active thread
  queue,      \* the bind request of each lease
  binding,    \* the stored binding; n tells apart the revisions made by hand
  phase,      \* is the project stored as BIND_QUARANTINED?
  held,       \* bind_quarantined, the bridge's own memory of it: 0, or (the
              \* code keeps the project only) the lease it came from
  br,         \* the bridge: its iteration, the request it read, what it bound
  binder,     \* the binding that rt-codex-wake bind is about to store
  mail,       \* is mail pending?
  hand, kills,
  current,    \* history: the threads requested for each lease since its last
              \* clear, the clear's own among them
  late        \* history: leases whose last request this iteration leaves to
              \* the next one: published too late for it, deferred by it, or
              \* there in the place of one it refused

vars == <<lease, record, launches, tui, kind, hooks, hook, intent, queue,
          binding, phase, held, br, binder, mail, hand, kills, current, late>>
Seat == <<lease, record, launches, tui, kind>>
Requests == <<hooks, hook, queue, current>>
Stored == <<binding, phase>>
Bounds == <<binder, hand, kills>>

NoHook == [thread |-> 0, source |-> "none", lease |-> 0]
NoRequest == [thread |-> 0, source |-> "none"]
NoBinding == [thread |-> 0, lease |-> 0, by |-> "none", n |-> 0]
NoIntent == [lease |-> 0, active |-> 0]
At(pc) == [pc |-> pc, todo |-> {}, lease |-> 0, req |-> NoRequest,
           bound |-> NoBinding]

Init ==
  /\ lease = 0 /\ record = 0 /\ launches = 0 /\ tui = 0
  /\ kind = [t \in Threads |-> "unborn"]
  /\ hooks = {} /\ hook = NoHook /\ intent = NoIntent
  /\ queue = [l \in Leases |-> NoRequest]
  /\ binding = NoBinding /\ phase = FALSE /\ held = 0
  /\ br = At("off") /\ binder = NoBinding
  /\ mail = FALSE /\ hand = 0 /\ kills = 0
  /\ current = [l \in Leases |-> {}] /\ late = {}

-----------------------------------------------------------------------------
(* The user and his threads.                                               *)

Events == Cardinality({t \in Threads: kind[t] # "unborn"}) + Cardinality(hooks)
          + kills

\* Thread t, the next one, is born and dispatches its hook.
Born(t, k, source) ==
  /\ Events < MaxEvent
  /\ kind[t] = "unborn" /\ \A u \in 1..(t - 1): kind[u] # "unborn"
  /\ kind' = [kind EXCEPT ![t] = k]
  /\ hooks' = hooks \cup {[thread |-> t, source |-> source, born |-> launches']}

\* Mutant: the guard takes no lock.
GuardedNot == FALSE
\* seat_shared_guard: the bridge or a bind by hand holds claim.lock shared.  The
\* lock keeps claims, releases and changes of the intent out; it does not keep
\* the owner alive.
Guarded == br.pc \in {"guard", "mark", "adopt"} \/ binder # NoBinding

\* A launch claims the seat, arms the intent, and opens a new thread or an old
\* one.
Launch ==
  /\ lease = 0 /\ launches < MaxLease /\ ~Guarded
  /\ launches' = launches + 1 /\ lease' = launches' /\ record' = launches'
  /\ intent' = [lease |-> lease', active |-> 0]
  /\ \E t \in Threads:
       /\ tui' = t
       /\ \/ Born(t, "root", "startup")
          \/ /\ kind[t] = "root" /\ Events < MaxEvent /\ UNCHANGED kind
             /\ hooks' = hooks \cup
                  {[thread |-> t, source |-> "resume", born |-> launches]}
  /\ UNCHANGED <<hook, queue, current, Stored, held, br, mail, Bounds, late>>

\* The session ends: the launcher releases the lease, or its owner dies.
Close ==
  /\ lease # 0 /\ lease' = 0 /\ tui' = 0
  /\ \/ ~Guarded /\ record' = 0
     \/ UNCHANGED record
  /\ UNCHANGED <<launches, kind, Requests, intent, Stored, held, br, mail,
                 Bounds, late>>

\* /clear goes on in a new thread; /btw forks a child, and a turn starts
\* sub-agents: their hooks may tell them from a root by nothing.
Clear ==
  /\ tui # 0
  /\ UNCHANGED <<record, launches>>
  /\ \E t \in Threads: Born(t, "root", "clear") /\ tui' = t
  /\ UNCHANGED <<lease, hook, queue, current, intent, Stored, held, br,
                 mail, Bounds, late>>

Fork ==
  /\ tui # 0
  /\ UNCHANGED launches
  /\ \E t \in Threads, k \in {"child", "exec"}: Born(t, k, "startup")
  /\ UNCHANGED <<lease, record, tui, hook, queue, current, intent, Stored,
                 held, br, mail, Bounds, late>>

Mail ==
  /\ ~mail /\ mail' = TRUE
  /\ UNCHANGED <<Seat, Requests, intent, Stored, held, br, Bounds, late>>

Seated == lease # 0

\* bind_command, from a turn of the thread the user sees: the lease is found
\* alive as the guard is taken, and the binding stored after that.
HandGuard ==
  /\ Seated /\ binder = NoBinding /\ hand < MaxHand /\ hand' = hand + 1
  /\ binder' = [thread |-> tui, lease |-> lease, by |-> "hand", n |-> hand']
  /\ UNCHANGED <<Seat, Requests, intent, Stored, held, br, mail, kills, late>>

BindByHand ==
  /\ binder # NoBinding /\ binder' = NoBinding
  /\ binding' = binder /\ phase' = FALSE
  /\ UNCHANGED <<Seat, Requests, intent, held, br, mail, hand, kills, late>>

\* unbind_command; and handoff_command, which wants the seat inactive and drops
\* the intent too.
Unbind ==
  /\ binding # NoBinding \/ phase
  /\ hand < MaxHand /\ hand' = hand + 1
  /\ binding' = NoBinding /\ phase' = FALSE
  /\ \/ UNCHANGED intent
     \/ lease = 0 /\ ~Guarded /\ binding # NoBinding /\ intent' = NoIntent
  /\ UNCHANGED <<Seat, Requests, held, br, binder, mail, kills, late>>

-----------------------------------------------------------------------------
(* The hook: it takes the intent and publishes, under bind_request_guard.  *)

\* Mutant: a thread that is not the active one may take the intent.
AcceptsAny(h) ==
  intent.lease = lease /\ lease # 0 /\ (intent.active = 0 => h.source # "clear")

\* resolve_codex_launch_intent: the lease must live; the first thread takes the
\* intent, if it was opened again or born within the window of this launch; then
\* only a clear moves it on.
Accepts(h) ==
  /\ intent.lease = lease /\ lease # 0
  /\ IF intent.active = 0
     THEN h.source = "resume" \/ (h.source = "startup" /\ h.born = launches)
     ELSE h.source = "clear" \/ intent.active = h.thread

Resolve ==
  /\ hook = NoHook /\ ~Guarded
  /\ \E h \in hooks:
       /\ hooks' = hooks \ {h}
       /\ IF Accepts(h)
          THEN /\ intent' = [intent EXCEPT !.active = h.thread]
               /\ hook' = [thread |-> h.thread, source |-> h.source,
                           lease |-> lease]
          ELSE UNCHANGED <<intent, hook>>
  /\ UNCHANGED <<Seat, queue, current, Stored, held, br, mail, Bounds, late>>

\* The bridge will still come to the request of lease l in this iteration.
Ahead(l) == l \in br.todo \/ (br.lease = l /\ br.pc \notin {"release", "adopt"})

\* A clear replaces the request that is there; any other leaves it.
Publish ==
  /\ hook # NoHook /\ hook' = NoHook
  /\ IF hook.source = "clear" \/ queue[hook.lease] = NoRequest
     THEN /\ queue' = [queue EXCEPT ![hook.lease] =
                 [thread |-> hook.thread, source |-> hook.source]]
          /\ current' = [current EXCEPT ![hook.lease] =
                 {hook.thread} \cup IF hook.source = "clear" THEN {} ELSE @]
          /\ late' = IF Ahead(hook.lease) THEN late ELSE late \cup {hook.lease}
     ELSE UNCHANGED <<queue, current, late>>
  /\ UNCHANGED <<Seat, hooks, intent, Stored, held, br, mail, Bounds>>

Kill(process) ==
  /\ process \in Killable /\ kills < MaxKill /\ Events < MaxEvent
  /\ kills' = kills + 1

HookKilled ==
  /\ Kill("hook")
  /\ hook # NoHook /\ hook' = NoHook
  /\ UNCHANGED <<Seat, hooks, queue, current, intent, Stored, held, br, binder,
                 mail, hand, late>>

-----------------------------------------------------------------------------
(* The bridge drains the requests, then steps the project.                 *)

Free == /\ UNCHANGED <<Seat, hooks, hook, current, Bounds>>
Goto(pc) == br' = [br EXCEPT !.pc = pc]

Connect ==
  /\ br.pc = "off" /\ br' = At("idle") /\ held' = 0
  /\ UNCHANGED <<queue, intent, Stored, mail, late>> /\ Free

\* Killed, or its connection lost.
BridgeKilled ==
  /\ Kill("bridge")
  /\ br.pc # "off" /\ br' = At("off") /\ held' = 0 /\ late' = {}
  /\ UNCHANGED <<Seat, Requests, intent, Stored, binder, mail, hand>>

List ==
  /\ br.pc = "idle"
  /\ br' = [At("drain") EXCEPT !.todo = {l \in Leases: queue[l] # NoRequest}]
  /\ late' = {}
  /\ UNCHANGED <<queue, intent, Stored, held, mail>> /\ Free

\* _read_bind_request
Read ==
  /\ br.pc = "drain"
  /\ \E l \in br.todo:
       br' = IF queue[l] = NoRequest THEN [br EXCEPT !.todo = @ \ {l}]
             ELSE [br EXCEPT !.todo = @ \ {l}, !.pc = "bind", !.lease = l,
                             !.req = queue[l]]
  /\ UNCHANGED <<queue, intent, Stored, held, mail, late>> /\ Free

Drained ==
  /\ br.pc = "drain" /\ br.todo = {} /\ br' = At("step")
  /\ UNCHANGED <<queue, intent, Stored, held, mail, late>> /\ Free

\* The lease of the request lives.
Fenced == br.lease = lease

\* seat_shared_guard checks the lease as it takes the lock.
BindGuard ==
  /\ br.pc = "bind" /\ Fenced /\ Goto("guard")
  /\ UNCHANGED <<queue, intent, Stored, held, mail, late>> /\ Free

SameFence == binding.lease = br.lease
\* A lease that binds one thread takes another only from a clear.
Taken == /\ SameFence /\ binding.thread # br.req.thread
         /\ br.req.source # "clear"

\* bind_from_request, once the app-server has described the thread; a replay of
\* the stored binding changes nothing.
Bind ==
  /\ br.pc = "guard"
  /\ kind[br.req.thread] = "root" /\ ~Taken
  /\ IF SameFence /\ binding.thread = br.req.thread THEN UNCHANGED Stored
     ELSE /\ binding' = [thread |-> br.req.thread, lease |-> br.lease,
                         by |-> "request", n |-> 0]
          /\ phase' = FALSE
  /\ br' = [br EXCEPT !.pc = "mark", !.bound = binding']
  /\ UNCHANGED <<queue, intent, held, mail, late>> /\ Free

\* The app-server does not answer: the request stays for the next iteration.
Defer ==
  /\ br.pc = "guard"
  /\ br' = [At("drain") EXCEPT !.todo = br.todo]
  /\ late' = late \cup {br.lease}
  /\ UNCHANGED <<queue, intent, Stored, held, mail>> /\ Free

\* Mutant: the path is unlinked whatever it holds by now.
SameFileNot == TRUE
\* _consume_bind_request unlinks only the file that was read.
SameFile == queue[br.lease] \in {br.req, NoRequest}
Unlinked == [queue EXCEPT ![br.lease] = NoRequest]

Done == [At("drain") EXCEPT !.todo = br.todo]

\* Mutant: the bridge forgets to lift its own quarantine.
LiftedNot == held
Lifted == 0

Consume ==
  /\ br.pc = "consume"
  /\ IF SameFile THEN /\ queue' = Unlinked /\ held' = Lifted /\ br' = Done
     ELSE held' = br.lease /\ Goto("quarantine") /\ UNCHANGED queue
  /\ UNCHANGED <<intent, Stored, mail, late>> /\ Free

\* Mutant: the binding goes whatever its revision.
SameRevisionNot == binding # NoBinding
SameRevision == binding = br.bound

\* quarantine_binding_if_revision
Quarantine ==
  /\ br.pc = "quarantine" /\ br' = Done
  /\ IF SameRevision THEN binding' = NoBinding /\ phase' = TRUE
     ELSE UNCHANGED Stored
  /\ UNCHANGED <<queue, intent, held, mail, late>> /\ Free

\* A refused request goes; one that has replaced it meanwhile waits.
Refused == /\ queue' = IF SameFile THEN Unlinked ELSE queue
           /\ late' = IF SameFile THEN late ELSE late \cup {br.lease}

\* update_wake under the guard: if the owner has died meanwhile the request is
\* refused, and the binding stays.
Mark ==
  /\ br.pc = "mark"
  /\ IF Fenced THEN Goto("consume") /\ UNCHANGED <<queue, late>>
     ELSE Refused /\ br' = Done
  /\ UNCHANGED <<intent, Stored, held, mail>> /\ Free

\* The lease is gone, it binds another thread, or the source of the thread is no
\* TUI: then the intent the thread took stays with it.
Reject ==
  /\ \/ br.pc = "bind" /\ ~Fenced
     \/ br.pc = "guard" /\ kind[br.req.thread] = "root" /\ Taken
     \/ br.pc = "guard" /\ kind[br.req.thread] = "exec"
  /\ Refused /\ br' = Done
  /\ UNCHANGED <<intent, Stored, held, mail>> /\ Free

\* A child never becomes a seat: its request goes, and then the intent is
\* handed back.
Ephemeral ==
  /\ br.pc = "guard" /\ kind[br.req.thread] = "child"
  /\ Refused /\ Goto("release")
  /\ UNCHANGED <<intent, Stored, held, mail>> /\ Free

\* Mutant: nothing is handed back.
ReleasedNot == intent
Released == IF intent.active = br.req.thread THEN [intent EXCEPT !.active = 0]
            ELSE intent

Release ==
  /\ br.pc = "release" /\ ~Guarded /\ intent' = Released /\ br' = Done
  /\ UNCHANGED <<queue, Stored, held, mail, late>> /\ Free

Blocked == held # 0 \/ phase
Stale == binding # NoBinding /\ binding.lease # lease /\ lease # 0

\* _adopt_stale_binding, from _thread_for or heartbeat_bound_seats: the thread
\* of a dead lease is moved to the live one, if it is still the one bound.
AdoptGuard ==
  /\ br.pc = "step" /\ ~Blocked /\ Stale
  /\ br' = [br EXCEPT !.pc = "adopt", !.lease = lease, !.bound = binding]
  /\ UNCHANGED <<queue, intent, Stored, held, mail, late>> /\ Free

Adopt ==
  /\ br.pc = "adopt" /\ br' = At("wake")
  /\ IF binding.thread = br.bound.thread /\ ~SameFence
     THEN /\ binding' = [binding EXCEPT !.lease = br.lease, !.by = "adopted",
                                        !.n = 0]
          /\ phase' = FALSE
     ELSE UNCHANGED Stored
  /\ UNCHANGED <<queue, intent, held, mail, late>> /\ Free

\* The wake turn of the bound thread drains the inbox.
Wake ==
  /\ br.pc \in {"step", "wake"} /\ ~Blocked /\ mail
  /\ binding # NoBinding /\ binding.lease = lease
  /\ mail' = FALSE /\ br' = At("idle") /\ late' = {}
  /\ UNCHANGED <<queue, intent, Stored, held>> /\ Free

\* Nothing to do, or nothing that can be done; or the app-server fails.
Skip ==
  /\ br.pc \in {"step", "wake"} /\ br' = At("idle") /\ late' = {}
  /\ UNCHANGED <<queue, intent, Stored, held, mail>> /\ Free

Hooks == Resolve \/ Publish
Draining == \/ BindGuard \/ Bind \/ Mark \/ Consume \/ Quarantine
            \/ Reject \/ Ephemeral \/ Release
Bridge == \/ Connect \/ List \/ Read \/ Drained \/ Draining
          \/ AdoptGuard \/ Adopt \/ Wake
Next == \/ Launch \/ Close \/ Clear \/ Fork \/ Mail
        \/ HandGuard \/ BindByHand \/ Unbind
        \/ Hooks \/ HookKilled \/ BridgeKilled \/ Bridge \/ Defer \/ Skip

Spec == Init /\ [][Next]_vars

\* A hook or a bind that has its lock goes on, and so does the bridge: the
\* app-server answers for ever again.
Fairness ==
  /\ WF_vars(Publish) /\ WF_vars(BindByHand)
  /\ WF_vars(Connect \/ List \/ Read \/ Drained \/ BindGuard \/ Mark \/ Consume
             \/ Quarantine \/ Reject \/ Release \/ Adopt \/ Skip)
  /\ SF_vars(Bind \/ Ephemeral) /\ SF_vars(Wake)
FairSpec == Spec /\ Fairness

-----------------------------------------------------------------------------
(* Properties.                                                             *)

\* Every variable keeps its type.
TypeOK ==
  /\ lease \in 0..MaxLease /\ launches \in 0..MaxLease /\ tui \in 0..MaxThread
  /\ record \in {0, launches} /\ lease \in {0, record}
  /\ kind \in [Threads -> {"unborn", "root", "child", "exec"}]
  /\ hooks \subseteq [thread: Threads, source: {"startup", "resume", "clear"},
                      born: 0..MaxLease]
  /\ hook \in {NoHook} \cup
       [thread: Threads, source: {"startup", "resume", "clear"}, lease: Leases]
  /\ intent \in [lease: 0..MaxLease, active: 0..MaxThread]
  /\ queue \in [Leases -> {NoRequest} \cup
                [thread: Threads, source: {"startup", "resume", "clear"}]]
  /\ {binding, binder} \subseteq {NoBinding} \cup
       [thread: Threads, lease: Leases, by: {"request", "hand", "adopted"},
        n: 0..MaxHand]
  /\ {phase, mail} \subseteq BOOLEAN /\ held \in 0..MaxLease
  /\ br.pc \in {"off", "idle", "drain", "bind", "guard", "mark", "consume",
                "quarantine", "release", "step", "adopt", "wake"}
  /\ br.todo \subseteq Leases /\ br.lease \in 0..MaxLease
  /\ br.pc \in {"bind", "guard", "mark", "consume", "quarantine", "release",
                "adopt"} => br.lease # 0
  /\ current \in [Leases -> SUBSET Threads] /\ late \subseteq Leases

\* A thread bound by its request is woken only while nothing has superseded it:
\* it was requested since the last clear of its lease, or is the clear's own.
\* So even a clear that lands between the read of an older request and the
\* binding or the removal of that one keeps the older thread from the wake.
\* Exempt is a clear this iteration leaves to the next one (late).
NeverWakeSuperseded ==
  [][mail /\ ~mail' /\ binding.by = "request"
     => \/ binding.thread \in current[binding.lease]
        \/ binding.lease \in late]_vars

\* A clear moves the binding on: its request is bound, or has replaced the
\* request of the bound thread.
ByClear ==
  \/ br.req.source = "clear" /\ binding'.by = "request"
  \/ queue[binding.lease].source = "clear" /\ br.req.thread = binding.thread

\* What the user bound by hand stays bound, until he binds or unbinds again,
\* clears, or launches anew: neither the request of another start nor the
\* quarantine of an earlier binding takes it away.
HandBindingKept ==
  [][binding.by = "hand" /\ binding' # binding
     => \/ binding'.by = "hand" \/ hand' # hand \/ ByClear
        \/ binding'.lease # binding.lease /\ binding' # NoBinding]_vars

\* However old the request and however long the app-server takes, a thread is
\* bound only to the lease that the seat's record holds.  The owner may have
\* died since the guard found it alive; but the lease was not released, and no
\* other launch has claimed the seat.
NeverBindsReplacedLease ==
  [][binding' \notin {binding, NoBinding} => binding'.lease = record]_vars

\* The request that waits for a live lease is of the thread that owns its
\* intent: two hooks never leave the two in opposite orders, unless one is
\* killed between them.
QueueFollowsIntent ==
  lease # 0 /\ hook = NoHook /\ intent.lease = lease /\ queue[lease] # NoRequest
  => queue[lease].thread = intent.active \/ kills # 0

\* A child that took the intent of a live lease does not keep it; as long as
\* nothing is killed.  (A sub-agent or exec source does: Reject.)
Stranded == /\ lease # 0 /\ intent.lease = lease /\ intent.active \in Threads
            /\ kind[intent.active] = "child"
HandedBack == Stranded /\ kills = 0 ~> ~Stranded \/ kills # 0

\* Mail for a thread bound by hand to the live lease wakes it: a quarantine that
\* the bridge remembers from this lease is lifted.  One from an earlier lease
\* may outlive the request that would have lifted it, and is exempt.
Routed == /\ mail /\ lease # 0 /\ binding.by = "hand" /\ binding.lease = lease
          /\ held \in {0, lease}
ManualBindRoutes == Routed ~> ~Routed

\* The first turn of a thread binds it: the request of a live launch is rejected
\* for no other binding than one made by hand.
FreshThreadBinds ==
  [][Reject /\ Fenced /\ kind[br.req.thread] = "root"
     => binding.by = "hand"]_vars
=============================================================================
