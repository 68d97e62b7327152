------------------------- MODULE CodexBindingProofs -------------------------
(***************************************************************************)
(* Proofs about CodexBinding: which thread the mail of a project wakes.    *)
(***************************************************************************)
EXTENDS CodexBinding, TLAPS

Sources == {"startup", "resume", "clear"}
Reqs == [thread : Threads, source : Sources]
Bindings == [thread : Threads, lease : Leases,
             by : {"request", "hand", "adopted"}, n : 0..MaxHand]
Waiting == [thread : Threads, source : Sources, born : 0..MaxLease]
Holding == [thread : Threads, source : Sources, lease : Leases]

\* Where the bridge has a request in hand, where it holds claim.lock, and where
\* it may be.
Busy == {"bind", "guard", "mark", "consume", "quarantine", "release"}
Guards == {"guard", "mark", "adopt"}
Places == Busy \cup {"off", "idle", "drain", "step", "adopt", "wake"}
Kinds == {"unborn", "root", "child", "exec"}
Bridges == [pc : Places, todo : SUBSET Leases, lease : 0..MaxLease,
            req : Reqs \cup {NoRequest}, bound : Bindings \cup {NoBinding}]

\* Every variable keeps its type, no lease is ahead of the launches, and who
\* holds claim.lock shared is about the lease of the record.
BindingTypes ==
  /\ lease \in 0..MaxLease /\ launches \in 0..MaxLease /\ tui \in 0..MaxThread
  /\ kind \in [Threads -> Kinds]
  /\ hooks \subseteq Waiting
  /\ hook \in {NoHook} \cup Holding
  /\ intent \in [lease : 0..MaxLease, active : 0..MaxThread]
  /\ queue \in [Leases -> {NoRequest} \cup Reqs]
  /\ binding \in {NoBinding} \cup Bindings
  /\ phase \in BOOLEAN /\ held \in 0..MaxLease /\ mail \in BOOLEAN
  /\ br \in Bridges
  /\ hand \in 0..MaxHand /\ kills \in Nat
  /\ current \in [Leases -> SUBSET Threads] /\ late \subseteq Leases
  /\ record \in {0, launches} /\ lease \in {0, record}
  /\ lease # 0 => tui # 0
  /\ intent.lease <= launches /\ binding.lease <= launches
  /\ br.pc \in Busy => br.lease # 0 /\ br.lease <= launches /\ br.req \in Reqs
  /\ br.pc \notin Busy \cup {"adopt"} => br.lease = 0
  /\ br.pc \notin Busy \cup {"drain"} => br.todo = {}
  /\ br.pc \in Guards => br.lease = record /\ br.lease # 0
  /\ br.pc = "adopt" => br.bound \in Bindings
  /\ binder \in {NoBinding} \cup Bindings
  /\ binder # NoBinding =>
       binder.by = "hand" /\ binder.lease = record /\ record # 0

-----------------------------------------------------------------------------
(* What each step does to the bridge.                                      *)

Moved(pc, todo, l) ==
  br' \in Bridges /\ br'.pc = pc /\ br'.todo = todo /\ br'.lease = l
InHand == br'.req = br.req /\ br'.bound = br.bound

\* The numbers of leases and threads.
LEMMA Numbers ==
  /\ 0 \in 0..MaxLease /\ 0 \in 0..MaxThread /\ 0 \in 0..MaxHand
  /\ \A l \in Leases : l \in 0..MaxLease /\ l # 0 /\ l \in Nat
  /\ \A l \in 0..MaxLease : l \in Nat /\ (l # 0 => l \in Leases)
  /\ \A t \in Threads : t \in 0..MaxThread /\ t # 0
  /\ \A t \in 0..MaxThread : t # 0 => t \in Threads
<1>1. MaxLease \in Nat /\ MaxLease # 0 /\ MaxThread \in Nat /\ MaxThread # 0
      /\ MaxHand \in Nat
  BY BindingAssumption
<1> QED
  BY <1>1 DEF Leases, Threads

\* The records of requests, bindings and bridges.
LEMMA Records ==
  /\ NoRequest.thread = 0 /\ NoRequest.source = "none"
  /\ NoHook.thread = 0 /\ NoHook.lease = 0
  /\ NoBinding.thread = 0 /\ NoBinding.lease = 0 /\ NoBinding.by = "none"
  /\ NoRequest \notin Reqs /\ NoHook \notin Holding
  /\ NoBinding \notin Bindings
  /\ \A pc \in Places : /\ At(pc) \in Bridges /\ At(pc).pc = pc
                        /\ At(pc).todo = {} /\ At(pc).lease = 0
<1>1. /\ NoRequest.thread = 0 /\ NoRequest.source = "none"
      /\ NoHook.thread = 0 /\ NoHook.lease = 0
      /\ NoBinding.thread = 0 /\ NoBinding.lease = 0 /\ NoBinding.by = "none"
  BY DEF NoRequest, NoHook, NoBinding
<1>2. NoRequest \notin Reqs /\ NoHook \notin Holding
      /\ NoBinding \notin Bindings
  BY <1>1, Numbers DEF Reqs, Holding, Bindings
<1>3. ASSUME NEW pc \in Places
      PROVE  /\ At(pc) \in Bridges /\ At(pc).pc = pc
             /\ At(pc).todo = {} /\ At(pc).lease = 0
  BY Numbers DEF At, Bridges
<1> QED
  BY <1>1, <1>2, <1>3

\* What a bridge that goes on, or is done with a request, keeps.
LEMMA Goings ==
  ASSUME br \in Bridges
  PROVE  /\ Done \in Bridges /\ Done.pc = "drain" /\ Done.todo = br.todo
         /\ Done.lease = 0
         /\ \A pc \in Places :
              Goto(pc) => Moved(pc, br.todo, br.lease) /\ InHand
<1>1. /\ Done \in Bridges /\ Done.pc = "drain" /\ Done.todo = br.todo
      /\ Done.lease = 0
  <2>1. At("drain") \in Bridges /\ At("drain").lease = 0
        /\ At("drain").pc = "drain"
    BY Records DEF Places
  <2>2. br.todo \in SUBSET Leases
    BY DEF Bridges
  <2> QED
    BY <2>1, <2>2 DEF Done, Bridges
<1>2. ASSUME NEW pc \in Places, Goto(pc)
      PROVE  Moved(pc, br.todo, br.lease) /\ InHand
  BY <1>2 DEF Goto, Moved, InHand, Bridges
<1> QED
  BY <1>1, <1>2

\* Where each step takes the bridge, and what it has in hand there.
LEMMA Moves ==
  ASSUME BindingTypes
  PROVE
    /\ Connect => br.pc = "off" /\ Moved("idle", {}, 0)
    /\ BridgeKilled => Moved("off", {}, 0)
    /\ List => /\ br.pc = "idle"
               /\ Moved("drain", {l \in Leases : queue[l] # NoRequest}, 0)
    /\ Read => /\ br.pc = "drain"
               /\ \E l \in br.todo :
                    \/ queue[l] = NoRequest /\ Moved("drain", br.todo \ {l}, 0)
                    \/ /\ queue[l] # NoRequest
                       /\ Moved("bind", br.todo \ {l}, l) /\ br'.req = queue[l]
    /\ Drained => br.pc = "drain" /\ br.todo = {} /\ Moved("step", {}, 0)
    /\ BindGuard => /\ br.pc = "bind" /\ br.lease = lease
                    /\ Moved("guard", br.todo, br.lease) /\ InHand
    /\ Defer => br.pc = "guard" /\ Moved("drain", br.todo, 0)
    /\ Mark => /\ br.pc = "mark"
               /\ Fenced => Moved("consume", br.todo, br.lease) /\ InHand
               /\ ~Fenced => Moved("drain", br.todo, 0)
    /\ Consume => /\ br.pc = "consume"
                  /\ SameFile => Moved("drain", br.todo, 0)
                  /\ ~SameFile =>
                       Moved("quarantine", br.todo, br.lease) /\ InHand
    /\ Quarantine => br.pc = "quarantine" /\ Moved("drain", br.todo, 0)
    /\ Reject => br.pc \in {"bind", "guard"} /\ Moved("drain", br.todo, 0)
    /\ Ephemeral => /\ br.pc = "guard"
                    /\ Moved("release", br.todo, br.lease) /\ InHand
    /\ Release => br.pc = "release" /\ Moved("drain", br.todo, 0)
    /\ AdoptGuard => /\ br.pc = "step" /\ lease # 0
                     /\ Moved("adopt", {}, lease)
                     /\ br'.bound = binding /\ binding \in Bindings
    /\ Adopt => br.pc = "adopt" /\ Moved("wake", {}, 0)
    /\ Wake => br.pc \in {"step", "wake"} /\ Moved("idle", {}, 0)
    /\ Skip => br.pc \in {"step", "wake"} /\ Moved("idle", {}, 0)
<1>0. br \in Bridges
  BY DEF BindingTypes
<1>1. /\ Connect => br.pc = "off" /\ Moved("idle", {}, 0)
      /\ BridgeKilled => Moved("off", {}, 0)
      /\ Drained => br.pc = "drain" /\ br.todo = {} /\ Moved("step", {}, 0)
      /\ Wake => br.pc \in {"step", "wake"} /\ Moved("idle", {}, 0)
      /\ Skip => br.pc \in {"step", "wake"} /\ Moved("idle", {}, 0)
  BY Records DEF Connect, BridgeKilled, Drained, Wake, Skip, Moved, Places
<1>2. ASSUME List
      PROVE  /\ br.pc = "idle"
             /\ Moved("drain", {l \in Leases : queue[l] # NoRequest}, 0)
  <2> DEFINE S == {l \in Leases : queue[l] # NoRequest}
  <2>1. br' = [At("drain") EXCEPT !.todo = S] /\ S \in SUBSET Leases
        /\ br.pc = "idle"
    BY <1>2 DEF List
  <2>2. At("drain") \in Bridges /\ At("drain").lease = 0
        /\ At("drain").pc = "drain"
    BY Records DEF Places
  <2> HIDE DEF S
  <2>3. Moved("drain", S, 0)
    BY <2>1, <2>2 DEF Bridges, Moved
  <2> QED
    BY <2>1, <2>3 DEF S
<1>3. ASSUME Read
      PROVE  /\ br.pc = "drain"
             /\ \E l \in br.todo :
                  \/ queue[l] = NoRequest /\ Moved("drain", br.todo \ {l}, 0)
                  \/ /\ queue[l] # NoRequest
                     /\ Moved("bind", br.todo \ {l}, l) /\ br'.req = queue[l]
  <2>1. br.pc = "drain" /\ br.lease = 0
    BY <1>3 DEF Read, BindingTypes, Busy
  <2>2. PICK l \in br.todo :
          br' = IF queue[l] = NoRequest THEN [br EXCEPT !.todo = @ \ {l}]
                ELSE [br EXCEPT !.todo = @ \ {l}, !.pc = "bind", !.lease = l,
                                !.req = queue[l]]
    BY <1>3 DEF Read
  <2>3. l \in Leases /\ l \in 0..MaxLease /\ br.todo \in SUBSET Leases
        /\ br.todo \ {l} \in SUBSET Leases
        /\ queue[l] \in {NoRequest} \cup Reqs
    BY <1>0, Numbers DEF Bridges, BindingTypes
  <2>4. CASE queue[l] = NoRequest
    <3>1. br' = [br EXCEPT !.todo = br.todo \ {l}]
      BY <1>0, <2>2, <2>4 DEF Bridges
    <3>2. Moved("drain", br.todo \ {l}, 0)
      BY <1>0, <2>1, <2>3, <3>1 DEF Bridges, Moved
    <3> QED
      BY <2>1, <2>4, <3>2
  <2>5. CASE queue[l] # NoRequest
    <3>1. br' = [br EXCEPT !.todo = br.todo \ {l}, !.pc = "bind", !.lease = l,
                           !.req = queue[l]]
      BY <1>0, <2>2, <2>5 DEF Bridges
    <3>2. Moved("bind", br.todo \ {l}, l) /\ br'.req = queue[l]
      BY <1>0, <2>1, <2>3, <3>1 DEF Bridges, Moved, Places, Busy
    <3> QED
      BY <2>1, <2>5, <3>2
  <2> QED
    BY <2>4, <2>5
<1>4. /\ Defer => br.pc = "guard" /\ Moved("drain", br.todo, 0)
      /\ Quarantine => br.pc = "quarantine" /\ Moved("drain", br.todo, 0)
      /\ Reject => br.pc \in {"bind", "guard"} /\ Moved("drain", br.todo, 0)
      /\ Release => br.pc = "release" /\ Moved("drain", br.todo, 0)
  BY <1>0, Goings DEF Defer, Quarantine, Reject, Release, Moved, Done
<1>5. /\ Consume => /\ br.pc = "consume"
                    /\ SameFile => Moved("drain", br.todo, 0)
                    /\ ~SameFile =>
                         Moved("quarantine", br.todo, br.lease) /\ InHand
      /\ Ephemeral => /\ br.pc = "guard"
                      /\ Moved("release", br.todo, br.lease) /\ InHand
  BY <1>0, Goings DEF Consume, Ephemeral, Moved, Places, Busy
<1>6. /\ BindGuard => /\ br.pc = "bind" /\ br.lease = lease
                      /\ Moved("guard", br.todo, br.lease) /\ InHand
      /\ Mark => /\ br.pc = "mark"
                 /\ Fenced => Moved("consume", br.todo, br.lease) /\ InHand
                 /\ ~Fenced => Moved("drain", br.todo, 0)
  BY <1>0, Goings DEF BindGuard, Mark, Fenced, Moved, Places, Busy, Done
<1>7. AdoptGuard => /\ br.pc = "step" /\ lease # 0
                    /\ Moved("adopt", {}, lease)
                    /\ br'.bound = binding /\ binding \in Bindings
  <2> SUFFICES ASSUME AdoptGuard
               PROVE  /\ br.pc = "step" /\ lease # 0
                      /\ Moved("adopt", {}, lease)
                      /\ br'.bound = binding /\ binding \in Bindings
    OBVIOUS
  <2>1. /\ br' = [br EXCEPT !.pc = "adopt", !.lease = lease, !.bound = binding]
        /\ br.pc = "step" /\ lease # 0 /\ binding # NoBinding
    BY DEF AdoptGuard, Stale
  <2>2. br.todo = {} /\ binding \in Bindings /\ lease \in 0..MaxLease
    BY <2>1 DEF BindingTypes, Busy
  <2> QED
    BY <1>0, <2>1, <2>2 DEF Bridges, Moved, Places
<1>8. Adopt => br.pc = "adopt" /\ Moved("wake", {}, 0)
  BY Records DEF Adopt, Moved, Places
<1> QED
  BY <1>1, <1>2, <1>3, <1>4, <1>5, <1>6, <1>7, <1>8

-----------------------------------------------------------------------------
(* The types.                                                              *)

\* No lease, no request and no bridge is of the types.
LEMMA InitTypes == Init => BindingTypes
<1> SUFFICES ASSUME Init PROVE BindingTypes
  OBVIOUS
<1>1. br = At("off") /\ At("off") \in Bridges /\ br.pc = "off" /\ br.todo = {}
      /\ br.lease = 0
  BY Records DEF Init, Places
<1>2. 0 \in 0..MaxLease /\ 0 \in 0..MaxThread /\ 0 \in 0..MaxHand /\ 0 \in Nat
      /\ NoBinding.lease = 0
  BY Numbers, Records
<1>3. intent \in [lease : 0..MaxLease, active : 0..MaxThread]
      /\ intent.lease = 0
  BY <1>2 DEF Init, NoIntent
<1>4. br.pc \notin Busy /\ br.pc \notin Guards /\ br.pc # "adopt"
  BY <1>1 DEF Busy, Guards
<1>5. 0 <= 0
  OBVIOUS
<1> QED
  BY <1>1, <1>2, <1>3, <1>4, <1>5 DEF Init, BindingTypes, Kinds

\* The launches count up to the live lease.
LEMMA SeatTypes ==
  ASSUME BindingTypes, Launch \/ Close \/ Clear \/ Fork \/ Mail
  PROVE  BindingTypes'
<1>0. /\ UNCHANGED <<hook, queue, binding, phase, held, br, binder, hand,
                     kills, current, late>>
      /\ mail' \in BOOLEAN
  BY DEF Launch, Close, Clear, Fork, Mail, Stored, Bounds, Requests,
     BindingTypes, Seat
<1>1. /\ lease' \in 0..MaxLease /\ launches' \in 0..MaxLease
      /\ tui' \in 0..MaxThread
      /\ intent' \in [lease : 0..MaxLease, active : 0..MaxThread]
      /\ record' \in {0, launches'} /\ lease' \in {0, record'}
      /\ (lease' # 0 => tui' # 0)
      /\ intent'.lease <= launches' /\ launches <= launches'
  <2>1. CASE Launch
    <3>1. launches' \in 1..MaxLease /\ launches' = launches + 1
          /\ lease' = launches' /\ record' = launches'
      BY <2>1, BindingAssumption DEF Launch, BindingTypes
    <3>2. tui' \in Threads
      BY <2>1 DEF Launch
    <3>3. intent' = [lease |-> lease', active |-> 0]
      BY <2>1 DEF Launch
    <3>4. launches' \in Leases /\ launches' \in 0..MaxLease /\ launches' # 0
          /\ launches \in Nat
      BY <3>1, Numbers DEF Leases, BindingTypes
    <3>5. launches <= launches' /\ launches' <= launches'
      BY <3>1, <3>4
    <3> QED
      BY <3>1, <3>2, <3>3, <3>4, <3>5, Numbers
  <2>2. CASE Close
    BY <2>2, Numbers DEF Close, BindingTypes
  <2>3. CASE Clear
    BY <2>3, Numbers DEF Clear, BindingTypes
  <2>4. CASE Fork \/ Mail
    BY <2>4 DEF Fork, Mail, Seat, BindingTypes
  <2> QED
    BY <2>1, <2>2, <2>3, <2>4
<1>2. kind' \in [Threads -> Kinds]
      /\ hooks' \subseteq Waiting
  <2>1. ASSUME NEW t \in Threads, NEW k \in {"root", "child", "exec"},
               NEW s \in Sources, Born(t, k, s)
        PROVE  /\ kind' \in [Threads -> Kinds]
               /\ hooks' \subseteq Waiting
    BY <1>1, <2>1 DEF Born, BindingTypes, Waiting, Kinds
  <2>2. CASE Launch
    <3>1. PICK t \in Threads :
            \/ Born(t, "root", "startup")
            \/ /\ UNCHANGED kind
               /\ hooks' = hooks \cup
                    {[thread |-> t, source |-> "resume", born |-> launches]}
      BY <2>2 DEF Launch
    <3> QED
      BY <2>1, <3>1 DEF BindingTypes, Waiting, Sources
  <2>3. CASE Close \/ Mail
    BY <2>3 DEF Close, Mail, Requests, Seat, BindingTypes
  <2>4. CASE Clear \/ Fork
    BY <2>1, <2>4 DEF Clear, Fork, Sources
  <2> QED
    BY <2>2, <2>3, <2>4
<1>3. \A n \in 0..MaxLease : n <= launches => n <= launches'
  BY <1>1 DEF BindingTypes
<1>4. binding.lease \in 0..MaxLease /\ br.lease \in 0..MaxLease
  BY Records, Numbers DEF BindingTypes, Bindings, Bridges
<1>5. UNCHANGED record \/ (br.pc \notin Guards /\ binder = NoBinding)
  BY DEF Launch, Close, Clear, Fork, Mail, Seat, Guarded, Guards
<1> QED
  BY <1>0, <1>1, <1>2, <1>3, <1>4, <1>5 DEF BindingTypes

\* The user binds the thread he sees to the lease that lives, or to that of an
\* owner who has died since.
LEMMA HandTypes ==
  ASSUME BindingTypes, HandGuard \/ BindByHand \/ Unbind
  PROVE  BindingTypes'
<1>0. /\ UNCHANGED <<lease, record, launches, tui, kind, hooks, hook, queue,
                     held, br, mail, kills, current, late>>
      /\ phase' \in BOOLEAN /\ intent' \in {intent, NoIntent}
  BY DEF HandGuard, BindByHand, Unbind, Seat, Requests, Stored, BindingTypes
<1>1. hand' \in 0..MaxHand
  BY BindingAssumption DEF HandGuard, BindByHand, Unbind, BindingTypes
<1>2. /\ binding' \in {NoBinding} \cup Bindings
      /\ binding'.lease <= launches
  <2>1. CASE HandGuard
    BY <2>1 DEF HandGuard, Stored, BindingTypes
  <2>2. CASE BindByHand
    <3>1. /\ binding' \in Bindings /\ binding'.lease = record /\ record # 0
          /\ launches \in Nat
      BY <2>2, Numbers DEF BindByHand, BindingTypes
    <3> QED
      BY <3>1 DEF BindingTypes
  <2>3. CASE Unbind
    BY <2>3, Records DEF Unbind, BindingTypes
  <2> QED
    BY <2>1, <2>2, <2>3
<1>3. /\ intent' \in [lease : 0..MaxLease, active : 0..MaxThread]
      /\ intent'.lease <= launches
  BY <1>0, Numbers DEF BindingTypes, NoIntent
<1>4. /\ binder' \in {NoBinding} \cup Bindings
      /\ binder' # NoBinding =>
           binder'.by = "hand" /\ binder'.lease = record /\ record # 0
  <2>1. CASE HandGuard
    <3>1. binder' = [thread |-> tui, lease |-> lease, by |-> "hand",
                     n |-> hand']
      BY <2>1 DEF HandGuard
    <3>2. tui \in Threads /\ lease \in Leases /\ lease # 0
      BY <2>1, Numbers DEF HandGuard, Seated, BindingTypes
    <3>3. binder' \in Bindings /\ binder'.by = "hand" /\ binder'.lease = lease
      BY <1>1, <3>1, <3>2 DEF Bindings
    <3> QED
      BY <3>2, <3>3 DEF BindingTypes
  <2>2. CASE BindByHand \/ Unbind
    BY <2>2 DEF BindByHand, Unbind, BindingTypes
  <2> QED
    BY <2>1, <2>2
<1> QED
  BY <1>0, <1>1, <1>2, <1>3, <1>4 DEF BindingTypes

\* A hook takes the intent for the live lease, and leaves a request there.
LEMMA HookTypes ==
  ASSUME BindingTypes, Resolve \/ Publish \/ HookKilled
  PROVE  BindingTypes'
<1>0. UNCHANGED <<lease, record, launches, tui, kind, binding, phase, held, br,
                  binder, mail, hand>>
  BY DEF Resolve, Publish, HookKilled, Seat, Stored, Bounds
<1>1. CASE Resolve
  <2>1. PICK h \in hooks :
          /\ hooks' = hooks \ {h}
          /\ \/ UNCHANGED <<intent, hook>>
             \/ /\ lease # 0
                /\ intent' = [intent EXCEPT !.active = h.thread]
                /\ hook' = [thread |-> h.thread, source |-> h.source,
                            lease |-> lease]
    BY <1>1 DEF Resolve, Accepts
  <2>2. h.thread \in Threads /\ h.source \in Sources
        /\ h.thread \in 0..MaxThread
    BY Numbers DEF BindingTypes, Waiting
  <2>3. hook' \in {NoHook} \cup Holding
    BY <2>1, <2>2, Numbers DEF BindingTypes, Holding
  <2>4. /\ intent' \in [lease : 0..MaxLease, active : 0..MaxThread]
        /\ intent'.lease = intent.lease
    BY <2>1, <2>2 DEF BindingTypes
  <2> QED
    BY <1>0, <1>1, <2>1, <2>3, <2>4 DEF Resolve, BindingTypes, Bounds
<1>2. CASE Publish
  <2>1. hook \in Holding
    BY <1>2 DEF Publish, BindingTypes
  <2>2. /\ queue' \in [Leases -> {NoRequest} \cup Reqs]
        /\ current' \in [Leases -> SUBSET Threads] /\ late' \subseteq Leases
    <3>1. CASE UNCHANGED <<queue, current, late>>
      BY <3>1 DEF BindingTypes
    <3>2. CASE /\ queue' = [queue EXCEPT ![hook.lease] =
                     [thread |-> hook.thread, source |-> hook.source]]
               /\ current' = [current EXCEPT ![hook.lease] =
                     {hook.thread} \cup
                     IF hook.source = "clear" THEN {} ELSE @]
               /\ late' \in {late, late \cup {hook.lease}}
      <4>1. /\ hook.lease \in Leases /\ hook.thread \in Threads
            /\ [thread |-> hook.thread, source |-> hook.source] \in Reqs
        BY <2>1 DEF Holding, Reqs
      <4>2. current[hook.lease] \in SUBSET Threads
        BY <4>1 DEF BindingTypes
      <4>3. {hook.thread} \cup (IF hook.source = "clear" THEN {}
                                ELSE current[hook.lease]) \in SUBSET Threads
        BY <4>1, <4>2
      <4> QED
        BY <3>2, <4>1, <4>3 DEF BindingTypes
    <3> QED
      BY <1>2, <3>1, <3>2 DEF Publish
  <2> QED
    BY <1>0, <1>2, <2>2 DEF Publish, BindingTypes, Bounds
<1>3. CASE HookKilled
  BY <1>0, <1>3 DEF HookKilled, Kill, BindingTypes
<1> QED
  BY <1>1, <1>2, <1>3

Bridging == Bridge \/ Defer \/ Skip \/ BridgeKilled

\* The bridge leaves the seat and the hooks alone.
LEMMA Apart ==
  ASSUME Bridging
  PROVE  /\ UNCHANGED <<lease, record, launches, tui, kind, hooks, hook,
                        current, binder, hand>>
         /\ kills' \in {kills, kills + 1}
BY DEF Bridging, Bridge, Connect, List, Read, Drained, Draining, BindGuard,
   Bind, Mark, Consume, Quarantine, Reject, Ephemeral, Release, AdoptGuard,
   Adopt, Wake, Defer, Skip, BridgeKilled, Kill, Free, Seat, Requests, Bounds

\* The request in hand is bound, or is bound already.
LEMMA Binds ==
  ASSUME BindingTypes, Bind
  PROVE  /\ br.pc = "guard" /\ br.lease = record /\ br.lease \in Leases
         /\ Moved("mark", br.todo, br.lease)
         /\ br'.req = br.req /\ br'.bound = binding'
         /\ binding' \in Bindings
         /\ binding'.thread = br.req.thread /\ binding'.lease = br.lease
         /\ binding' = binding \/ binding'.by = "request"
<1>1. /\ br.pc = "guard" /\ br.lease = record /\ br.lease \in Leases
      /\ br.req \in Reqs /\ br \in Bridges
  BY Numbers DEF Bind, BindingTypes, Busy, Guards, Bridges
<1>2. /\ binding' \in Bindings
      /\ binding'.thread = br.req.thread /\ binding'.lease = br.lease
      /\ binding' = binding \/ binding'.by = "request"
  <2>1. CASE SameFence /\ binding.thread = br.req.thread
    BY <1>1, <2>1, Numbers, Records DEF Bind, SameFence, BindingTypes, Stored
  <2>2. CASE ~(SameFence /\ binding.thread = br.req.thread)
    <3>1. binding' = [thread |-> br.req.thread, lease |-> br.lease,
                      by |-> "request", n |-> 0]
      BY <2>2 DEF Bind
    <3> QED
      BY <1>1, <3>1, Numbers DEF Bindings, Reqs
  <2> QED
    BY <2>1, <2>2
<1>3. br' = [br EXCEPT !.pc = "mark", !.bound = binding']
  BY DEF Bind
<1>4. Moved("mark", br.todo, br.lease) /\ br'.req = br.req
      /\ br'.bound = binding'
  BY <1>1, <1>2, <1>3 DEF Bridges, Moved, Places, Busy
<1> QED
  BY <1>1, <1>2, <1>4

\* What is adopted goes to the lease whose lock the bridge holds.
LEMMA Adopts ==
  ASSUME BindingTypes, Adopt
  PROVE  /\ br.lease = record /\ br.lease \in Leases
         /\ binding' \in {NoBinding} \cup Bindings
         /\ binding'.lease <= launches
         /\ phase' \in BOOLEAN
         /\ \/ binding' = binding
            \/ /\ binding' \in Bindings /\ binding'.by = "adopted"
               /\ binding'.lease = br.lease /\ binding.lease # br.lease
<1>1. /\ br.lease = record /\ br.lease # 0 /\ br.lease \in Leases
      /\ br.lease <= launches /\ br.bound \in Bindings
  BY Numbers DEF Adopt, BindingTypes, Guards, Bridges
<1>2. CASE binding.thread = br.bound.thread /\ ~SameFence
  <2>1. binding \in Bindings /\ binding.lease # br.lease
    BY <1>1, <1>2, Records, Numbers DEF BindingTypes, Bindings, SameFence
  <2>2. /\ binding' = [binding EXCEPT !.lease = br.lease, !.by = "adopted",
                                      !.n = 0]
        /\ phase' = FALSE
    BY <1>2 DEF Adopt
  <2>3. binding' \in Bindings /\ binding'.lease = br.lease
        /\ binding'.by = "adopted"
    BY <1>1, <2>1, <2>2, Numbers DEF Bindings
  <2> QED
    BY <1>1, <2>1, <2>2, <2>3
<1>3. CASE ~(binding.thread = br.bound.thread /\ ~SameFence)
  BY <1>1, <1>3 DEF Adopt, Stored, BindingTypes
<1> QED
  BY <1>2, <1>3

\* A request that is done with, or refused, leaves its place empty.
LEMMA Unlinking ==
  ASSUME BindingTypes, br.lease \in Leases
  PROVE  /\ Unlinked \in [Leases -> {NoRequest} \cup Reqs]
         /\ Unlinked[br.lease] = NoRequest
         /\ \A l \in Leases : l # br.lease => Unlinked[l] = queue[l]
BY DEF Unlinked, BindingTypes

\* A bridge at a place where it has no request, or at one where it has.
RightPlace ==
  /\ br' \in Bridges
  /\ br'.pc \in Busy =>
       br'.lease # 0 /\ br'.lease <= launches /\ br'.req \in Reqs
  /\ br'.pc \notin Busy \cup {"adopt"} => br'.lease = 0
  /\ br'.pc \notin Busy \cup {"drain"} => br'.todo = {}
  /\ br'.pc \in Guards => br'.lease = record /\ br'.lease # 0
  /\ br'.pc = "adopt" => br'.bound \in Bindings

\* Each step takes the bridge to a right place.
LEMMA BridgePlaces ==
  ASSUME BindingTypes, Bridging,
         \A l \in Leases : queue[l] # NoRequest => l <= launches
  PROVE  RightPlace
<1>1. ASSUME NEW pc \in {"off", "idle", "step", "wake"}, Moved(pc, {}, 0)
      PROVE  RightPlace
  BY <1>1 DEF Moved, Busy, Guards, RightPlace
<1>2. ASSUME NEW todo, Moved("drain", todo, 0)
      PROVE  RightPlace
  BY <1>2 DEF Moved, Busy, Guards, RightPlace
<1>3. ASSUME NEW pc \in Busy, br.pc \in Busy, Moved(pc, br.todo, br.lease),
             br'.req = br.req, pc \in Guards => br.lease = record
      PROVE  RightPlace
  BY <1>3 DEF Moved, RightPlace, BindingTypes, Busy
<1>4. CASE Read
  <2>1. PICK l \in br.todo :
          \/ Moved("drain", br.todo \ {l}, 0)
          \/ /\ queue[l] # NoRequest
             /\ Moved("bind", br.todo \ {l}, l) /\ br'.req = queue[l]
    BY <1>4, Moves
  <2>2. l \in Leases
    BY DEF BindingTypes, Bridges
  <2>3. CASE /\ queue[l] # NoRequest
             /\ Moved("bind", br.todo \ {l}, l) /\ br'.req = queue[l]
    <3>1. l # 0 /\ l <= launches /\ queue[l] \in Reqs
      BY <2>2, <2>3, Numbers DEF BindingTypes
    <3> QED
      BY <2>3, <3>1 DEF Moved, RightPlace, Busy, Guards
  <2> QED
    BY <1>2, <2>1, <2>3
<1>5. CASE Bind
  BY <1>3, <1>5, Binds DEF Busy
<1>6. CASE Consume \/ Ephemeral \/ Mark
  BY <1>2, <1>3, <1>6, Moves DEF Busy, Guards, InHand
<1>7. CASE BindGuard
  <2>1. br.pc = "bind" /\ br.lease = lease /\ br.lease # 0 /\ lease = record
    BY <1>7, Moves DEF BindingTypes, Busy
  <2> QED
    BY <1>3, <1>7, <2>1, Moves DEF Busy, InHand
<1>8. CASE AdoptGuard
  <2>1. lease # 0 /\ lease = record
    BY <1>8, Moves DEF BindingTypes
  <2>2. Moved("adopt", {}, lease) /\ br'.bound \in Bindings
    BY <1>8, Moves
  <2> QED
    BY <2>1, <2>2 DEF RightPlace, Moved, Busy
<1> QED
  BY <1>1, <1>2, <1>4, <1>5, <1>6, <1>7, <1>8, Moves
     DEF Bridging, Bridge, Draining

\* A step of the bridge moves it, and changes only what it is about.
LEMMA BridgeTypes ==
  ASSUME BindingTypes, Bridging,
         \A l \in Leases : queue[l] # NoRequest => l <= launches
  PROVE  BindingTypes'
<1>0. /\ UNCHANGED <<lease, record, launches, tui, kind, hooks, hook, current,
                     binder, hand>>
      /\ kills' \in Nat
  BY Apart DEF BindingTypes
<1>1. RightPlace
  BY BridgePlaces
<1>2. queue' \in [Leases -> {NoRequest} \cup Reqs]
  <2>1. ASSUME Mark \/ Consume \/ Reject \/ Ephemeral
        PROVE  queue' \in {queue, Unlinked} /\ br.lease \in Leases
    <3>1. br.pc \in Busy /\ br.lease \in 0..MaxLease
      BY <2>1 DEF Mark, Consume, Reject, Ephemeral, Busy, BindingTypes, Bridges
    <3>2. br.lease \in Leases
      BY <3>1, Numbers DEF BindingTypes
    <3> QED
      BY <2>1, <3>2 DEF Mark, Consume, Reject, Ephemeral, Refused
  <2>2. ASSUME ~(Mark \/ Consume \/ Reject \/ Ephemeral) PROVE UNCHANGED queue
    BY <2>2 DEF Bridging, Bridge, Draining, Connect, List, Read, Drained,
       BindGuard, Bind, Quarantine, Release, AdoptGuard, Adopt, Wake, Defer,
       Skip, BridgeKilled, Requests
  <2> QED
    BY <2>1, <2>2, Unlinking DEF BindingTypes
<1>3. /\ binding' \in {NoBinding} \cup Bindings /\ binding'.lease <= launches
      /\ phase' \in BOOLEAN
  <2>1. CASE Bind
    <3>1. /\ binding' \in Bindings /\ binding'.lease = br.lease
          /\ br.pc = "guard"
      BY <2>1, Binds
    <3>2. phase' \in BOOLEAN
      BY <2>1 DEF Bind, Stored, BindingTypes
    <3> QED
      BY <3>1, <3>2 DEF BindingTypes, Busy
  <2>2. CASE Quarantine
    <3>1. 0 <= launches
      BY Numbers DEF BindingTypes
    <3> QED
      BY <2>2, <3>1, Records DEF Quarantine, Stored, BindingTypes
  <2>3. CASE Adopt
    BY <2>3, Adopts DEF BindingTypes
  <2>4. CASE ~(Bind \/ Quarantine \/ Adopt)
    <3>1. UNCHANGED Stored
      BY <2>4 DEF Bridging, Bridge, Draining, Connect, List, Read, Drained,
         BindGuard, Mark, Consume, Reject, Ephemeral, Release, AdoptGuard, Wake,
         Defer, Skip, BridgeKilled, Free
    <3> QED
      BY <3>1 DEF Stored, BindingTypes
  <2> QED
    BY <2>1, <2>2, <2>3, <2>4
<1>4. /\ intent' \in [lease : 0..MaxLease, active : 0..MaxThread]
      /\ intent'.lease = intent.lease
  <2>1. CASE Release
    BY <2>1, Numbers DEF Release, Released, BindingTypes
  <2>2. CASE ~Release
    BY <2>2 DEF Bridging, Bridge, Draining, Connect, List, Read, Drained,
       BindGuard, Bind, Mark, Consume, Quarantine, Reject, Ephemeral,
       AdoptGuard, Adopt, Wake, Defer, Skip, BridgeKilled, BindingTypes
  <2> QED
    BY <2>1, <2>2
<1>5. held' \in 0..MaxLease /\ mail' \in BOOLEAN
  <2>1. 0 \in 0..MaxLease /\ br.lease \in 0..MaxLease
    BY Numbers DEF BindingTypes, Bridges
  <2> QED
    BY <2>1 DEF Bridging, Bridge, Draining, Connect, List, Read, Drained,
       BindGuard, Bind, Mark, Consume, Quarantine, Reject, Ephemeral, Release,
       AdoptGuard, Adopt, Wake, Defer, Skip, BridgeKilled, BindingTypes, Lifted
<1>6. late' \subseteq Leases
  <2>1. br.pc \in Busy => br.lease \in Leases
    BY Numbers DEF BindingTypes, Bridges
  <2> QED
    BY <2>1 DEF Busy, Bridging, Bridge, Draining, Connect, List, Read, Drained,
       BindGuard, Bind, Mark, Consume, Quarantine, Reject, Ephemeral, Refused,
       Release, AdoptGuard, Adopt, Wake, Defer, Skip, BridgeKilled, BindingTypes
<1> QED
  BY <1>0, <1>1, <1>2, <1>3, <1>4, <1>5, <1>6 DEF BindingTypes, RightPlace

-----------------------------------------------------------------------------
(* Whose requests there are.                                               *)

\* A thread that is spoken of was born, and only a root is cleared to.
Known(r) == /\ kind[r.thread] # "unborn"
            /\ r.source = "clear" => kind[r.thread] = "root"
Mentioned ==
  /\ \A h \in hooks : Known(h)
  /\ hook # NoHook => Known(hook) /\ hook.lease <= launches
  /\ \A l \in Leases : queue[l] # NoRequest => Known(queue[l]) /\ l <= launches
  /\ br.pc \in Busy => Known(br.req)
  /\ br.pc \in {"mark", "consume", "quarantine"} =>
       kind[br.req.thread] = "root"
  /\ br.pc = "release" => kind[br.req.thread] = "child"

\* A child has one hook, and that leaves one request.
Lone(t) ==
  /\ \A h \in hooks : h.thread = t =>
       /\ hook.thread # t /\ \A l \in Leases : queue[l].thread # t
       /\ br.pc \in Busy => br.req.thread # t
       /\ \A g \in hooks : g.thread = t => g = h
  /\ hook.thread = t =>
       /\ \A l \in Leases : queue[l].thread # t
       /\ br.pc \in Busy => br.req.thread # t
  /\ \A l, m \in Leases : queue[l].thread = t /\ queue[m].thread = t => l = m
  /\ br.pc \in Busy /\ br.req.thread = t =>
       \A l \in Leases : queue[l].thread = t =>
         br.pc \in {"bind", "guard"} /\ l = br.lease /\ queue[l] = br.req
Children == \A t \in Threads : kind[t] = "child" => Lone(t)

\* A thread is born once; the hooks that come are of a thread born now, or of a
\* root opened again.
LEMMA Births ==
  ASSUME BindingTypes, Launch \/ Close \/ Clear \/ Fork \/ Mail
  PROVE  /\ \A t \in Threads : kind[t] # "unborn" => kind'[t] = kind[t]
         /\ launches <= launches'
         /\ hooks \subseteq hooks'
         /\ \A h \in hooks' \ hooks :
              /\ Known(h)'
              /\ kind'[h.thread] = "child" =>
                   kind[h.thread] = "unborn" /\ hooks' \ hooks = {h}
<1>0. launches <= launches'
  BY Numbers DEF Launch, Close, Clear, Fork, Mail, Seat, BindingTypes
<1>1. ASSUME NEW t \in Threads, NEW k \in {"root", "child", "exec"},
             NEW s \in Sources, Born(t, k, s), s = "clear" => k = "root"
      PROVE  /\ \A u \in Threads : kind[u] # "unborn" => kind'[u] = kind[u]
             /\ hooks \subseteq hooks'
             /\ \A h \in hooks' \ hooks :
                  /\ Known(h)'
                  /\ kind[h.thread] = "unborn"
                  /\ hooks' \ hooks = {h}
  BY <1>1 DEF Born, Known, BindingTypes
<1>2. CASE Launch
  <2>1. PICK t \in Threads :
          \/ Born(t, "root", "startup")
          \/ /\ kind[t] = "root" /\ UNCHANGED kind
             /\ hooks' = hooks \cup
                  {[thread |-> t, source |-> "resume", born |-> launches]}
    BY <1>2 DEF Launch
  <2>2. CASE Born(t, "root", "startup")
    BY <1>0, <1>1, <2>2 DEF Sources
  <2>3. CASE /\ kind[t] = "root" /\ UNCHANGED kind
             /\ hooks' = hooks \cup
                  {[thread |-> t, source |-> "resume", born |-> launches]}
    BY <1>0, <2>3 DEF Known
  <2> QED
    BY <2>1, <2>2, <2>3
<1>3. CASE Close \/ Mail
  BY <1>0, <1>3 DEF Close, Mail, Requests, Seat
<1>4. CASE Clear \/ Fork
  BY <1>0, <1>1, <1>4 DEF Clear, Fork, Sources
<1> QED
  BY <1>2, <1>3, <1>4

\* What is known stays known.
LEMMA Knowing ==
  ASSUME NEW r, r.thread \in Threads, Known(r),
         \A t \in Threads : kind[t] # "unborn" => kind'[t] = kind[t]
  PROVE  Known(r)' /\ kind'[r.thread] = kind[r.thread]
BY DEF Known

\* Around the bridge and the hooks.
LEMMA SeatMentioned ==
  ASSUME BindingTypes, Mentioned, Children,
         Launch \/ Close \/ Clear \/ Fork \/ Mail
  PROVE  Mentioned' /\ Children'
<1>0. UNCHANGED <<hook, queue, br>>
  BY DEF Launch, Close, Clear, Fork, Mail, Requests
<1>1. /\ \A t \in Threads : kind[t] # "unborn" => kind'[t] = kind[t]
      /\ launches <= launches' /\ hooks \subseteq hooks'
      /\ \A h \in hooks' \ hooks :
           /\ Known(h)'
           /\ kind'[h.thread] = "child" =>
                kind[h.thread] = "unborn" /\ hooks' \ hooks = {h}
  BY Births
<1>2. /\ \A h \in hooks : h.thread \in Threads /\ Known(h)
      /\ hook # NoHook => hook.thread \in Threads /\ Known(hook)
      /\ \A l \in Leases : queue[l] # NoRequest =>
           queue[l].thread \in Threads /\ Known(queue[l])
      /\ br.pc \in Busy => br.req.thread \in Threads /\ Known(br.req)
  BY DEF BindingTypes, Mentioned, Waiting, Holding, Reqs
<1>3. \A n : n \in Nat /\ n <= launches => n <= launches'
  BY <1>1, SeatTypes, Numbers DEF BindingTypes
<1>4. Mentioned'
  <2>1. \A h \in hooks' : Known(h)'
    BY <1>1, <1>2, Knowing
  <2>2. (hook # NoHook => Known(hook) /\ hook.lease <= launches)'
    <3>1. hook # NoHook => hook.lease \in Nat
      BY Numbers DEF BindingTypes, Holding
    <3> QED
      BY <1>0, <1>1, <1>2, <1>3, <3>1, Knowing DEF Mentioned
  <2>3. (\A l \in Leases : queue[l] # NoRequest =>
           Known(queue[l]) /\ l <= launches)'
    BY <1>0, <1>1, <1>2, <1>3, Knowing, Numbers DEF Mentioned
  <2>4. /\ (br.pc \in Busy => Known(br.req))'
        /\ br.pc \in Busy => kind'[br.req.thread] = kind[br.req.thread]
    BY <1>0, <1>1, <1>2, Knowing
  <2> QED
    BY <1>0, <2>1, <2>2, <2>3, <2>4 DEF Mentioned, Busy
<1>5. ASSUME NEW t \in Threads, kind'[t] = "child" PROVE Lone(t)'
  <2>1. CASE kind[t] = "child"
    <3>1. Lone(t)
      BY <2>1 DEF Children
    <3>2. \A h \in hooks' : h.thread = t => h \in hooks
      BY <1>1, <1>5, <2>1
    <3> QED
      BY <1>0, <3>1, <3>2 DEF Lone
  <2>2. CASE kind[t] # "child"
    <3>1. kind[t] = "unborn"
      BY <1>1, <1>5, <2>2
    <3>2. /\ \A h \in hooks : h.thread # t
          /\ hook.thread # t /\ \A l \in Leases : queue[l].thread # t
          /\ br.pc \in Busy => br.req.thread # t
      BY <1>2, <3>1, Records, Numbers DEF Known
    <3> QED
      BY <1>0, <1>1, <1>5, <3>2 DEF Lone
  <2> QED
    BY <2>1, <2>2
<1> QED
  BY <1>4, <1>5 DEF Children

\* A hook passes its one thread on, from the wait to the guard to the request.
LEMMA HookMentioned ==
  ASSUME BindingTypes, Mentioned, Children, Resolve \/ Publish \/ HookKilled
  PROVE  Mentioned' /\ Children'
<1>0. UNCHANGED <<lease, launches, kind, br>>
  BY DEF Resolve, Publish, HookKilled, Seat
<1>1. CASE Resolve
  <2>1. UNCHANGED queue
    BY <1>1 DEF Resolve
  <2>2. PICK h \in hooks :
          /\ hooks' = hooks \ {h}
          /\ \/ UNCHANGED hook
             \/ hook' = [thread |-> h.thread, source |-> h.source,
                         lease |-> lease]
    BY <1>1 DEF Resolve
  <2>3. CASE UNCHANGED hook
    BY <1>0, <2>1, <2>2, <2>3 DEF Mentioned, Known, Children, Lone
  <2>4. CASE hook' = [thread |-> h.thread, source |-> h.source,
                      lease |-> lease]
    <3>1. hook'.thread = h.thread /\ hook'.source = h.source
          /\ hook'.lease = lease /\ lease <= launches
      BY <2>4, Numbers DEF BindingTypes
    <3>2. Mentioned'
      BY <1>0, <2>1, <2>2, <3>1 DEF Mentioned, Known
    <3>3. ASSUME NEW t \in Threads, kind[t] = "child" PROVE Lone(t)'
      <4>1. Lone(t)
        BY <3>3 DEF Children
      <4> QED
        BY <1>0, <2>1, <2>2, <3>1, <4>1 DEF Lone
    <3> QED
      BY <1>0, <3>2, <3>3 DEF Children
  <2> QED
    BY <2>2, <2>3, <2>4
<1>2. CASE Publish
  <2>1. /\ hook # NoHook /\ hook' = NoHook /\ UNCHANGED hooks
        /\ \/ UNCHANGED queue
           \/ queue' = [queue EXCEPT ![hook.lease] =
                [thread |-> hook.thread, source |-> hook.source]]
    BY <1>2 DEF Publish
  <2>2. CASE UNCHANGED queue
    BY <1>0, <2>1, <2>2, Records, Numbers DEF Mentioned, Known, Children, Lone
  <2>3. CASE queue' = [queue EXCEPT ![hook.lease] =
                [thread |-> hook.thread, source |-> hook.source]]
    <3>1. hook \in Holding /\ hook.lease \in Leases
      BY <2>1 DEF BindingTypes, Holding
    <3>2. /\ \A l \in Leases : l # hook.lease => queue'[l] = queue[l]
          /\ queue'[hook.lease].thread = hook.thread
          /\ queue'[hook.lease].source = hook.source
      BY <2>3, <3>1 DEF BindingTypes
    <3>3. Mentioned'
      BY <1>0, <2>1, <3>1, <3>2 DEF Mentioned, Known
    <3>4. ASSUME NEW t \in Threads, kind[t] = "child" PROVE Lone(t)'
      <4>1. Lone(t) /\ hook'.thread # t
        BY <2>1, <3>4, Records, Numbers DEF Children
      <4> QED
        BY <1>0, <2>1, <3>1, <3>2, <4>1 DEF Lone
    <3> QED
      BY <1>0, <3>3, <3>4 DEF Children
  <2> QED
    BY <2>1, <2>2, <2>3
<1>3. CASE HookKilled
  BY <1>0, <1>3, Records, Numbers
     DEF HookKilled, Mentioned, Known, Children, Lone
<1> QED
  BY <1>1, <1>2, <1>3

\* The bridge only takes requests away.
LEMMA Removing ==
  ASSUME BindingTypes, Bridging
  PROVE  /\ \A l \in Leases : queue'[l] \in {queue[l], NoRequest}
         /\ \A l \in Leases : queue'[l] # queue[l] => l = br.lease /\ SameFile
         /\ Consume /\ SameFile => queue'[br.lease] = NoRequest
         /\ Reject \/ Ephemeral \/ (Mark /\ ~Fenced) =>
              /\ SameFile => queue'[br.lease] = NoRequest
              /\ ~SameFile => queue' = queue
         /\ Mark /\ Fenced => queue' = queue
<1>1. CASE Consume \/ Reject \/ Ephemeral \/ (Mark /\ ~Fenced)
  <2>1. br.lease \in Leases
    BY <1>1, Numbers DEF Mark, Consume, Reject, Ephemeral, Busy, BindingTypes,
       Bridges
  <2>2. /\ SameFile => queue' = Unlinked
        /\ ~SameFile => queue' = queue
    BY <1>1 DEF Mark, Consume, Reject, Ephemeral, Refused
  <2>3. ~(Mark /\ Fenced)
    BY <1>1 DEF Mark, Consume, Reject, Ephemeral
  <2> QED
    BY <2>1, <2>2, <2>3, Unlinking
<1>2. CASE ~(Consume \/ Reject \/ Ephemeral \/ (Mark /\ ~Fenced))
  <2>1. UNCHANGED queue
    BY <1>2 DEF Bridging, Bridge, Draining, Connect, List, Read, Drained,
       BindGuard, Bind, Mark, Quarantine, Release, AdoptGuard, Adopt, Wake,
       Defer, Skip, BridgeKilled, Requests
  <2> QED
    BY <1>2, <2>1
<1> QED
  BY <1>1, <1>2

\* The bridge takes up what waits; of a child's request nothing stays behind.
LEMMA BridgeMentioned ==
  ASSUME BindingTypes, Mentioned, Children, Bridging
  PROVE  Mentioned' /\ Children'
<1>0. UNCHANGED <<lease, launches, kind, hooks, hook>>
  BY Apart
<1>1. \A l \in Leases : queue'[l] \in {queue[l], NoRequest}
  BY Removing
<1>2. /\ \A h \in hooks' : Known(h)'
      /\ (hook # NoHook => Known(hook) /\ hook.lease <= launches)'
      /\ \A l \in Leases : queue'[l] # NoRequest =>
           Known(queue[l])' /\ l <= launches' /\ queue'[l] = queue[l]
  BY <1>0, <1>1 DEF Mentioned, Known
<1>3. CASE br'.pc \notin Busy
  <2>1. Mentioned'
    BY <1>2, <1>3 DEF Mentioned, Known, Busy
  <2>2. ASSUME NEW t \in Threads, kind[t] = "child" PROVE Lone(t)'
    <3>1. Lone(t)
      BY <2>2 DEF Children
    <3> QED
      BY <1>0, <1>1, <1>3, <3>1, Records, Numbers DEF Lone
  <2> QED
    BY <1>0, <2>1, <2>2 DEF Children
<1>4. CASE Read /\ br'.pc \in Busy
  <2>1. PICK l \in Leases : /\ queue[l] # NoRequest
                            /\ Moved("bind", br.todo \ {l}, l)
                            /\ br'.req = queue[l]
    BY <1>4, Moves DEF Moved, Busy, BindingTypes, Bridges
  <2>2. UNCHANGED queue
    BY <1>4 DEF Read
  <2>3. Mentioned'
    BY <1>0, <1>2, <2>1, <2>2 DEF Mentioned, Known, Moved
  <2>4. ASSUME NEW t \in Threads, kind[t] = "child" PROVE Lone(t)'
    <3>1. Lone(t)
      BY <2>4 DEF Children
    <3> QED
      BY <1>0, <2>1, <2>2, <3>1 DEF Lone, Moved
  <2> QED
    BY <1>0, <2>3, <2>4 DEF Children
<1>5. CASE BindGuard \/ Bind \/ (Mark /\ Fenced) \/ (Consume /\ ~SameFile)
  <2>1. /\ br.pc \in Busy /\ br'.req = br.req /\ UNCHANGED queue
        /\ \/ br.pc = "bind" /\ br'.pc = "guard"
           \/ /\ br'.pc \in {"mark", "consume", "quarantine"}
              /\ kind[br.req.thread] = "root"
    <3>1. CASE BindGuard
      BY <3>1, Moves DEF BindGuard, Moved, InHand, Busy
    <3>2. CASE Bind
      BY <3>2, Binds DEF Bind, Moved, Busy
    <3>3. CASE (Mark /\ Fenced) \/ (Consume /\ ~SameFile)
      BY <3>3, Moves, Removing DEF Mark, Consume, Moved, InHand, Busy, Mentioned
    <3> QED
      BY <1>5, <3>1, <3>2, <3>3
  <2>2. Mentioned'
    BY <1>0, <1>2, <2>1 DEF Mentioned, Known, Busy
  <2>3. ASSUME NEW t \in Threads, kind[t] = "child" PROVE Lone(t)'
    <3>1. Lone(t)
      BY <2>3 DEF Children
    <3>2. br'.pc \in Busy /\ br'.lease = br.lease
      BY <1>5, <2>1, Binds, Moves DEF Moved, Busy
    <3> QED
      BY <1>0, <2>1, <2>3, <3>1, <3>2 DEF Lone
  <2> QED
    BY <1>0, <2>2, <2>3 DEF Children
<1>6. CASE Ephemeral
  <2>1. /\ br.pc = "guard" /\ br'.pc = "release" /\ br'.req = br.req
        /\ kind[br.req.thread] = "child"
    BY <1>6, Moves DEF Ephemeral, Moved, InHand
  <2>2. Mentioned'
    BY <1>0, <1>2, <2>1 DEF Mentioned, Known, Busy
  <2>3. ASSUME NEW t \in Threads, kind[t] = "child" PROVE Lone(t)'
    <3>1. Lone(t) /\ br.pc \in Busy
      BY <2>1, <2>3 DEF Children, Busy
    <3>2. br.req.thread = t => \A l \in Leases : queue'[l].thread # t
      <4> SUFFICES ASSUME br.req.thread = t, NEW l \in Leases,
                          queue'[l].thread = t
                   PROVE  FALSE
        OBVIOUS
      <4>1. queue'[l] = queue[l] /\ queue[l] # NoRequest
        BY <1>1, Records, Numbers
      <4>2. l = br.lease /\ queue[l] = br.req
        BY <3>1, <4>1 DEF Lone
      <4>3. SameFile
        BY <4>2 DEF SameFile
      <4> QED
        BY <1>6, <4>1, <4>2, <4>3, Removing
    <3> QED
      BY <1>0, <1>1, <2>1, <3>1, <3>2, Records, Numbers DEF Lone
  <2> QED
    BY <1>0, <2>2, <2>3 DEF Children
<1>7. br'.pc \in Busy =>
        \/ Read \/ BindGuard \/ Bind \/ (Mark /\ Fenced)
        \/ (Consume /\ ~SameFile) \/ Ephemeral
  BY Moves DEF Bridging, Bridge, Draining, Moved, Busy
<1> QED
  BY <1>3, <1>4, <1>5, <1>6, <1>7

-----------------------------------------------------------------------------
(* The request follows the intent.                                         *)

\* Between the hook's two steps the intent is its thread's, and what waits for
\* the lease is of that thread or is about to be replaced; before and after,
\* what waits is of the thread that owns the intent.
Following ==
  kills = 0 /\ intent.lease # 0 =>
    /\ hook.lease # intent.lease =>
         \/ queue[intent.lease] = NoRequest
         \/ queue[intent.lease].thread = intent.active
    /\ hook.lease = intent.lease =>
         /\ intent.active = hook.thread
         /\ \/ hook.source = "clear" \/ queue[intent.lease] = NoRequest
            \/ queue[intent.lease].thread = hook.thread

Seating == \/ Launch \/ Close \/ Clear \/ Fork \/ Mail
           \/ HandGuard \/ BindByHand \/ Unbind

\* A launch arms a lease that nothing speaks of.
LEMMA SeatFollowing ==
  ASSUME BindingTypes, Mentioned, Following,
         Seating
  PROVE  Following'
<1>0. UNCHANGED <<hook, queue, kills>>
  BY DEF Seating, Launch, Close, Clear, Fork, Mail, HandGuard, BindByHand,
     Unbind, Requests, Bounds
<1>1. CASE Launch
  <2>1. /\ intent'.lease = launches + 1 /\ intent'.lease \in Leases
        /\ launches \in Nat
    BY <1>1, BindingAssumption, Numbers DEF Launch, BindingTypes, Leases
  <2>2. ~(launches + 1 <= launches)
    BY <2>1
  <2>3. queue[intent'.lease] = NoRequest
    BY <2>1, <2>2 DEF Mentioned
  <2>4. hook.lease # intent'.lease
    BY <2>1, <2>2, Records, Numbers DEF Mentioned
  <2> QED
    BY <1>0, <2>3, <2>4 DEF Following
<1>2. CASE ~Launch
  <2>1. UNCHANGED intent \/ intent'.lease = 0
    BY <1>2 DEF Seating, Close, Clear, Fork, Mail, HandGuard, BindByHand,
       Unbind, NoIntent
  <2> QED
    BY <1>0, <2>1 DEF Following
<1> QED
  BY <1>1, <1>2

\* A hook takes the intent from none, from its own thread, or by a clear.
LEMMA HookFollowing ==
  ASSUME BindingTypes, Following, Resolve \/ Publish \/ HookKilled
  PROVE  Following'
<1>0. /\ intent.lease # 0 => intent.lease \in Leases
      /\ NoHook.lease = 0
  BY Numbers, Records DEF BindingTypes
<1>1. CASE Resolve
  <2>0. UNCHANGED <<queue, kills>> /\ hook = NoHook
    BY <1>1 DEF Resolve, Bounds
  <2>1. PICK h \in hooks :
          IF Accepts(h)
          THEN /\ intent' = [intent EXCEPT !.active = h.thread]
               /\ hook' = [thread |-> h.thread, source |-> h.source,
                           lease |-> lease]
          ELSE UNCHANGED <<intent, hook>>
    BY <1>1 DEF Resolve
  <2>2. CASE ~Accepts(h)
    BY <2>0, <2>1, <2>2 DEF Following
  <2>3. CASE Accepts(h)
    <3>1. /\ intent'.lease = lease /\ intent'.active = h.thread
          /\ hook'.lease = lease /\ hook'.thread = h.thread
          /\ hook'.source = h.source
          /\ intent.lease = lease /\ lease # 0
      BY <2>1, <2>3 DEF Accepts, BindingTypes
    <3>2. SUFFICES ASSUME kills = 0, queue[lease] # NoRequest,
                          h.source # "clear"
                   PROVE  queue[lease].thread = h.thread
      BY <2>0, <3>1 DEF Following
    <3>3. queue[lease].thread = intent.active
      BY <1>0, <2>0, <3>1, <3>2 DEF Following
    <3>4. queue[lease].thread # 0
      BY <1>0, <3>1, <3>2, Numbers DEF BindingTypes, Reqs
    <3> QED
      BY <2>3, <3>2, <3>3, <3>4 DEF Accepts
  <2> QED
    BY <2>2, <2>3
<1>2. CASE Publish
  <2>0. /\ UNCHANGED <<intent, kills>> /\ hook # NoHook /\ hook' = NoHook
    BY <1>2 DEF Publish, Bounds
  <2>1. hook \in Holding /\ hook.lease \in Leases
    BY <2>0 DEF BindingTypes, Holding
  <2>2. \A l \in Leases : l # hook.lease => queue'[l] = queue[l]
    BY <1>2 DEF Publish, BindingTypes
  <2>3. \/ queue'[hook.lease].thread = hook.thread
        \/ /\ queue' = queue /\ hook.source # "clear"
           /\ queue[hook.lease] # NoRequest
    BY <1>2, <2>1 DEF Publish, BindingTypes
  <2> QED
    BY <1>0, <2>0, <2>1, <2>2, <2>3 DEF Following
<1>3. CASE HookKilled
  BY <1>3 DEF HookKilled, Kill, Following, BindingTypes
<1> QED
  BY <1>1, <1>2, <1>3

\* The bridge hands back only the intent of a child whose request is gone.
LEMMA BridgeFollowing ==
  ASSUME BindingTypes, Mentioned, Children, Following, Bridging
  PROVE  Following'
<1>0. UNCHANGED <<hook>> /\ kills' \in {kills, kills + 1}
      /\ (kills' = 0 => kills = 0)
  BY Apart DEF BindingTypes
<1>1. /\ \A l \in Leases : queue'[l] \in {queue[l], NoRequest}
      /\ intent.lease # 0 => intent.lease \in Leases
  BY Removing, Numbers DEF BindingTypes
<1>2. CASE UNCHANGED intent
  BY <1>0, <1>1, <1>2 DEF Following
<1>3. CASE Release /\ intent.active = br.req.thread
  <2>1. /\ intent'.lease = intent.lease /\ intent'.active = 0
        /\ queue' = queue
    BY <1>3 DEF Release, Released, BindingTypes
  <2>2. /\ br.pc = "release" /\ kind[br.req.thread] = "child"
        /\ br.req.thread \in Threads
    BY <1>3 DEF Release, Mentioned, BindingTypes, Busy, Reqs
  <2>3. Lone(br.req.thread)
    BY <2>2 DEF Children
  <2>4. /\ hook.thread # br.req.thread
        /\ \A l \in Leases : queue[l].thread # br.req.thread
    BY <2>2, <2>3 DEF Lone, Busy
  <2> QED
    BY <1>0, <1>1, <1>3, <2>1, <2>4 DEF Following
<1>4. UNCHANGED intent \/ (Release /\ intent.active = br.req.thread)
  BY DEF Bridging, Bridge, Draining, Connect, List, Read, Drained, BindGuard,
     Bind, Mark, Consume, Quarantine, Reject, Ephemeral, Release, Released,
     AdoptGuard, Adopt, Wake, Defer, Skip, BridgeKilled
<1> QED
  BY <1>2, <1>3, <1>4

-----------------------------------------------------------------------------
(* What the bridge has read, and what is there by now.                     *)

Handling == {"bind", "guard", "mark", "consume", "quarantine"}

\* What waits is of a current thread; the request in hand is still there, or a
\* clear is; and what was bound from it is bound, or a hand has been there.
Reading ==
  /\ \A l \in Leases : queue[l] # NoRequest => queue[l].thread \in current[l]
  /\ br.pc \in Handling =>
       \/ queue[br.lease].source = "clear"
       \/ queue[br.lease] = br.req /\ br.pc # "quarantine"
  /\ br.pc \in {"mark", "consume", "quarantine"} =>
       /\ br.bound.thread = br.req.thread /\ br.bound.lease = br.lease
       /\ binding.by = "request" => binding = br.bound

\* The user's steps leave the requests alone, and bind by no request.
LEMMA SeatReading ==
  ASSUME BindingTypes, Reading,
         Seating
  PROVE  Reading'
<1>1. UNCHANGED <<queue, br, current>>
  BY DEF Seating, Launch, Close, Clear, Fork, Mail, HandGuard, BindByHand,
     Unbind, Requests
<1>2. UNCHANGED binding \/ binding'.by # "request"
  BY Records DEF BindingTypes, Seating, Launch, Close, Clear, Fork, Mail,
     HandGuard, BindByHand, Unbind, Stored
<1> QED
  BY <1>1, <1>2 DEF Reading

\* Only a clear takes the place of the request in hand.
LEMMA HookReading ==
  ASSUME BindingTypes, Reading, Resolve \/ Publish \/ HookKilled
  PROVE  Reading'
<1>0. UNCHANGED <<br, binding>>
  BY DEF Resolve, Publish, HookKilled, Stored
<1>1. CASE UNCHANGED <<queue, current>>
  BY <1>0, <1>1 DEF Reading
<1>2. CASE Publish /\ (hook.source = "clear" \/ queue[hook.lease] = NoRequest)
  <2>1. hook \in Holding /\ hook.lease \in Leases
    BY <1>2 DEF Publish, BindingTypes, Holding
  <2>2. /\ \A l \in Leases : l # hook.lease =>
             queue'[l] = queue[l] /\ current'[l] = current[l]
        /\ queue'[hook.lease].thread = hook.thread
        /\ queue'[hook.lease].source = hook.source
        /\ hook.thread \in current'[hook.lease]
    BY <1>2, <2>1 DEF Publish, BindingTypes
  <2>3. \A l \in Leases :
          queue'[l] # NoRequest => queue'[l].thread \in current'[l]
    BY <2>2 DEF Reading
  <2>4. ASSUME br.pc \in Handling
        PROVE  \/ queue'[br.lease].source = "clear"
               \/ queue'[br.lease] = br.req /\ br.pc # "quarantine"
    <3>1. br.lease \in Leases /\ br.req \in Reqs
      BY <2>4, Numbers DEF BindingTypes, Handling, Busy, Bridges
    <3>2. queue[br.lease] # NoRequest
      BY <2>4, <3>1, Records DEF Reading
    <3> QED
      BY <1>2, <2>2, <2>4, <3>1, <3>2 DEF Reading
  <2> QED
    BY <1>0, <2>3, <2>4 DEF Reading
<1>3. \/ UNCHANGED <<queue, current>>
      \/ Publish /\ (hook.source = "clear" \/ queue[hook.lease] = NoRequest)
  BY DEF Resolve, Publish, HookKilled
<1> QED
  BY <1>1, <1>2, <1>3

\* A request that is no longer there when it is consumed gave way to a clear.
LEMMA BridgeReading ==
  ASSUME BindingTypes, Reading, Bridging
  PROVE  Reading'
<1>0. UNCHANGED current
  BY Apart
<1>1. \A l \in Leases : queue'[l] # NoRequest
    => queue'[l].thread \in current'[l]
  BY <1>0, Removing DEF Reading
<1>2. CASE br'.pc \notin Handling
  BY <1>1, <1>2 DEF Reading, Handling
<1>3. CASE Read /\ br'.pc = "bind"
  <2>1. PICK l \in Leases : Moved("bind", br.todo \ {l}, l)
        /\ br'.req = queue[l]
    BY <1>3, Moves DEF Moved, BindingTypes, Bridges
  <2>2. UNCHANGED queue
    BY <1>3 DEF Read
  <2> QED
    BY <1>1, <2>1, <2>2 DEF Reading, Moved
<1>7. CASE BindGuard
  <2>1. UNCHANGED queue /\ br.pc = "bind"
    BY <1>7 DEF BindGuard
  <2>2. Moved("guard", br.todo, br.lease) /\ InHand
    BY <1>7, Moves
  <2> QED
    BY <1>1, <2>1, <2>2 DEF Reading, Handling, Moved, InHand
<1>8. CASE Mark /\ Fenced
  <2>1. UNCHANGED <<queue, binding>> /\ br.pc = "mark"
    BY <1>8 DEF Mark, Stored
  <2>2. Moved("consume", br.todo, br.lease) /\ InHand
    BY <1>8, Moves
  <2> QED
    BY <1>1, <2>1, <2>2 DEF Reading, Handling, Moved, InHand
<1>4. CASE Bind
  <2>1. UNCHANGED queue
    BY <1>4 DEF Bind
  <2> QED
    BY <1>1, <1>4, <2>1, Binds DEF Reading, Handling, Moved
<1>5. CASE Consume /\ ~SameFile
  <2>1. UNCHANGED <<queue, binding>> /\ br.pc = "consume"
    BY <1>5 DEF Consume, Stored
  <2>2. Moved("quarantine", br.todo, br.lease) /\ InHand
    BY <1>5, Moves
  <2>3. queue[br.lease].source = "clear"
    BY <1>5, <2>1 DEF Reading, Handling, SameFile
  <2> QED
    BY <1>1, <2>1, <2>2, <2>3 DEF Reading, Moved, InHand
<1>6. br'.pc \in Handling =>
        \/ (Read /\ br'.pc = "bind") \/ BindGuard \/ Bind
        \/ (Mark /\ Fenced) \/ (Consume /\ ~SameFile)
  BY Moves DEF Bridging, Bridge, Draining, Moved, Handling
<1> QED
  BY <1>2, <1>3, <1>4, <1>5, <1>6, <1>7, <1>8

-----------------------------------------------------------------------------
(* The superseded thread.                                                  *)

\* The clear that waits for lease l is one this or the next iteration comes to.
Due(l) ==
  /\ queue[l].source = "clear"
  /\ \/ br.pc \in {"off", "idle"} \/ l \in br.todo \/ l \in late
     \/ br.lease = l /\ br.pc \notin {"release", "adopt"}

\* What a request bound to the live lease is current, or a clear is due.
Superseding ==
  binding.by = "request" /\ binding.lease = lease =>
    binding.thread \in current[lease] \/ Due(lease)

\* A binding by request is of a lease.
LEMMA Requested ==
  ASSUME BindingTypes, binding.by = "request"
  PROVE  binding \in Bindings /\ binding.lease \in Leases /\ binding.lease # 0
BY Records, Numbers DEF BindingTypes, Bindings

\* A launch is of a lease that nothing is bound to yet.
LEMMA SeatSuperseding ==
  ASSUME BindingTypes, Superseding,
         Seating
  PROVE  Superseding'
<1>0. UNCHANGED <<queue, br, current, late>>
  BY DEF Seating, Launch, Close, Clear, Fork, Mail, HandGuard, BindByHand,
     Unbind, Requests
<1>1. CASE Launch
  <2>1. /\ lease' = launches + 1 /\ UNCHANGED binding
        /\ launches \in Nat /\ binding.lease <= launches
    BY <1>1, Numbers DEF Launch, BindingTypes, Stored
  <2>2. binding.by = "request" => binding.lease # launches + 1
    BY <2>1, Requested, Numbers
  <2> QED
    BY <2>1, <2>2 DEF Superseding
<1>2. CASE Close
  BY <1>2, Requested DEF Close, Superseding, Stored
<1>3. CASE Clear \/ Fork \/ Mail
  BY <1>0, <1>3 DEF Clear, Fork, Mail, Superseding, Due, Stored, Seat
<1>4. CASE BindByHand \/ Unbind
  BY <1>4, Records DEF BindByHand, Unbind, Superseding, BindingTypes
<1>5. CASE HandGuard
  BY <1>0, <1>5 DEF HandGuard, Superseding, Due, Stored, Seat
<1> QED
  BY <1>1, <1>2, <1>3, <1>4, <1>5 DEF Seating

\* A clear is due when it is published; any other request leaves the thread
\* that is bound current.
LEMMA HookSuperseding ==
  ASSUME BindingTypes, Superseding, Resolve \/ Publish \/ HookKilled
  PROVE  Superseding'
<1>0. UNCHANGED <<lease, br, binding>>
  BY DEF Resolve, Publish, HookKilled, Stored, Seat
<1>1. CASE UNCHANGED <<queue, current, late>>
  BY <1>0, <1>1 DEF Superseding, Due
<1>2. CASE Publish /\ (hook.source = "clear" \/ queue[hook.lease] = NoRequest)
  <2>1. hook \in Holding /\ hook.lease \in Leases
    BY <1>2 DEF Publish, BindingTypes, Holding
  <2>2. /\ \A l \in Leases : l # hook.lease =>
             queue'[l] = queue[l] /\ current'[l] = current[l]
        /\ queue'[hook.lease].source = hook.source
        /\ hook.source # "clear" =>
             current[hook.lease] \subseteq current'[hook.lease]
        /\ late \subseteq late'
        /\ Ahead(hook.lease) \/ hook.lease \in late'
    BY <1>2, <2>1 DEF Publish, BindingTypes
  <2> SUFFICES ASSUME binding.by = "request", binding.lease = lease
               PROVE  binding.thread \in current'[lease] \/ Due(lease)'
    BY <1>0 DEF Superseding
  <2>3. lease \in Leases
    BY Requested
  <2>4. CASE lease # hook.lease
    BY <1>0, <2>2, <2>3, <2>4 DEF Superseding, Due
  <2>5. CASE lease = hook.lease /\ hook.source = "clear"
    BY <1>0, <2>2, <2>5 DEF Due, Ahead
  <2>6. CASE lease = hook.lease /\ hook.source # "clear"
    <3>1. ~Due(lease)
      BY <1>2, <2>6, Records DEF Due
    <3> QED
      BY <2>2, <2>6, <3>1 DEF Superseding
  <2> QED
    BY <2>4, <2>5, <2>6
<1>3. \/ UNCHANGED <<queue, current, late>>
      \/ Publish /\ (hook.source = "clear" \/ queue[hook.lease] = NoRequest)
  BY DEF Resolve, Publish, HookKilled
<1> QED
  BY <1>1, <1>2, <1>3

\* Between iterations everything is due; an iteration lists what waits, comes
\* to each, and leaves nothing but what is late.
LEMMA BridgeSuperseding ==
  ASSUME BindingTypes, Mentioned, Reading, Superseding, Bridging
  PROVE  Superseding'
<1>0. UNCHANGED <<lease, current>>
  BY Apart
<1> SUFFICES ASSUME binding'.by = "request", binding'.lease = lease
             PROVE  binding'.thread \in current[lease] \/ Due(lease)'
  BY <1>0 DEF Superseding
<1>1. lease # 0 => lease \in Leases
  BY Numbers DEF BindingTypes
<1>2. ASSUME UNCHANGED binding
      PROVE  /\ lease \in Leases
             /\ binding.thread \in current[lease] \/ Due(lease)
  BY <1>1, <1>2, Requested DEF Superseding
<1>3. CASE Connect \/ BridgeKilled \/ Wake \/ Skip
  <2>1. UNCHANGED <<binding, queue>> /\ br'.pc \in {"off", "idle"}
    BY <1>3, Moves
       DEF Connect, BridgeKilled, Wake, Skip, Stored, Requests, Moved
  <2> QED
    BY <1>0, <1>2, <2>1 DEF Due
<1>4. CASE List
  <2>1. UNCHANGED <<binding, queue>>
        /\ br'.todo = {l \in Leases : queue[l] # NoRequest}
    BY <1>4, Moves DEF List, Stored, Moved
  <2> QED
    BY <1>0, <1>2, <2>1, Records DEF Due
<1>5. CASE Read
  <2>1. UNCHANGED <<binding, queue, late>> /\ br.pc = "drain" /\ br.lease = 0
    BY <1>5 DEF Read, Stored, BindingTypes, Busy
  <2>2. PICK l \in br.todo :
          \/ queue[l] = NoRequest /\ Moved("drain", br.todo \ {l}, 0)
          \/ Moved("bind", br.todo \ {l}, l)
    BY <1>5, Moves
  <2> QED
    BY <1>0, <1>2, <2>1, <2>2, Records, Numbers DEF Due, Moved
<1>6. CASE Drained
  <2>1. UNCHANGED <<binding, queue, late>> /\ br.pc = "drain" /\ br.lease = 0
        /\ br.todo = {}
    BY <1>6 DEF Drained, Stored, BindingTypes, Busy
  <2> QED
    BY <1>0, <1>2, <2>1, Numbers DEF Due
<1>7. CASE Bind
  <2>1. /\ br.pc = "guard" /\ br.lease = binding'.lease /\ lease \in Leases
        /\ binding'.thread = br.req.thread /\ br.req \in Reqs
        /\ UNCHANGED queue /\ br'.pc = "mark" /\ br'.lease = br.lease
    BY <1>7, Binds DEF Bind, Moved, BindingTypes, Busy
  <2>2. queue[lease].source = "clear" \/ br.req.thread \in current[lease]
    BY <2>1, Records DEF Reading, Handling
  <2> QED
    BY <1>0, <2>1, <2>2 DEF Due
<1>14. CASE BindGuard \/ (Mark /\ Fenced)
  <2>1. /\ UNCHANGED <<binding, queue, late>> /\ br'.lease = br.lease
        /\ br.pc \in {"bind", "mark"} /\ br'.pc \in {"guard", "consume"}
        /\ br'.todo = br.todo
    BY <1>14, Moves DEF BindGuard, Mark, Stored, Moved
  <2> QED
    BY <1>0, <1>2, <2>1 DEF Due
<1>8. CASE Defer
  <2>1. /\ UNCHANGED <<binding, queue>> /\ br.pc = "guard"
        /\ br'.todo = br.todo /\ late' = late \cup {br.lease}
    BY <1>8, Moves DEF Defer, Stored, Moved
  <2> QED
    BY <1>0, <1>2, <2>1 DEF Due
<1>9. CASE Consume
  <2>1. UNCHANGED <<binding, late>> /\ br.pc = "consume" /\ br'.todo = br.todo
    BY <1>9, Moves DEF Consume, Stored, Moved
  <2>2. CASE br.lease # lease
    <3>1. queue'[lease] = queue[lease]
      BY <1>2, <1>9, <2>1, <2>2, Removing
    <3> QED
      BY <1>0, <1>2, <2>1, <2>2, <3>1 DEF Due
  <2>3. CASE br.lease = lease /\ SameFile
    <3>1. queue[lease] = br.req
      BY <1>0, <1>2, <2>1, <2>3, Records DEF Reading, Handling, SameFile
    <3>2. br.req \in Reqs /\ binding = br.bound
          /\ br.bound.thread = br.req.thread
      BY <2>1 DEF BindingTypes, Busy, Reading
    <3> QED
      BY <1>0, <1>2, <2>1, <3>1, <3>2, Records DEF Reading
  <2>4. CASE br.lease = lease /\ ~SameFile
    <3>1. UNCHANGED queue /\ br'.pc = "quarantine" /\ br'.lease = br.lease
      BY <1>9, <2>4, Moves DEF Consume, Moved
    <3> QED
      BY <1>0, <1>2, <2>1, <2>4, <3>1 DEF Due
  <2> QED
    BY <2>2, <2>3, <2>4
<1>10. CASE Quarantine
  <2>1. br.pc = "quarantine" /\ UNCHANGED binding /\ binding # br.bound
    BY <1>10, Records DEF Quarantine, Stored, SameRevision
  <2> QED
    BY <2>1 DEF Reading
<1>11. CASE Reject \/ Ephemeral \/ (Mark /\ ~Fenced)
  <2>1. /\ UNCHANGED binding /\ br.pc \in Handling /\ br'.todo = br.todo
        /\ Refused /\ br.pc \in Busy
    BY <1>11, Moves DEF Reject, Ephemeral, Mark, Stored, Moved, Handling, Busy
  <2>2. CASE br.lease # lease
    <3>1. queue'[lease] = queue[lease] /\ late \subseteq late'
      BY <1>2, <1>11, <2>1, <2>2, Removing DEF Refused
    <3> QED
      BY <1>0, <1>2, <2>1, <2>2, <3>1 DEF Due, Handling
  <2>3. CASE br.lease = lease /\ SameFile
    <3>1. br.req.source # "clear"
      BY <1>11, <2>1, <2>3
         DEF Reject, Ephemeral, Fenced, Taken, Mentioned, Known
    <3>2. queue[lease] = br.req
      BY <1>0, <1>2, <2>1, <2>3, Records DEF Reading, SameFile
    <3> QED
      BY <1>0, <1>2, <2>1, <3>1, <3>2 DEF Due
  <2>4. CASE br.lease = lease /\ ~SameFile
    BY <1>0, <1>2, <2>1, <2>4 DEF Due, Refused
  <2> QED
    BY <2>2, <2>3, <2>4
<1>12. CASE Release
  <2>1. UNCHANGED <<binding, queue, late>> /\ br.pc = "release"
        /\ br'.todo = br.todo
    BY <1>12, Moves DEF Release, Stored, Moved
  <2> QED
    BY <1>0, <1>2, <2>1 DEF Due
<1>13. CASE AdoptGuard
  <2>1. /\ UNCHANGED <<binding, queue, late>> /\ br.pc = "step"
        /\ binding.lease # lease
    BY <1>13 DEF AdoptGuard, Stale, Stored
  <2> QED
    BY <2>1
<1>15. CASE Adopt
  <2>1. /\ UNCHANGED <<queue, late>> /\ br.pc = "adopt" /\ br.todo = {}
        /\ UNCHANGED binding
    BY <1>15, Adopts DEF Adopt, BindingTypes, Busy
  <2> QED
    BY <1>0, <1>2, <2>1 DEF Due
<1> QED
  BY <1>3, <1>4, <1>5, <1>6, <1>7, <1>8, <1>9, <1>10, <1>11, <1>12, <1>13,
     <1>14, <1>15 DEF Bridging, Bridge, Draining

-----------------------------------------------------------------------------
(* The invariant.                                                          *)

BindingInv ==
  BindingTypes /\ Mentioned /\ Children /\ Following /\ Reading /\ Superseding

\* It holds at the start ...
LEMMA InitInv == Init => BindingInv
<1> SUFFICES ASSUME Init PROVE BindingInv
  OBVIOUS
<1>1. BindingTypes
  BY InitTypes
<1>2. /\ hooks = {} /\ hook.thread = 0 /\ hook = NoHook /\ hook.lease = 0
      /\ \A l \in Leases : queue[l] = NoRequest /\ queue[l].thread = 0
      /\ br.pc = "off" /\ intent.lease = 0 /\ binding.by = "none"
  BY Records DEF Init, At, NoIntent
<1>3. Mentioned /\ Following /\ Reading /\ Superseding
  BY <1>2 DEF Mentioned, Following, Reading, Superseding, Busy, Handling
<1>4. Children
  BY <1>2, Numbers DEF Children, Lone, Busy
<1> QED
  BY <1>1, <1>3, <1>4 DEF BindingInv

\* ... and every step keeps it.
LEMMA NextInv == BindingInv /\ [Next]_vars => BindingInv'
<1> SUFFICES ASSUME BindingInv, [Next]_vars PROVE BindingInv'
  OBVIOUS
<1> USE DEF BindingInv
<1>1. CASE Launch \/ Close \/ Clear \/ Fork \/ Mail
  BY <1>1, SeatTypes, SeatMentioned, SeatFollowing, SeatReading,
     SeatSuperseding DEF Seating
<1>2. CASE HandGuard \/ BindByHand \/ Unbind
  <2>1. BindingTypes' /\ Following' /\ Reading' /\ Superseding'
    BY <1>2, HandTypes, SeatFollowing, SeatReading, SeatSuperseding
       DEF Seating
  <2>2. UNCHANGED <<launches, kind, hooks, hook, queue, br>>
    BY <1>2 DEF HandGuard, BindByHand, Unbind, Seat, Requests
  <2>3. Mentioned' /\ Children'
    BY <2>2 DEF Mentioned, Known, Children, Lone
  <2> QED
    BY <2>1, <2>3
<1>3. CASE Resolve \/ Publish \/ HookKilled
  BY <1>3, HookTypes, HookMentioned, HookFollowing, HookReading,
     HookSuperseding
<1>4. CASE Bridging
  <2>1. BindingTypes'
    BY <1>4, BridgeTypes DEF Mentioned
  <2> QED
    BY <1>4, <2>1, BridgeMentioned, BridgeFollowing, BridgeReading,
       BridgeSuperseding
<1>5. CASE UNCHANGED vars
  BY <1>5 DEF vars, Seat, Requests, Stored, Bounds, BindingTypes, Mentioned,
     Known, Children, Lone, Following, Reading, Superseding, Due
<1> QED
  BY <1>1, <1>2, <1>3, <1>4, <1>5 DEF Next, Hooks, Bridging

\* The requests, the intent and the binding always agree as it says.
THEOREM Invariance == Spec => []BindingInv
BY InitInv, NextInv, PTL DEF Spec

-----------------------------------------------------------------------------
(* The properties.                                                         *)

\* Every variable keeps its type.
THEOREM TypeCorrect == Spec => []TypeOK
<1>1. BindingInv => TypeOK
  BY DEF BindingInv, BindingTypes, TypeOK, Waiting, Holding, Sources, Reqs,
     Bindings, Bridges, Busy, Guards, Places, Kinds
<1> QED
  BY <1>1, Invariance, PTL

\* The request that waits for a live lease is of the thread that owns its
\* intent: the two steps of each hook, and the one of a child's release, never
\* leave them apart.
THEOREM QueueInOrder == Spec => []QueueFollowsIntent
<1>1. BindingInv => QueueFollowsIntent
  BY Records DEF BindingInv, Following, QueueFollowsIntent
<1> QED
  BY <1>1, Invariance, PTL

\* A clear that is there when the bridge comes to its lease is never followed
\* by a wake of the thread it replaced.
THEOREM SupersededNotWoken == Spec => NeverWakeSuperseded
<1>1. ASSUME BindingInv, [Next]_vars, mail, ~mail', binding.by = "request"
      PROVE  binding.thread \in current[binding.lease]
             \/ binding.lease \in late
  <2>1. Wake
    BY <1>1 DEF BindingInv, BindingTypes, Next, vars, Launch, Close, Clear,
       Fork, Mail, HandGuard, BindByHand, Unbind, Hooks, Resolve, Publish,
       HookKilled, BridgeKilled, Bridge, Draining, Connect, List, Read, Drained,
       BindGuard, Bind, Mark, Consume, Quarantine, Reject, Ephemeral, Release,
       AdoptGuard, Adopt, Defer, Skip
  <2>2. /\ br.pc \in {"step", "wake"} /\ br.todo = {} /\ br.lease = 0
        /\ binding.lease = lease
    BY <1>1, <2>1 DEF Wake, BindingInv, BindingTypes, Busy
  <2>3. lease # 0
    BY <1>1, <2>2, Requested DEF BindingInv
  <2> QED
    BY <1>1, <2>2, <2>3 DEF BindingInv, Superseding, Due
<1> QED
  BY <1>1, Invariance, PTL DEF Spec, NeverWakeSuperseded

\* What was bound by hand goes by a hand, a clear or another launch alone.
THEOREM HandKept == Spec => HandBindingKept
<1> DEFINE Kept ==
      \/ binding'.by = "hand" \/ hand' # hand \/ ByClear
      \/ binding'.lease # binding.lease /\ binding' # NoBinding
<1>1. ASSUME BindingInv, [Next]_vars, binding.by = "hand", binding' # binding
      PROVE  Kept
  <2>0. BindingTypes /\ Reading
    BY <1>1 DEF BindingInv
  <2>1. BindByHand \/ Unbind \/ Bind \/ Quarantine \/ Adopt
    BY <1>1 DEF Next, vars, Launch, Close, Clear, Fork, Mail, HandGuard, Hooks,
       Resolve, Publish, HookKilled, BridgeKilled, Bridge, Draining, Connect,
       List, Read, Drained, BindGuard, Mark, Consume, Reject, Ephemeral,
       Release, AdoptGuard, Wake, Defer, Skip, Stored
  <2>2. CASE BindByHand \/ Unbind
    BY <2>0, <2>2 DEF BindByHand, Unbind, BindingTypes
  <2>3. CASE Bind
    <3>1. /\ binding' \in Bindings /\ binding'.lease = br.lease
          /\ binding'.by = "request" /\ binding' # NoBinding
      BY <1>1, <2>0, <2>3, Binds, Records
    <3>2. ~Taken /\ ~(SameFence /\ binding.thread = br.req.thread)
      BY <1>1, <2>3 DEF Bind, Stored
    <3> QED
      BY <3>1, <3>2 DEF Taken, SameFence, ByClear
  <2>4. CASE Quarantine
    <3>1. br.pc = "quarantine" /\ binding = br.bound
      BY <1>1, <2>4 DEF Quarantine, SameRevision, Stored
    <3> QED
      BY <2>0, <3>1 DEF Reading, Handling, ByClear
  <2>5. CASE Adopt
    BY <1>1, <2>0, <2>5, Adopts, Records
  <2> QED
    BY <2>1, <2>2, <2>3, <2>4, <2>5
<1> QED
  BY <1>1, Invariance, PTL DEF Spec, HandBindingKept

\* However long the bridge waits for the app-server after it has checked a
\* lease, and whoever dies meanwhile, a thread is bound only to the lease of the
\* seat's record: none that was released, and none that a launch has replaced.
THEOREM ReplacedNotBound == Spec => NeverBindsReplacedLease
<1>1. ASSUME BindingInv, [Next]_vars, binding' \notin {binding, NoBinding}
      PROVE  binding'.lease = record
  <2>0. BindingTypes
    BY <1>1 DEF BindingInv
  <2>1. BindByHand \/ Bind \/ Adopt
    BY <1>1 DEF Next, vars, Launch, Close, Clear, Fork, Mail, HandGuard, Unbind,
       Hooks, Resolve, Publish, HookKilled, BridgeKilled, Bridge, Draining,
       Connect, List, Read, Drained, BindGuard, Mark, Consume, Quarantine,
       Reject, Ephemeral, Release, AdoptGuard, Wake, Defer, Skip, Stored
  <2>2. CASE BindByHand
    BY <2>0, <2>2 DEF BindByHand, BindingTypes
  <2>3. CASE Bind
    BY <2>0, <2>3, Binds
  <2>4. CASE Adopt
    BY <1>1, <2>0, <2>4, Adopts
  <2> QED
    BY <2>1, <2>2, <2>3, <2>4
<1> QED
  BY <1>1, Invariance, PTL DEF Spec, NeverBindsReplacedLease
=============================================================================
