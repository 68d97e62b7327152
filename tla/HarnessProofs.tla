---------------------------- MODULE HarnessProofs ----------------------------
(***************************************************************************)
(* Proofs about the three parts that MCHarnesses runs: the settings of the *)
(* harnesses (HarnessSetup), the phone host (RCHost) and the launch        *)
(* preflight of Codex (CodexService).  Each has an inductive invariant,    *)
(* and the run's properties follow from it for every number of commands,   *)
(* launchers, edits, faults and releases.                                  *)
(***************************************************************************)
EXTENDS MCHarnesses, TLAPS

-----------------------------------------------------------------------------
(* The phone host.                                                         *)

HostSettings == [text : 0..HostEdits, hook : BOOLEAN]
HostStates == [on : BOOLEAN, reg : 0..HostRegs]
HostWords == {"hook", "plist", "state", "load", "unhook", "unplist", "unstate",
              "settings", "replist", "restate", "reload"}

HostLists == Seq([do : HostWords])

HostFrames == [pc : Host!Commands \cup {"idle", "retiring", "write", "undo"},
               todo : HostLists, undo : HostLists,
               before : {<<>>} \cup
                        [settings : HostSettings, plist : BOOLEAN,
                         state : HostStates],
               new : {<<>>} \cup HostSettings, loaded : BOOLEAN]

HostTypes ==
  /\ settings \in HostSettings /\ hostPlist \in BOOLEAN
       /\ hostState \in HostStates
  /\ job \in {"out", "in", "leaving"}
  /\ hostBroken \in BOOLEAN /\ stray \in BOOLEAN
  /\ guard \in HostProcs \cup {none}
  /\ hostPr \in [HostProcs -> HostFrames]
  /\ text \in 0..HostEdits /\ regs \in 0..HostRegs /\ kept \in 0..HostRegs
  /\ hostFaults \in 0..HostFaults
  /\ \A c \in HostProcs : (guard = c) <=> hostPr[c].pc # "idle"

\* What is on the disk while the steps of an enable that is left to do are
\* todo, forward and back.
HostEnabling(c) ==
  /\ hostPr[c].undo = <<Host!Do("settings"), Host!Do("unplist"),
                        Host!Do("unstate")>>
  /\ hostPr[c].before.settings \in HostSettings
  /\ hostPr[c].before.settings.text = text /\ ~hostPr[c].before.settings.hook
  /\ hostPr[c].new \in HostSettings /\ hostPr[c].new.text = text
       /\ hostPr[c].new.hook
  /\ \/ /\ hostPr[c].pc = "write" /\ job = "out"
        /\ \/ hostPr[c].todo
                = <<Host!Do("hook"), Host!Do("plist"), Host!Do("state"),
                    Host!Do("load")>>
           \/ hostPr[c].todo
                = <<Host!Do("plist"), Host!Do("state"), Host!Do("load")>>
              /\ settings.hook
           \/ hostPr[c].todo = <<Host!Do("state"), Host!Do("load")>>
                /\ settings.hook /\ hostPlist
           \/ hostPr[c].todo = <<Host!Do("load")>> /\ settings.hook
                /\ hostPlist /\ hostState.on
     \/ /\ hostPr[c].pc = "write" /\ hostPr[c].todo = <<>>
        /\ settings.hook /\ hostPlist /\ hostState.on
     \/ /\ hostPr[c].pc = "undo" /\ job = "out"
        /\ \/ hostPr[c].todo = <<Host!Do("settings"), Host!Do("unplist"),
                                 Host!Do("unstate")>>
           \/ hostPr[c].todo = <<Host!Do("unplist"), Host!Do("unstate")>>
                /\ ~settings.hook
           \/ hostPr[c].todo = <<Host!Do("unstate")>> /\ ~settings.hook
                /\ ~hostPlist
           \/ hostPr[c].todo = <<>> /\ ~settings.hook /\ ~hostPlist
                /\ ~hostState.on

\* The same of a disable.
HostDisabling(c) ==
  /\ hostPr[c].undo = <<Host!Do("settings"), Host!Do("replist"),
                        Host!Do("restate"), Host!Do("reload")>>
  /\ hostPr[c].before.settings \in HostSettings
  /\ hostPr[c].before.settings.text = text /\ hostPr[c].before.settings.hook
  /\ hostPr[c].before.state \in HostStates /\ hostPr[c].before.state.on
  /\ hostPr[c].new \in HostSettings /\ hostPr[c].new.text = text
       /\ ~hostPr[c].new.hook
  /\ \/ /\ hostPr[c].pc = "write" /\ job = "out"
        /\ \/ hostPr[c].todo = <<Host!Do("unhook"), Host!Do("unplist"),
                                 Host!Do("unstate")>>
           \/ hostPr[c].todo = <<Host!Do("unplist"), Host!Do("unstate")>>
                /\ ~settings.hook
           \/ hostPr[c].todo = <<Host!Do("unstate")>> /\ ~settings.hook
                /\ ~hostPlist
           \/ hostPr[c].todo = <<>> /\ ~settings.hook /\ ~hostPlist
                /\ ~hostState.on
     \/ /\ hostPr[c].pc = "undo" /\ job = "out"
        /\ \/ hostPr[c].todo = <<Host!Do("settings"), Host!Do("replist"),
                                 Host!Do("restate"),
                             Host!Do("reload")>>
           \/ hostPr[c].todo = <<Host!Do("replist"), Host!Do("restate"),
                                 Host!Do("reload")>>
              /\ settings.hook
           \/ hostPr[c].todo = <<Host!Do("restate"), Host!Do("reload")>>
              /\ settings.hook /\ hostPlist
           \/ hostPr[c].todo = <<Host!Do("reload")>> /\ settings.hook
                /\ hostPlist /\ hostState.on
     \/ /\ hostPr[c].pc = "undo" /\ hostPr[c].todo = <<>>
        /\ settings.hook /\ hostPlist /\ hostState.on

HostRetiring(c) ==
  /\ hostPr[c].undo = <<Host!Do("settings"), Host!Do("replist"),
                        Host!Do("restate"), Host!Do("reload")>>
  /\ hostPr[c].todo = <<Host!Do("unhook"), Host!Do("unplist"),
                        Host!Do("unstate")>>
  /\ hostPr[c].before.settings \in HostSettings
  /\ hostPr[c].before.settings.text = text /\ hostPr[c].before.settings.hook
  /\ hostPr[c].before.state \in HostStates /\ hostPr[c].before.state.on
  /\ hostPr[c].new \in HostSettings /\ hostPr[c].new.text = text
       /\ ~hostPr[c].new.hook

HostChanging(c) == hostPr[c].pc \in {"write", "undo"}

\* The inductive invariant of the host: a command in the middle of a change is
\* at one of the points of that change, and otherwise hooks, definition and
\* state agree, unless a command was killed or its rollback cut short.
HostInv ==
  /\ HostTypes
  /\ \A c \in HostProcs : HostChanging(c)
       => HostEnabling(c) \/ HostDisabling(c)
  /\ \A c \in HostProcs : hostPr[c].pc = "retiring" => HostRetiring(c)
  /\ (\A c \in HostProcs : ~HostChanging(c)) /\ ~hostBroken =>
       settings.hook = hostPlist /\ hostPlist = hostState.on
  /\ ~hostState.on => hostState = Host!Off
  /\ Host!ContentKept
  /\ Host!HostReversible
  /\ uninstall \in {"checked", "gone"} => ~hostState.on /\ guard = none

\* A step of a command is a word, and the head and the tail of the lists of
\* steps that a change is made of.
LEMMA HostSteps ==
  /\ \A a \in HostWords : Host!Do(a) \in [do : HostWords] /\ Host!Do(a).do = a
  /\ \A a : <<a>> # <<>> /\ Head(<<a>>) = a /\ Tail(<<a>>) = <<>>
  /\ \A a, b : /\ <<a, b>> # <<>> /\ Head(<<a, b>>) = a
               /\ Tail(<<a, b>>) = <<b>>
  /\ \A a, b, d : /\ <<a, b, d>> # <<>> /\ Head(<<a, b, d>>) = a
                  /\ Tail(<<a, b, d>>) = <<b, d>>
  /\ \A a, b, d, e : /\ <<a, b, d, e>> # <<>> /\ Head(<<a, b, d, e>>) = a
                     /\ Tail(<<a, b, d, e>>) = <<b, d, e>>
<1>1. \A a \in HostWords : Host!Do(a) \in [do : HostWords] /\ Host!Do(a).do = a
  BY DEF Host!Do
<1>2. \A a : <<a>> # <<>> /\ Head(<<a>>) = a /\ Tail(<<a>>) = <<>>
  OBVIOUS
<1>3. \A a, b : /\ <<a, b>> # <<>> /\ Head(<<a, b>>) = a
               /\ Tail(<<a, b>>) = <<b>>
  OBVIOUS
<1>4. \A a, b, d : /\ <<a, b, d>> # <<>> /\ Head(<<a, b, d>>) = a
                  /\ Tail(<<a, b, d>>) = <<b, d>>
  OBVIOUS
<1>5. \A a, b, d, e : /\ <<a, b, d, e>> # <<>> /\ Head(<<a, b, d, e>>) = a
                     /\ Tail(<<a, b, d, e>>) = <<b, d, e>>
  OBVIOUS
<1> QED
  BY <1>1, <1>2, <1>3, <1>4, <1>5

\* What each step does to the files and the job.
LEMMA HostEffects ==
  ASSUME NEW c
  PROVE /\ Host!Effect(c, "hook") \/ Host!Effect(c, "unhook") =>
             settings' = hostPr[c].new
               /\ UNCHANGED <<hostPlist, hostState, job, kept>>
        /\ Host!Effect(c, "plist") \/ Host!Effect(c, "replist") =>
             hostPlist' = TRUE /\ UNCHANGED <<settings, hostState, job, kept>>
        /\ Host!Effect(c, "unplist") =>
             hostPlist' = FALSE /\ UNCHANGED <<settings, hostState, job, kept>>
        /\ Host!Effect(c, "state") =>
             /\ hostState' = [on |-> TRUE, reg |-> 0] /\ kept' = 0
             /\ UNCHANGED <<settings, hostPlist, job>>
        /\ Host!Effect(c, "unstate") =>
             hostState' = Host!Off /\ kept' = 0
               /\ UNCHANGED <<settings, hostPlist, job>>
        /\ Host!Effect(c, "restate") =>
             /\ hostState' = hostPr[c].before.state
                  /\ kept' = hostPr[c].before.state.reg
             /\ UNCHANGED <<settings, hostPlist, job>>
        /\ Host!Effect(c, "settings") =>
             /\ settings' = hostPr[c].before.settings
             /\ UNCHANGED <<hostPlist, hostState, job, kept>>
        /\ Host!Effect(c, "load") =>
             job' = "in" /\ UNCHANGED <<settings, hostPlist, hostState, kept>>
        /\ Host!Effect(c, "reload") =>
             job' \in {"in", job}
               /\ UNCHANGED <<settings, hostPlist, hostState, kept>>
BY DEF Host!Effect

\* The invariant holds before the first command.
LEMMA InitHost == Host!RCHostAssumption /\ Host!Init => HostInv
<1> SUFFICES ASSUME Host!RCHostAssumption, Host!Init PROVE HostInv
  OBVIOUS
<1>1. Host!Idle \in HostFrames /\ Host!Idle.pc = "idle"
  BY DEF Host!Idle, HostFrames, Host!Commands, HostLists
<1>2. HostTypes
  <2>1. settings \in HostSettings /\ hostState \in HostStates
      /\ hostPlist \in BOOLEAN
    <3>1. 0 \in 0..HostEdits /\ 0 \in 0..HostRegs
      BY DEF Host!RCHostAssumption
    <3>2. settings = [text |-> 0, hook |-> FALSE]
          /\ hostState = [on |-> FALSE, reg |-> 0] /\ hostPlist = FALSE
      BY Zenon DEF Host!Init, Host!Off
    <3>3. [text |-> 0, hook |-> FALSE] \in HostSettings
      BY <3>1 DEF HostSettings
    <3>4. [on |-> FALSE, reg |-> 0] \in HostStates
      BY <3>1 DEF HostStates
    <3> QED
      BY <3>2, <3>3, <3>4, Zenon
  <2>2. /\ hostPr \in [HostProcs -> HostFrames]
        /\ \A c \in HostProcs : (guard = c) <=> hostPr[c].pc # "idle"
    BY <1>1 DEF Host!Init, Host!RCHostAssumption
  <2> QED
    <3>1. text \in 0..HostEdits /\ regs \in 0..HostRegs /\ kept \in 0..HostRegs
          /\ hostFaults \in 0..HostFaults
      BY DEF Host!Init, Host!RCHostAssumption
    <3>2. /\ job \in {"out", "in", "leaving"} /\ hostBroken \in BOOLEAN
          /\ stray \in BOOLEAN /\ guard \in HostProcs \cup {none}
      BY Zenon DEF Host!Init
    <3> QED
      BY <2>1, <2>2, <3>1, <3>2 DEF HostTypes
<1> QED
  BY <1>1, <1>2 DEF Host!Init, HostInv, HostChanging, Host!ContentKept,
     Host!HostReversible, Host!Off

\* A command ends and leaves files that agree, or a broken host.
LEMMA Ended ==
  ASSUME Host!RCHostAssumption, HostInv, NEW c \in HostProcs, guard = c,
         Host!Release(c),
         settings' \in HostSettings, hostPlist' \in BOOLEAN,
           hostState' \in HostStates,
         job' \in {"out", "in", "leaving"}, hostBroken' \in BOOLEAN,
         stray' \in BOOLEAN, hostFaults' \in 0..HostFaults, text' = text,
         regs' \in 0..HostRegs, kept' \in 0..HostRegs, uninstall' = uninstall,
         ~hostBroken'
           => settings'.hook = hostPlist' /\ hostPlist' = hostState'.on,
         ~hostState'.on
           => hostState' = Host!Off, Host!ContentKept', Host!HostReversible'
  PROVE  HostInv'
<1>1. Host!Idle \in HostFrames /\ Host!Idle.pc = "idle"
  BY DEF Host!Idle, HostFrames, Host!Commands, HostLists
<1>2. /\ guard' = none /\ hostPr' \in [HostProcs -> HostFrames]
      /\ \A d \in HostProcs : hostPr'[d].pc = "idle"
  BY <1>1 DEF Host!Release, HostInv, HostTypes
<1>3. HostTypes'
  BY <1>2 DEF HostTypes, HostInv, Host!RCHostAssumption
<1>4. uninstall' \notin {"checked", "gone"}
  BY DEF HostInv, Host!RCHostAssumption
<1> QED
  BY <1>2, <1>3, <1>4 DEF HostInv, HostChanging

\* A command goes on.
LEMMA GoesOn ==
  ASSUME Host!RCHostAssumption, HostInv, NEW c \in HostProcs, guard = c,
         guard' = c,
         NEW r \in HostFrames, r.pc # "idle",
           hostPr' = [hostPr EXCEPT ![c] = r],
         settings' \in HostSettings, hostPlist' \in BOOLEAN,
           hostState' \in HostStates,
         job' \in {"out", "in", "leaving"}, hostBroken' = hostBroken,
           stray' = stray,
         hostFaults' \in 0..HostFaults, text' = text, regs' = regs,
         kept' \in 0..HostRegs, uninstall' = uninstall,
         HostChanging(c)' => HostEnabling(c)' \/ HostDisabling(c)',
         r.pc = "retiring" => HostRetiring(c)',
         ~HostChanging(c)' /\ ~hostBroken
           => settings'.hook = hostPlist' /\ hostPlist' = hostState'.on,
         ~hostState'.on
           => hostState' = Host!Off, Host!ContentKept', Host!HostReversible'
  PROVE  HostInv'
<1>1. /\ hostPr' \in [HostProcs -> HostFrames] /\ hostPr'[c] = r
      /\ \A d \in HostProcs \ {c} : hostPr'[d] = hostPr[d]
           /\ hostPr'[d].pc = "idle"
  BY DEF HostInv, HostTypes
<1>2. HostTypes'
  BY <1>1 DEF HostTypes, HostInv
<1>3. uninstall' \notin {"checked", "gone"}
  BY DEF HostInv, Host!RCHostAssumption
<1> QED
  BY <1>1, <1>2, <1>3 DEF HostInv, HostChanging
\* Everybody but the holder of the guard is idle.
\* A command that begins takes the guard, and everybody else is idle.
LEMMA StartInv ==
  ASSUME Host!RCHostAssumption, HostInv, NEW c \in HostProcs,
         NEW op \in Host!Commands,
         Host!Start(c, op)
  PROVE  HostInv'
<1>1. /\ hostPr' = [hostPr EXCEPT ![c].pc = op] /\ guard' = c
      /\ UNCHANGED <<settings, hostPlist, hostState, job, text, regs, stray,
                     kept,
                     hostFaults, hostBroken>>
      /\ uninstall' \notin {"checked", "gone"}
  BY DEF Host!Start, Host!Races, Host!Removed
<1>2. \A d \in HostProcs : hostPr[d].pc = "idle"
  BY DEF Host!Start, HostInv, HostTypes, Host!RCHostAssumption
<1>3. /\ hostPr' \in [HostProcs -> HostFrames] /\ hostPr'[c].pc = op
           /\ op \notin {"idle", "write", "undo", "retiring"}
      /\ \A d \in HostProcs \ {c} : hostPr'[d] = hostPr[d]
  BY <1>1 DEF HostInv, HostTypes, HostFrames, Host!Commands
<1>4. HostTypes'
  BY <1>1, <1>2, <1>3 DEF HostInv, HostTypes
<1> QED
  BY <1>1, <1>2, <1>3, <1>4 DEF HostInv, HostChanging, Host!ContentKept,
     Host!HostReversible

\* A command that has the guard reads the files, plans its steps and the
\* steps back, and is at the first point of Enabling or Disabling.
LEMMA PlanInv ==
  ASSUME Host!RCHostAssumption, HostInv, NEW c \in HostProcs,
         Host!PlanEnable(c) \/ Host!PlanDisable(c) \/ Host!Retired(c)
  PROVE  HostInv'
<1>0. /\ settings \in HostSettings /\ hostPlist \in BOOLEAN
           /\ hostState \in HostStates
      /\ hostPr[c] \in HostFrames /\ job \in {"out", "in", "leaving"}
      /\ hostFaults \in 0..HostFaults /\ kept \in 0..HostRegs
           /\ settings.text = text
      /\ ~hostState.on => hostState = Host!Off
      /\ hostState.on => hostState.reg = kept
      /\ job = "in" /\ ~stray => hostState.on
      /\ hostPr \in [HostProcs -> HostFrames]
  BY DEF HostInv, HostTypes, Host!ContentKept, Host!HostReversible
<1>1. CASE Host!PlanEnable(c)
  <2> DEFINE r == [hostPr[c] EXCEPT !.pc = "write", !.todo = Host!EnableSteps,
       !.undo = <<Host!Do("settings"), Host!Do("unplist"),
                  Host!Do("unstate")>>,
       !.before = [settings |-> settings, plist |-> hostPlist,
                   state |-> hostState],
       !.new = [settings EXCEPT !.hook = TRUE]]
  <2>1. /\ guard = c /\ guard' = c /\ hostPr' = [hostPr EXCEPT ![c] = r]
        /\ UNCHANGED <<settings, hostPlist, hostState, job, uninstall, text,
                       regs, stray,
                       kept, hostFaults, hostBroken>>
        /\ job = "out" /\ ~settings.hook
    BY <1>0, <1>1 DEF Host!PlanEnable, Host!Holds, Host!Loaded, Host!Others
  <2>2. Host!EnableSteps \in HostLists
      /\ <<Host!Do("settings"), Host!Do("unplist"), Host!Do("unstate")>>
           \in HostLists
    BY HostSteps DEF Host!EnableSteps, HostLists, HostWords
  <2>3. /\ [settings EXCEPT !.hook = TRUE] \in HostSettings
        /\ [settings EXCEPT !.hook = TRUE].text = text
        /\ [settings EXCEPT !.hook = TRUE].hook
    BY <1>0, <2>1 DEF HostSettings
  <2>4. /\ r \in HostFrames /\ r.pc = "write" /\ r.todo = Host!EnableSteps
        /\ r.undo = <<Host!Do("settings"), Host!Do("unplist"),
                      Host!Do("unstate")>>
        /\ r.before.settings = settings
             /\ r.new = [settings EXCEPT !.hook = TRUE]
    BY <1>0, <2>2, <2>3 DEF HostFrames
  <2> HIDE DEF r
  <2>5. hostPr'[c] = r
    BY <1>0, <2>1
  <2>6. HostEnabling(c)'
    BY <1>0, <2>1, <2>3, <2>4, <2>5 DEF HostEnabling, Host!EnableSteps
  <2> QED
    BY <1>0, <2>1, <2>4, <2>5, <2>6, GoesOn DEF HostChanging,
       Host!ContentKept, Host!HostReversible
<1>2. CASE Host!PlanDisable(c)
  <2> DEFINE r == [hostPr[c] EXCEPT !.pc
                   = IF Host!Loaded THEN "retiring" ELSE "write",
       !.todo = Host!DisableSteps, !.loaded = Host!Loaded,
       !.undo = <<Host!Do("settings"), Host!Do("replist"), Host!Do("restate"),
                  Host!Do("reload")>>,
       !.before = [settings |-> settings, plist |-> hostPlist,
                   state |-> hostState],
       !.new = [settings EXCEPT !.hook = FALSE]]
  <2>1. /\ guard = c /\ guard' = c /\ hostPr' = [hostPr EXCEPT ![c] = r]
        /\ UNCHANGED <<settings, hostPlist, hostState, uninstall, text, regs,
                       stray,
                       kept, hostFaults, hostBroken>>
        /\ settings.hook /\ hostPlist /\ hostState.on
        /\ job' = IF Host!Loaded THEN "leaving" ELSE job
    BY <1>0, <1>2 DEF Host!PlanDisable, Host!Holds, Host!Others,
       Host!Configured
  <2>2. Host!DisableSteps \in HostLists
      /\ <<Host!Do("settings"), Host!Do("replist"), Host!Do("restate"),
           Host!Do("reload")>> \in HostLists
    BY HostSteps DEF Host!DisableSteps, HostLists, HostWords
  <2>3. /\ [settings EXCEPT !.hook = FALSE] \in HostSettings
        /\ [settings EXCEPT !.hook = FALSE].text = text
        /\ ~[settings EXCEPT !.hook = FALSE].hook
    BY <1>0, <2>1 DEF HostSettings
  <2>4. /\ r \in HostFrames
             /\ r.pc = (IF Host!Loaded THEN "retiring" ELSE "write")
        /\ r.todo = Host!DisableSteps
        /\ r.undo = <<Host!Do("settings"), Host!Do("replist"),
                      Host!Do("restate"), Host!Do("reload")>>
        /\ r.before.settings = settings /\ r.before.state = hostState
        /\ r.new = [settings EXCEPT !.hook = FALSE]
    <3>1. Host!Loaded \in BOOLEAN
      BY DEF Host!Loaded
    <3> QED
      BY <1>0, <2>2, <2>3, <3>1 DEF HostFrames
  <2> HIDE DEF r
  <2>5. hostPr'[c] = r
    BY <1>0, <2>1
  <2>6. CASE Host!Loaded
    <3>1. HostRetiring(c)'
      BY <1>0, <2>1, <2>3, <2>4, <2>5 DEF HostRetiring, Host!DisableSteps
    <3>2. job' = "leaving" /\ r.pc = "retiring"
      BY <2>1, <2>4, <2>6
    <3> QED
      BY <1>0, <2>1, <2>4, <2>5, <3>1, <3>2, GoesOn DEF HostChanging,
         Host!ContentKept, Host!HostReversible
  <2>7. CASE ~Host!Loaded
    <3>1. job' = "out" /\ r.pc = "write"
      BY <2>1, <2>4, <2>7 DEF Host!Loaded
    <3>2. HostDisabling(c)'
      BY <1>0, <2>1, <2>3, <2>4, <2>5, <3>1 DEF HostDisabling,
         Host!DisableSteps
    <3> QED
      BY <1>0, <2>1, <2>4, <2>5, <3>1, <3>2, GoesOn DEF HostChanging,
         Host!ContentKept, Host!HostReversible
  <2> QED
    BY <2>6, <2>7
<1>3. CASE Host!Retired(c)
  <2> DEFINE r == [hostPr[c] EXCEPT !.pc = "write"]
  <2>1. /\ guard = c /\ guard' = c /\ hostPr' = [hostPr EXCEPT ![c] = r]
        /\ UNCHANGED <<settings, hostPlist, hostState, job, uninstall, text,
                       regs, stray,
                       kept, hostFaults, hostBroken>>
        /\ job = "out" /\ hostPr[c].pc = "retiring"
    BY <1>0, <1>3 DEF Host!Retired, Host!Holds, Host!Loaded, Host!Others
  <2>2. /\ r \in HostFrames /\ r.pc = "write" /\ r.todo = hostPr[c].todo
        /\ r.undo = hostPr[c].undo /\ r.before = hostPr[c].before
             /\ r.new = hostPr[c].new
    BY <1>0 DEF HostFrames
  <2> HIDE DEF r
  <2>3. hostPr'[c] = r
    BY <1>0, <2>1
  <2>4. HostRetiring(c)
    BY <2>1 DEF HostInv
  <2>5. HostDisabling(c)'
    BY <2>1, <2>2, <2>3, <2>4 DEF HostDisabling, HostRetiring
  <2> QED
    BY <1>0, <2>1, <2>2, <2>3, <2>5, GoesOn DEF HostChanging,
       Host!ContentKept, Host!HostReversible
<1> QED
  BY <1>1, <1>2, <1>3

\* The steps that end a command, done or failed or killed.
LEMMA EndInv ==
  ASSUME Host!RCHostAssumption, HostInv, NEW c \in HostProcs,
         Host!ReEnable(c) \/ Host!Decline(c) \/ Host!Register(c)
           \/ Host!Succeed(c) \/ Host!UndoFails(c) \/ Host!Kill(c)
  PROVE  HostInv'
<1>0. /\ settings \in HostSettings /\ hostPlist \in BOOLEAN
           /\ hostState \in HostStates
      /\ hostPr[c] \in HostFrames /\ job \in {"out", "in", "leaving"}
      /\ hostBroken \in BOOLEAN /\ stray \in BOOLEAN
      /\ hostFaults \in 0..HostFaults /\ kept \in 0..HostRegs
           /\ regs \in 0..HostRegs
      /\ settings.text = text
      /\ ~hostState.on => hostState = Host!Off
      /\ hostState.on => hostState.reg = kept
      /\ job = "in" /\ ~stray => hostState.on
  BY DEF HostInv, HostTypes, Host!ContentKept, Host!HostReversible
<1>1. guard = c => \A d \in HostProcs \ {c} : ~HostChanging(d)
  BY DEF HostInv, HostTypes, HostChanging
<1>2. guard = c /\ ~HostChanging(c) /\ ~hostBroken
    => settings.hook = hostPlist /\ hostPlist = hostState.on
  BY <1>1 DEF HostInv
<1>3. CASE Host!ReEnable(c)
  <2>1. ~HostChanging(c) /\ guard = c /\ Host!Release(c)
        /\ UNCHANGED <<settings, hostPlist, hostState, uninstall, text, regs,
                       stray, kept, hostFaults, hostBroken>>
        /\ job' \in {job, "in"} /\ hostState.on
    BY <1>3 DEF Host!ReEnable, Host!Holds, HostChanging, Host!Others
  <2> QED
    BY <1>0, <1>2, <2>1, Ended DEF Host!ContentKept, Host!HostReversible
<1>4. CASE Host!Decline(c)
  <2>1. ~HostChanging(c) /\ guard = c /\ Host!Release(c)
        /\ UNCHANGED <<settings, hostPlist, hostState, job, uninstall, text,
                       regs, stray, kept, hostFaults, hostBroken>>
    BY <1>4 DEF Host!Decline, HostChanging, Host!Others
  <2> QED
    BY <1>0, <1>2, <2>1, Ended DEF Host!ContentKept, Host!HostReversible
<1>5. CASE Host!Register(c)
  <2>1. ~HostChanging(c) /\ guard = c /\ Host!Release(c)
        /\ UNCHANGED <<settings, hostPlist, job, uninstall, text, stray,
                       hostFaults, hostBroken>>
        /\ regs' = regs + 1 /\ kept' = regs'
             /\ hostState' = [hostState EXCEPT !.reg = regs + 1]
        /\ regs < HostRegs /\ hostState.on
    BY <1>5 DEF Host!Register, Host!Holds, HostChanging
  <2>2. regs' \in 0..HostRegs
    BY <1>0, <2>1 DEF Host!RCHostAssumption
  <2>3. hostState' \in HostStates /\ hostState'.on = hostState.on
      /\ hostState'.reg = kept' /\ kept' \in 0..HostRegs
    BY <1>0, <2>1, <2>2 DEF HostStates
  <2> QED
    BY <1>0, <1>2, <2>1, <2>2, <2>3, Ended DEF Host!ContentKept,
       Host!HostReversible
<1>6. CASE Host!Succeed(c)
  <2>1. HostChanging(c) /\ guard = c /\ Host!Release(c)
      /\ hostPr[c].todo = <<>>
        /\ UNCHANGED <<settings, hostPlist, hostState, job, uninstall, text,
                       regs, stray, kept, hostFaults, hostBroken>>
    BY <1>6 DEF Host!Succeed, HostChanging, Host!Others
  <2>2. settings.hook = hostPlist /\ hostPlist = hostState.on
    <3>1. HostEnabling(c) \/ HostDisabling(c)
      BY <2>1 DEF HostInv
    <3>2. CASE HostEnabling(c)
      BY <1>0, <2>1, <3>2, HostSteps DEF HostEnabling, HostSettings, HostStates
    <3>3. CASE HostDisabling(c)
      BY <1>0, <2>1, <3>3, HostSteps DEF HostDisabling, HostSettings,
         HostStates
    <3> QED
      BY <3>1, <3>2, <3>3
  <2> QED
    BY <1>0, <2>1, <2>2, Ended DEF Host!ContentKept, Host!HostReversible
<1>7. CASE Host!UndoFails(c)
  <2>1. guard = c /\ Host!Release(c) /\ HostChanging(c)
      /\ hostPr[c].todo # <<>> /\ hostPr[c].pc = "undo"
        /\ UNCHANGED <<settings, hostPlist, hostState, job, uninstall, text,
                       regs, stray, kept>>
        /\ hostBroken' = (hostBroken \/ Head(hostPr[c].todo).do # "reload")
        /\ hostFaults' = hostFaults + 1 /\ hostFaults < HostFaults
    BY <1>7 DEF Host!UndoFails, Host!Holds, HostChanging, Host!Others
  <2>2. hostFaults' \in 0..HostFaults /\ hostBroken' \in BOOLEAN
    BY <1>0, <2>1 DEF Host!RCHostAssumption
  <2>3. Head(hostPr[c].todo).do = "reload"
      => settings.hook /\ hostPlist /\ hostState.on
    <3>1. HostEnabling(c) \/ HostDisabling(c)
      BY <2>1 DEF HostInv
    <3>2. CASE HostEnabling(c)
      BY <2>1, <3>2, HostSteps DEF HostEnabling, HostWords
    <3>3. CASE HostDisabling(c)
      BY <2>1, <3>3, HostSteps DEF HostDisabling, HostWords
    <3> QED
      BY <3>1, <3>2, <3>3
  <2>4. ~hostBroken' => settings.hook = hostPlist /\ hostPlist = hostState.on
    BY <1>0, <2>1, <2>3 DEF HostSettings, HostStates
  <2> QED
    BY <1>0, <2>1, <2>2, <2>4, Ended DEF Host!ContentKept, Host!HostReversible
<1>8. CASE Host!Kill(c)
  <2>1. guard = c /\ Host!Release(c)
        /\ UNCHANGED <<settings, hostPlist, hostState, job, uninstall, text,
                       regs, stray, kept>>
        /\ hostBroken' = (hostBroken \/ HostChanging(c))
        /\ hostFaults' = hostFaults + 1 /\ hostFaults < HostFaults
    BY <1>8 DEF Host!Kill, HostChanging, Host!Others
  <2>2. hostFaults' \in 0..HostFaults /\ hostBroken' \in BOOLEAN
    BY <1>0, <2>1 DEF Host!RCHostAssumption
  <2> QED
    BY <1>0, <1>2, <2>1, <2>2, Ended DEF Host!ContentKept, Host!HostReversible
<1> QED
  BY <1>3, <1>4, <1>5, <1>6, <1>7, <1>8

\* One step of a change, forward or back, keeps its files in step with what is
\* left to do.
LEMMA StepFiles ==
  ASSUME Host!RCHostAssumption, HostInv, NEW c \in HostProcs, HostChanging(c),
         hostPr[c].todo # <<>>, Host!Effect(c, Head(hostPr[c].todo).do),
         hostPr'[c] = [hostPr[c] EXCEPT !.todo = Tail(@)],
           UNCHANGED <<stray, text>>
  PROVE  /\ HostEnabling(c)' \/ HostDisabling(c)'
         /\ settings' \in HostSettings /\ hostPlist' \in BOOLEAN
              /\ hostState' \in HostStates
         /\ job' \in {"out", "in", "leaving"} /\ kept' \in 0..HostRegs
         /\ ~hostState'.on => hostState' = Host!Off
         /\ Host!ContentKept' /\ Host!HostReversible'
<1>0. /\ settings \in HostSettings /\ hostPlist \in BOOLEAN
           /\ hostState \in HostStates
      /\ hostPr[c] \in HostFrames /\ job \in {"out", "in", "leaving"}
      /\ kept \in 0..HostRegs
      /\ settings.text = text
      /\ ~hostState.on => hostState = Host!Off
      /\ hostState.on => hostState.reg = kept
      /\ job = "in" /\ ~stray => hostState.on
      /\ HostEnabling(c) \/ HostDisabling(c)
  BY DEF HostInv, HostTypes, Host!ContentKept, Host!HostReversible
<1>1. /\ hostPr'[c].pc = hostPr[c].pc /\ hostPr'[c].undo = hostPr[c].undo
      /\ hostPr'[c].before = hostPr[c].before /\ hostPr'[c].new = hostPr[c].new
      /\ hostPr'[c].todo = Tail(hostPr[c].todo)
  BY <1>0 DEF HostFrames
<1>2. /\ 0 \in 0..HostRegs /\ Host!Off \in HostStates /\ ~Host!Off.on
           /\ UNCHANGED text
      /\ [on |-> TRUE, reg |-> 0] \in HostStates
  BY DEF Host!Off, HostStates, Host!RCHostAssumption
<1>3. CASE HostEnabling(c) /\ hostPr[c].pc = "write"
  <2>1. CASE hostPr[c].todo
             = <<Host!Do("hook"), Host!Do("plist"), Host!Do("state"),
                 Host!Do("load")>>
    <3>1. Host!Effect(c, "hook")
        /\ hostPr'[c].todo
             = <<Host!Do("plist"), Host!Do("state"), Host!Do("load")>>
      BY <1>1, <2>1, HostSteps DEF HostWords
    <3>2. job = "out"
      BY <1>3, <2>1, HostSteps DEF HostEnabling
    <3>3. /\ settings' = hostPr[c].new
               /\ UNCHANGED <<hostPlist, hostState, job, kept>>
      BY <3>1, <3>2, HostEffects
    <3>4. HostEnabling(c)'
      BY <1>0, <1>1, <1>2, <1>3, <3>1, <3>2, <3>3 DEF HostEnabling
    <3>5. hostPr[c].new \in HostSettings /\ hostPr[c].new.text = text
        /\ hostPr[c].before.settings \in HostSettings
             /\ hostPr[c].before.settings.text = text
      BY <1>3 DEF HostEnabling
    <3> QED
      BY <1>0, <1>2, <3>2, <3>3, <3>4, <3>5 DEF Host!ContentKept,
         Host!HostReversible
  <2>2. CASE hostPr[c].todo
             = <<Host!Do("plist"), Host!Do("state"), Host!Do("load")>>
    <3>1. Host!Effect(c, "plist")
        /\ hostPr'[c].todo = <<Host!Do("state"), Host!Do("load")>>
      BY <1>1, <2>2, HostSteps DEF HostWords
    <3>2. job = "out" /\ settings.hook
      BY <1>3, <2>2, HostSteps DEF HostEnabling
    <3>3. /\ hostPlist' = TRUE /\ UNCHANGED <<settings, hostState, job, kept>>
      BY <3>1, <3>2, HostEffects
    <3>4. HostEnabling(c)'
      BY <1>0, <1>1, <1>2, <1>3, <3>1, <3>2, <3>3 DEF HostEnabling
    <3>5. hostPr[c].new \in HostSettings /\ hostPr[c].new.text = text
        /\ hostPr[c].before.settings \in HostSettings
             /\ hostPr[c].before.settings.text = text
      BY <1>3 DEF HostEnabling
    <3> QED
      BY <1>0, <1>2, <3>2, <3>3, <3>4, <3>5 DEF Host!ContentKept,
         Host!HostReversible
  <2>3. CASE hostPr[c].todo = <<Host!Do("state"), Host!Do("load")>>
    <3>1. Host!Effect(c, "state") /\ hostPr'[c].todo = <<Host!Do("load")>>
      BY <1>1, <2>3, HostSteps DEF HostWords
    <3>2. job = "out" /\ settings.hook /\ hostPlist
      BY <1>3, <2>3, HostSteps DEF HostEnabling
    <3>3. /\ hostState' = [on |-> TRUE, reg |-> 0] /\ kept' = 0
          /\ UNCHANGED <<settings, hostPlist, job>>
      BY <3>1, <3>2, HostEffects
    <3>4. HostEnabling(c)'
      BY <1>0, <1>1, <1>2, <1>3, <3>1, <3>2, <3>3 DEF HostEnabling
    <3>5. hostPr[c].new \in HostSettings /\ hostPr[c].new.text = text
        /\ hostPr[c].before.settings \in HostSettings
             /\ hostPr[c].before.settings.text = text
      BY <1>3 DEF HostEnabling
    <3> QED
      BY <1>0, <1>2, <3>2, <3>3, <3>4, <3>5 DEF Host!ContentKept,
         Host!HostReversible
  <2>4. CASE hostPr[c].todo = <<Host!Do("load")>>
    <3>1. Host!Effect(c, "load") /\ hostPr'[c].todo = <<>>
      BY <1>1, <2>4, HostSteps DEF HostWords
    <3>2. job = "out" /\ settings.hook /\ hostPlist /\ hostState.on
      BY <1>3, <2>4, HostSteps DEF HostEnabling
    <3>3. /\ job' = "in" /\ UNCHANGED <<settings, hostPlist, hostState, kept>>
      BY <3>1, <3>2, HostEffects
    <3>4. HostEnabling(c)'
      BY <1>0, <1>1, <1>2, <1>3, <3>1, <3>2, <3>3 DEF HostEnabling
    <3>5. hostPr[c].new \in HostSettings /\ hostPr[c].new.text = text
        /\ hostPr[c].before.settings \in HostSettings
             /\ hostPr[c].before.settings.text = text
      BY <1>3 DEF HostEnabling
    <3> QED
      BY <1>0, <1>2, <3>2, <3>3, <3>4, <3>5 DEF Host!ContentKept,
         Host!HostReversible
  <2> QED
    BY <1>3, <2>1, <2>2, <2>3, <2>4 DEF HostEnabling
<1>4. CASE HostEnabling(c) /\ hostPr[c].pc = "undo"
  <2>1. CASE hostPr[c].todo = <<Host!Do("settings"), Host!Do("unplist"),
                                Host!Do("unstate")>>
    <3>1. Host!Effect(c, "settings")
        /\ hostPr'[c].todo = <<Host!Do("unplist"), Host!Do("unstate")>>
      BY <1>1, <2>1, HostSteps DEF HostWords
    <3>2. job = "out"
      BY <1>4, <2>1, HostSteps DEF HostEnabling
    <3>3. /\ settings' = hostPr[c].before.settings
               /\ UNCHANGED <<hostPlist, hostState, job, kept>>
      BY <3>1, <3>2, HostEffects
    <3>4. HostEnabling(c)'
      BY <1>0, <1>1, <1>2, <1>4, <3>1, <3>2, <3>3 DEF HostEnabling
    <3>5. hostPr[c].new \in HostSettings /\ hostPr[c].new.text = text
        /\ hostPr[c].before.settings \in HostSettings
             /\ hostPr[c].before.settings.text = text
      BY <1>4 DEF HostEnabling
    <3> QED
      BY <1>0, <1>2, <3>2, <3>3, <3>4, <3>5 DEF Host!ContentKept,
         Host!HostReversible
  <2>2. CASE hostPr[c].todo = <<Host!Do("unplist"), Host!Do("unstate")>>
    <3>1. Host!Effect(c, "unplist") /\ hostPr'[c].todo = <<Host!Do("unstate")>>
      BY <1>1, <2>2, HostSteps DEF HostWords
    <3>2. job = "out" /\ ~settings.hook
      BY <1>4, <2>2, HostSteps DEF HostEnabling
    <3>3. /\ hostPlist' = FALSE /\ UNCHANGED <<settings, hostState, job, kept>>
      BY <3>1, <3>2, HostEffects
    <3>4. HostEnabling(c)'
      BY <1>0, <1>1, <1>2, <1>4, <3>1, <3>2, <3>3 DEF HostEnabling
    <3>5. hostPr[c].new \in HostSettings /\ hostPr[c].new.text = text
        /\ hostPr[c].before.settings \in HostSettings
             /\ hostPr[c].before.settings.text = text
      BY <1>4 DEF HostEnabling
    <3> QED
      BY <1>0, <1>2, <3>2, <3>3, <3>4, <3>5 DEF Host!ContentKept,
         Host!HostReversible
  <2>3. CASE hostPr[c].todo = <<Host!Do("unstate")>>
    <3>1. Host!Effect(c, "unstate") /\ hostPr'[c].todo = <<>>
      BY <1>1, <2>3, HostSteps DEF HostWords
    <3>2. job = "out" /\ ~settings.hook /\ ~hostPlist
      BY <1>4, <2>3, HostSteps DEF HostEnabling
    <3>3. /\ hostState' = Host!Off /\ kept' = 0
               /\ UNCHANGED <<settings, hostPlist, job>>
      BY <3>1, <3>2, HostEffects
    <3>4. HostEnabling(c)'
      BY <1>0, <1>1, <1>2, <1>4, <3>1, <3>2, <3>3 DEF HostEnabling
    <3>5. hostPr[c].new \in HostSettings /\ hostPr[c].new.text = text
        /\ hostPr[c].before.settings \in HostSettings
             /\ hostPr[c].before.settings.text = text
      BY <1>4 DEF HostEnabling
    <3> QED
      BY <1>0, <1>2, <3>2, <3>3, <3>4, <3>5 DEF Host!ContentKept,
         Host!HostReversible
  <2> QED
    BY <1>4, <2>1, <2>2, <2>3 DEF HostEnabling
<1>5. CASE HostDisabling(c) /\ hostPr[c].pc = "write"
  <2>1. CASE hostPr[c].todo = <<Host!Do("unhook"), Host!Do("unplist"),
                                Host!Do("unstate")>>
    <3>1. Host!Effect(c, "unhook")
        /\ hostPr'[c].todo = <<Host!Do("unplist"), Host!Do("unstate")>>
      BY <1>1, <2>1, HostSteps DEF HostWords
    <3>2. job = "out"
      BY <1>5, <2>1, HostSteps DEF HostDisabling
    <3>3. /\ settings' = hostPr[c].new
               /\ UNCHANGED <<hostPlist, hostState, job, kept>>
      BY <3>1, <3>2, HostEffects
    <3>4. HostDisabling(c)'
      BY <1>0, <1>1, <1>2, <1>5, <3>1, <3>2, <3>3 DEF HostDisabling
    <3>5. hostPr[c].new \in HostSettings /\ hostPr[c].new.text = text
        /\ hostPr[c].before.settings \in HostSettings
             /\ hostPr[c].before.settings.text = text
      BY <1>5 DEF HostDisabling
    <3> QED
      BY <1>0, <1>2, <3>2, <3>3, <3>4, <3>5 DEF Host!ContentKept,
         Host!HostReversible
  <2>2. CASE hostPr[c].todo = <<Host!Do("unplist"), Host!Do("unstate")>>
    <3>1. Host!Effect(c, "unplist") /\ hostPr'[c].todo = <<Host!Do("unstate")>>
      BY <1>1, <2>2, HostSteps DEF HostWords
    <3>2. job = "out" /\ ~settings.hook
      BY <1>5, <2>2, HostSteps DEF HostDisabling
    <3>3. /\ hostPlist' = FALSE /\ UNCHANGED <<settings, hostState, job, kept>>
      BY <3>1, <3>2, HostEffects
    <3>4. HostDisabling(c)'
      BY <1>0, <1>1, <1>2, <1>5, <3>1, <3>2, <3>3 DEF HostDisabling
    <3>5. hostPr[c].new \in HostSettings /\ hostPr[c].new.text = text
        /\ hostPr[c].before.settings \in HostSettings
             /\ hostPr[c].before.settings.text = text
      BY <1>5 DEF HostDisabling
    <3> QED
      BY <1>0, <1>2, <3>2, <3>3, <3>4, <3>5 DEF Host!ContentKept,
         Host!HostReversible
  <2>3. CASE hostPr[c].todo = <<Host!Do("unstate")>>
    <3>1. Host!Effect(c, "unstate") /\ hostPr'[c].todo = <<>>
      BY <1>1, <2>3, HostSteps DEF HostWords
    <3>2. job = "out" /\ ~settings.hook /\ ~hostPlist
      BY <1>5, <2>3, HostSteps DEF HostDisabling
    <3>3. /\ hostState' = Host!Off /\ kept' = 0
               /\ UNCHANGED <<settings, hostPlist, job>>
      BY <3>1, <3>2, HostEffects
    <3>4. HostDisabling(c)'
      BY <1>0, <1>1, <1>2, <1>5, <3>1, <3>2, <3>3 DEF HostDisabling
    <3>5. hostPr[c].new \in HostSettings /\ hostPr[c].new.text = text
        /\ hostPr[c].before.settings \in HostSettings
             /\ hostPr[c].before.settings.text = text
      BY <1>5 DEF HostDisabling
    <3> QED
      BY <1>0, <1>2, <3>2, <3>3, <3>4, <3>5 DEF Host!ContentKept,
         Host!HostReversible
  <2> QED
    BY <1>5, <2>1, <2>2, <2>3 DEF HostDisabling
<1>6. CASE HostDisabling(c) /\ hostPr[c].pc = "undo"
  <2>1. CASE hostPr[c].todo = <<Host!Do("settings"), Host!Do("replist"),
                                Host!Do("restate"), Host!Do("reload")>>
    <3>1. Host!Effect(c, "settings")
        /\ hostPr'[c].todo = <<Host!Do("replist"), Host!Do("restate"),
                               Host!Do("reload")>>
      BY <1>1, <2>1, HostSteps DEF HostWords
    <3>2. job = "out"
      BY <1>6, <2>1, HostSteps DEF HostDisabling
    <3>3. /\ settings' = hostPr[c].before.settings
               /\ UNCHANGED <<hostPlist, hostState, job, kept>>
      BY <3>1, <3>2, HostEffects
    <3>4. HostDisabling(c)'
      BY <1>0, <1>1, <1>2, <1>6, <3>1, <3>2, <3>3 DEF HostDisabling
    <3>5. hostPr[c].new \in HostSettings /\ hostPr[c].new.text = text
        /\ hostPr[c].before.settings \in HostSettings
             /\ hostPr[c].before.settings.text = text
      BY <1>6 DEF HostDisabling
    <3> QED
      BY <1>0, <1>2, <3>2, <3>3, <3>4, <3>5 DEF Host!ContentKept,
         Host!HostReversible
  <2>2. CASE hostPr[c].todo = <<Host!Do("replist"), Host!Do("restate"),
                                Host!Do("reload")>>
    <3>1. Host!Effect(c, "replist")
        /\ hostPr'[c].todo = <<Host!Do("restate"), Host!Do("reload")>>
      BY <1>1, <2>2, HostSteps DEF HostWords
    <3>2. job = "out" /\ settings.hook
      BY <1>6, <2>2, HostSteps DEF HostDisabling
    <3>3. /\ hostPlist' = TRUE /\ UNCHANGED <<settings, hostState, job, kept>>
      BY <3>1, <3>2, HostEffects
    <3>4. HostDisabling(c)'
      BY <1>0, <1>1, <1>2, <1>6, <3>1, <3>2, <3>3 DEF HostDisabling
    <3>5. hostPr[c].new \in HostSettings /\ hostPr[c].new.text = text
        /\ hostPr[c].before.settings \in HostSettings
             /\ hostPr[c].before.settings.text = text
      BY <1>6 DEF HostDisabling
    <3> QED
      BY <1>0, <1>2, <3>2, <3>3, <3>4, <3>5 DEF Host!ContentKept,
         Host!HostReversible
  <2>3. CASE hostPr[c].todo = <<Host!Do("restate"), Host!Do("reload")>>
    <3>1. Host!Effect(c, "restate") /\ hostPr'[c].todo = <<Host!Do("reload")>>
      BY <1>1, <2>3, HostSteps DEF HostWords
    <3>2. job = "out" /\ settings.hook /\ hostPlist
      BY <1>6, <2>3, HostSteps DEF HostDisabling
    <3>3. /\ hostState' = hostPr[c].before.state /\ kept' = hostState'.reg
          /\ UNCHANGED <<settings, hostPlist, job>>
      BY <3>1, <3>2, HostEffects
    <3>4. HostDisabling(c)'
      BY <1>0, <1>1, <1>2, <1>6, <3>1, <3>2, <3>3 DEF HostDisabling
    <3>5. hostPr[c].new \in HostSettings /\ hostPr[c].new.text = text
        /\ hostPr[c].before.settings \in HostSettings
             /\ hostPr[c].before.settings.text = text
                  /\ hostPr[c].before.state \in HostStates
                       /\ hostPr[c].before.state.on
      BY <1>6 DEF HostDisabling
    <3>6. kept' \in 0..HostRegs
      BY <3>3, <3>5 DEF HostStates
    <3> QED
      BY <1>0, <1>2, <3>2, <3>3, <3>4, <3>5, <3>6 DEF Host!ContentKept,
         Host!HostReversible
  <2>4. CASE hostPr[c].todo = <<Host!Do("reload")>>
    <3>1. Host!Effect(c, "reload") /\ hostPr'[c].todo = <<>>
      BY <1>1, <2>4, HostSteps DEF HostWords
    <3>2. job = "out" /\ settings.hook /\ hostPlist /\ hostState.on
      BY <1>6, <2>4, HostSteps DEF HostDisabling
    <3>3. /\ job' \in {"in", "out"}
               /\ UNCHANGED <<settings, hostPlist, hostState, kept>>
      BY <3>1, <3>2, HostEffects
    <3>4. HostDisabling(c)'
      BY <1>0, <1>1, <1>2, <1>6, <3>1, <3>2, <3>3 DEF HostDisabling
    <3>5. hostPr[c].new \in HostSettings /\ hostPr[c].new.text = text
        /\ hostPr[c].before.settings \in HostSettings
             /\ hostPr[c].before.settings.text = text
      BY <1>6 DEF HostDisabling
    <3> QED
      BY <1>0, <1>2, <3>2, <3>3, <3>4, <3>5 DEF Host!ContentKept,
         Host!HostReversible
  <2> QED
    BY <1>6, <2>1, <2>2, <2>3, <2>4 DEF HostDisabling
<1> QED
  BY <1>0, <1>3, <1>4, <1>5, <1>6 DEF HostChanging

\* One step of a change succeeds.
LEMMA WriteInv ==
  ASSUME Host!RCHostAssumption, HostInv, NEW c \in HostProcs, Host!Write(c)
         \/ Host!Undo(c)
  PROVE  HostInv'
<1>1. /\ HostChanging(c) /\ guard = c /\ guard' = c /\ hostPr[c].todo # <<>>
      /\ Host!Effect(c, Head(hostPr[c].todo).do)
      /\ hostPr' = [hostPr EXCEPT ![c].todo = Tail(@)]
      /\ UNCHANGED <<uninstall, text, regs, stray, hostFaults, hostBroken>>
  BY DEF Host!Write, Host!Undo, Host!Holds, HostChanging, Host!Others
<1> DEFINE r == [hostPr[c] EXCEPT !.todo = Tail(@)]
<1>2. hostPr[c] \in HostFrames /\ hostPr \in [HostProcs -> HostFrames]
    /\ hostFaults \in 0..HostFaults
  BY DEF HostInv, HostTypes
<1>3. hostPr' = [hostPr EXCEPT ![c] = r] /\ hostPr'[c] = r
  BY <1>1, <1>2
<1>4. r \in HostFrames /\ r.pc = hostPr[c].pc
  <2>1. Tail(hostPr[c].todo) \in HostLists
    BY <1>1, <1>2 DEF HostFrames, HostLists
  <2> QED
    BY <1>2, <2>1 DEF HostFrames
<1>5. /\ HostEnabling(c)' \/ HostDisabling(c)'
      /\ settings' \in HostSettings /\ hostPlist' \in BOOLEAN
           /\ hostState' \in HostStates
      /\ job' \in {"out", "in", "leaving"} /\ kept' \in 0..HostRegs
      /\ ~hostState'.on => hostState' = Host!Off
      /\ Host!ContentKept' /\ Host!HostReversible'
  BY <1>1, <1>3, StepFiles
<1> HIDE DEF r
<1>6. HostChanging(c)' /\ r.pc \notin {"idle", "retiring"}
  BY <1>1, <1>3, <1>4 DEF HostChanging
<1> QED
  BY <1>1, <1>2, <1>3, <1>4, <1>5, <1>6, GoesOn

\* The rollback begins.
LEMMA FailInv ==
  ASSUME Host!RCHostAssumption, HostInv, NEW c \in HostProcs, Host!Fail(c)
  PROVE  HostInv'
<1>0. /\ settings \in HostSettings /\ hostPlist \in BOOLEAN
           /\ hostState \in HostStates
      /\ hostPr[c] \in HostFrames /\ job \in {"out", "in", "leaving"}
      /\ kept \in 0..HostRegs /\ hostPr \in [HostProcs -> HostFrames]
      /\ hostFaults \in 0..HostFaults
      /\ settings.text = text
      /\ ~hostState.on => hostState = Host!Off
      /\ hostState.on => hostState.reg = kept
      /\ job = "in" /\ ~stray => hostState.on
  BY DEF HostInv, HostTypes, Host!ContentKept, Host!HostReversible
<1>1. /\ guard = c /\ guard' = c /\ hostPr[c].pc = "write"
           /\ hostPr[c].todo # <<>>
      /\ UNCHANGED <<uninstall, text, regs, stray, hostBroken>>
      /\ hostFaults < HostFaults /\ hostFaults' = hostFaults + 1
      /\ hostPr' = [hostPr EXCEPT ![c].pc = "undo", ![c].todo = hostPr[c].undo]
  BY DEF Host!Fail, Host!Holds, Host!Others
<1> DEFINE r == [hostPr[c] EXCEPT !.pc = "undo", !.todo = hostPr[c].undo]
<1>2. /\ r \in HostFrames /\ r.pc = "undo" /\ r.todo = hostPr[c].undo
      /\ r.undo = hostPr[c].undo /\ r.before = hostPr[c].before
           /\ r.new = hostPr[c].new
  BY <1>0 DEF HostFrames
<1>3. hostPr' = [hostPr EXCEPT ![c] = r] /\ hostPr'[c] = r
  BY <1>0, <1>1
<1> HIDE DEF r
<1>4. hostFaults' \in 0..HostFaults
  BY <1>0, <1>1 DEF Host!RCHostAssumption
<1>5. HostEnabling(c) \/ HostDisabling(c)
  BY <1>1 DEF HostInv, HostChanging
<1>6. job = "out" /\ hostPr[c].new \in HostSettings
    /\ hostPr[c].new.text = text
  BY <1>1, <1>5 DEF HostEnabling, HostDisabling
<1>7. /\ settings' \in HostSettings /\ hostPlist' \in BOOLEAN
           /\ hostState' \in HostStates
      /\ job' = "out" /\ kept' \in 0..HostRegs
      /\ ~hostState'.on => hostState' = Host!Off
      /\ settings'.text = text /\ (hostState'.on => hostState'.reg = kept')
  <2>1. 0 \in 0..HostRegs /\ [on |-> TRUE, reg |-> 0] \in HostStates
    BY DEF HostStates, Host!RCHostAssumption
  <2>2. CASE UNCHANGED <<settings, hostPlist, hostState, job, kept>>
    BY <1>0, <1>6, <2>2, Zenon
  <2>3. CASE Host!Effect(c, "hook") \/ Host!Effect(c, "unhook")
    BY <1>0, <1>6, <2>3, HostEffects
  <2>4. CASE Host!Effect(c, "plist")
    BY <1>0, <1>6, <2>4, HostEffects
  <2>5. CASE Host!Effect(c, "state")
    <3>1. /\ hostState' = [on |-> TRUE, reg |-> 0] /\ kept' = 0
          /\ UNCHANGED <<settings, hostPlist, job>>
      BY <2>5, HostEffects
    <3>2. hostState'.on /\ hostState'.reg = 0
      BY <3>1
    <3> QED
      BY <1>0, <1>6, <2>1, <3>1, <3>2
  <2> QED
    BY <2>2, <2>3, <2>4, <2>5 DEF Host!Fail
<1>8. HostEnabling(c)' \/ HostDisabling(c)'
  <2>1. CASE HostEnabling(c)
    BY <1>1, <1>2, <1>3, <1>7, <2>1 DEF HostEnabling
  <2>2. CASE HostDisabling(c)
    BY <1>1, <1>2, <1>3, <1>7, <2>2 DEF HostDisabling
  <2> QED
    BY <1>5, <2>1, <2>2
<1>9. Host!ContentKept' /\ Host!HostReversible' /\ HostChanging(c)'
  BY <1>1, <1>2, <1>3, <1>7 DEF Host!ContentKept, Host!HostReversible,
     HostChanging
<1> QED
  BY <1>0, <1>1, <1>2, <1>3, <1>4, <1>7, <1>8, <1>9, GoesOn

\* A step that leaves the files and the commands alone.
LEMMA FilesSame ==
  ASSUME HostInv,
         UNCHANGED <<settings, hostPlist, hostState, job, guard, hostPr, text,
                     regs, kept,
                     hostFaults, hostBroken, stray>>,
         uninstall' \in {"checked", "gone"} => ~hostState.on /\ guard = none
  PROVE  HostInv'
<1>1. HostTypes' /\ Host!ContentKept' /\ Host!HostReversible'
  BY DEF HostInv, HostTypes, Host!ContentKept, Host!HostReversible
<1>2. \A c \in HostProcs : HostChanging(c)
    => HostEnabling(c)' \/ HostDisabling(c)'
  <2> SUFFICES ASSUME NEW c \in HostProcs, HostChanging(c)
               PROVE  HostEnabling(c)' \/ HostDisabling(c)'
    OBVIOUS
  <2>1. CASE HostEnabling(c)
    BY <2>1 DEF HostEnabling
  <2>2. CASE HostDisabling(c)
    BY <2>2 DEF HostDisabling
  <2> QED
    BY <2>1, <2>2 DEF HostInv
<1>3. \A c \in HostProcs : hostPr[c].pc = "retiring" => HostRetiring(c)'
  BY DEF HostInv, HostRetiring
<1>4. \A c \in HostProcs : HostChanging(c)' <=> HostChanging(c)
  BY DEF HostChanging
<1> QED
  BY <1>1, <1>2, <1>3, <1>4 DEF HostInv

\* What the user, launchd and the package do around the commands.
LEMMA AroundHost ==
  ASSUME Host!RCHostAssumption, HostInv,
         Host!Edit \/ Host!Retire \/ Host!Login \/ Host!UninstallCheck
           \/ Host!UninstallRemove
  PROVE  HostInv'
<1>0. HostTypes /\ Host!ContentKept /\ Host!HostReversible
  BY DEF HostInv
<1>1. guard = none => \A c \in HostProcs : hostPr[c].pc = "idle"
  BY <1>0 DEF HostTypes, Host!RCHostAssumption
<1>2. CASE Host!Edit
  <2>1. /\ text' = text + 1 /\ text < HostEdits /\ guard = none
        /\ settings' = [settings EXCEPT !.text = text + 1]
        /\ UNCHANGED <<hostPlist, hostState, job, guard, hostPr, uninstall,
                       regs, kept,
                       hostFaults, hostBroken, stray>>
    BY <1>2 DEF Host!Edit
  <2>2. text' \in 0..HostEdits
    BY <1>0, <2>1 DEF HostTypes, Host!RCHostAssumption
  <2>3. settings' \in HostSettings /\ settings'.hook = settings.hook
        /\ settings'.text = text'
    BY <1>0, <2>1, <2>2 DEF HostTypes, HostSettings
  <2> QED
    BY <1>0, <1>1, <2>1, <2>2, <2>3 DEF HostInv, HostTypes, HostChanging,
       Host!ContentKept, Host!HostReversible
<1>3. CASE Host!Retire
  <2>1. /\ job = "leaving" /\ job' = "out"
        /\ UNCHANGED <<settings, hostPlist, hostState, guard, hostPr,
                       uninstall, text, regs,
                       stray, kept, hostFaults, hostBroken>>
    BY <1>3 DEF Host!Retire, Host!Others
  <2>2. \A c \in HostProcs : HostChanging(c)
      => HostEnabling(c)' \/ HostDisabling(c)'
    <3> SUFFICES ASSUME NEW c \in HostProcs, HostChanging(c)
                 PROVE  HostEnabling(c)' \/ HostDisabling(c)'
      OBVIOUS
    <3>1. CASE HostEnabling(c)
      BY <2>1, <3>1 DEF HostEnabling
    <3>2. CASE HostDisabling(c)
      BY <2>1, <3>2 DEF HostDisabling
    <3> QED
      BY <3>1, <3>2 DEF HostInv
  <2>3. \A c \in HostProcs : hostPr[c].pc = "retiring" => HostRetiring(c)'
    BY <2>1 DEF HostInv, HostRetiring
  <2> QED
    BY <1>0, <2>1, <2>2, <2>3 DEF HostInv, HostTypes, HostChanging,
       Host!ContentKept, Host!HostReversible
<1>4. CASE Host!Login
  <2>1. /\ guard = none /\ job' = (IF hostPlist THEN "in" ELSE "out")
        /\ stray' = (stray \/ (hostBroken /\ hostPlist))
        /\ UNCHANGED <<settings, hostPlist, hostState, guard, hostPr,
                       uninstall, text, regs,
                       kept, hostFaults, hostBroken>>
    BY <1>4 DEF Host!Login
  <2>2. \A c \in HostProcs : ~HostChanging(c) /\ hostPr[c].pc # "retiring"
    BY <1>1, <2>1 DEF HostChanging
  <2>3. ~hostBroken => hostPlist = hostState.on
    BY <2>2 DEF HostInv
  <2>4. HostTypes'
    BY <1>0, <2>1 DEF HostTypes
  <2>5. Host!HostReversible'
    BY <2>1, <2>3 DEF Host!HostReversible
  <2> QED
    BY <1>0, <2>1, <2>2, <2>4, <2>5 DEF HostInv, HostChanging, Host!ContentKept
<1>5. CASE Host!UninstallCheck
  BY <1>5, FilesSame DEF Host!UninstallCheck, Host!OtherThanUninstall, HostInv
<1>6. CASE Host!UninstallRemove
  BY <1>6, FilesSame DEF Host!UninstallRemove, Host!OtherThanUninstall, HostInv
<1> QED
  BY <1>2, <1>3, <1>4, <1>5, <1>6

\* HostInv is an inductive invariant of the phone host.
LEMMA HostInvariance == Host!RCHostAssumption => (Host!Spec => []HostInv)
<1> SUFFICES ASSUME Host!RCHostAssumption PROVE Host!Spec => []HostInv
  OBVIOUS
<1>1. Host!Init => HostInv
  BY InitHost
<1>2. HostInv /\ [Host!Next]_(Host!vars) => HostInv'
  <2> SUFFICES ASSUME HostInv, [Host!Next]_(Host!vars) PROVE HostInv'
    OBVIOUS
  <2>1. ASSUME NEW c \in HostProcs, Host!Command(c) PROVE HostInv'
    BY <2>1, StartInv, PlanInv, EndInv, WriteInv, FailInv DEF Host!Command
  <2>2. CASE UNCHANGED Host!vars
    BY <2>2, FilesSame DEF Host!vars, HostInv
  <2> QED
    BY <2>1, <2>2, AroundHost DEF Host!Next
<1> QED
  BY <1>1, <1>2, PTL DEF Host!Spec

\* HostInv says what the run checks of every state of the host.
LEMMA HostWhollySafe ==
  ASSUME Host!RCHostAssumption, HostInv
  PROVE  Host!TypeOK /\ Host!ContentKept /\ Host!AllOrNothing
         /\ Host!HostReversible /\ Host!NotOrphaned
<1>1. Host!TypeOK
  BY DEF HostInv, HostTypes, Host!TypeOK, HostSettings, HostStates
<1>2. Host!AllOrNothing
  BY DEF HostInv, HostTypes, Host!AllOrNothing, HostChanging,
     Host!RCHostAssumption
<1> QED
  BY <1>1, <1>2 DEF HostInv, Host!NotOrphaned

-----------------------------------------------------------------------------
(* The launch preflight of Codex.                                          *)

\* Where a launcher stands without the setup lock, and with it.
OffLocks == {"idle", "look", "ask", "repair", "state", "gave up"}
InLocks == {"decide", "claim", "start", "unload", "load", "wait", "clear",
           "bridge", "bridge load", "takeover"}
LauncherStates == [pc : OffLocks \cup InLocks, rel : 0..MaxRelease,
                   approved : BOOLEAN, tries : Nat, jolts : 0..3]
Apps == [loaded : BOOLEAN, alive : BOOLEAN, gen : 0..MaxRelease,
         cli : 0..MaxCli]
Bridges == [alive : BOOLEAN, build : 0..MaxRelease]

\* Where setup stands while it writes, and while it takes back.
Laying == {"marker", "plist", "manifest", "written"}
Undoing == {"back manifest", "back plist", "back marker"}

ServiceTypes ==
  /\ installed \in 1..MaxRelease /\ cli \in 1..MaxCli
  /\ plist \in 0..MaxRelease /\ owned \in 0..MaxRelease
  /\ marker \in 0..MaxRelease
  /\ app \in Apps /\ bridge \in Bridges
  /\ repair \in Procs \cup {none}
  /\ state \in Procs \cup {none, "setup"}
  /\ seats \subseteq Procs
  /\ launch \in [Procs -> LauncherStates]
  /\ setup \in {"idle"} \cup Laying \cup Undoing
  /\ saved \in [owned : 0..MaxRelease, marker : 0..MaxRelease]
  /\ leftover \in 0..MaxRelease

\* The locks are held exactly where a launcher or setup holds them.
Locks ==
  /\ state = "setup" <=> setup # "idle"
  /\ \A c \in Procs : /\ (state = c) <=> launch[c].pc \in InLocks
                      /\ launch[c].pc \in InLocks \cup {"state"} => repair = c

\* What a launcher that holds the locks relies on from step to step.
Relies(c) ==
  /\ launch[c].pc # "idle" => launch[c].rel # 0
  /\ launch[c].pc = "claim" =>
       /\ app.loaded /\ (app.gen = plist \/ plist = leftover)
       /\ plist = owned /\ marker = 0
  /\ launch[c].pc = "unload"
       => seats = {} /\ (launch[c].approved \/ ~app.loaded)
  /\ launch[c].pc = "load" => seats = {}
  /\ launch[c].pc \in {"wait", "clear"} => app.gen = plist

\* Were what setup found put back, a pending definition would be marked.
WasMarked == app.loaded /\ app.gen # saved.owned =>
               saved.marker # 0 \/ saved.owned = 0 \/ saved.owned = leftover

\* Until its rollback has missed the definition, setup can leave it marked by
\* its own marker and by the one that it found.
Undoable ==
  \/ setup = "idle"
  \/ setup = "back marker" /\ plist = leftover
  \/ /\ WasMarked /\ (marker # 0 \/ marker = saved.marker)
     /\ setup = "back marker" => plist = saved.owned

\* What is alive is loaded, and it stays so under a published seat; setup
\* leaves its mark first.
Marked ==
  /\ app.alive => app.loaded
  /\ seats # {} => app.loaded
  /\ setup = "plist" => marker # 0
  /\ Undoable
  /\ Service!PendingIsMarked

\* The inductive invariant of the preflight.
ServiceInv == /\ ServiceTypes /\ Locks /\ Marked
              /\ \A c \in Procs : Relies(c)

\* Numbers of releases.
LEMMA Ranges ==
  ASSUME Service!ServiceAssumption
  PROVE  /\ 0 \in 0..MaxRelease /\ 0 \in 0..MaxCli
         /\ \A i \in 1..MaxRelease : i \in 0..MaxRelease /\ i # 0
         /\ \A i \in 0..MaxRelease : i # 0 => i \in 1..MaxRelease
         /\ \A i \in 1..MaxCli : i \in 0..MaxCli
<1>1. MaxRelease \in Nat /\ MaxRelease # 0 /\ MaxCli \in Nat /\ MaxCli # 0
  BY DEF Service!ServiceAssumption
<1> QED
  BY <1>1

\* The invariant holds before the first launch.
LEMMA InitService == Service!ServiceAssumption /\ Service!Init => ServiceInv
<1> SUFFICES ASSUME Service!ServiceAssumption, Service!Init PROVE ServiceInv
  OBVIOUS
<1>1. Service!Idle \in LauncherStates /\ Service!Idle.pc = "idle"
  BY DEF Service!Idle, LauncherStates, OffLocks, Service!ServiceAssumption
<1>2. launch \in [Procs -> LauncherStates]
    /\ \A c \in Procs : launch[c].pc = "idle"
  BY <1>1 DEF Service!Init
<1>3. /\ installed \in 1..MaxRelease /\ cli \in 1..MaxCli /\ plist = 0
           /\ owned = 0
      /\ marker = 0 /\ 0 \in 0..MaxRelease /\ 0 \in 0..MaxCli
      /\ app = [loaded |-> FALSE, alive |-> FALSE, gen |-> 0, cli |-> 0]
      /\ bridge = [alive |-> FALSE, build |-> 0]
      /\ repair = none /\ state = none /\ seats = {} /\ setup = "idle"
      /\ saved = Service!Unsaved /\ leftover = 0
  BY DEF Service!Init, Service!ServiceAssumption
<1>4. app \in Apps /\ bridge \in Bridges /\ ~app.alive
  BY <1>3 DEF Apps, Bridges
<1>5. ServiceTypes
  BY <1>2, <1>3, <1>4 DEF ServiceTypes, Service!Unsaved
<1>6. Locks
  BY <1>2, <1>3 DEF Locks, Service!ServiceAssumption, InLocks
<1> QED
  BY <1>2, <1>3, <1>4, <1>5, <1>6 DEF ServiceInv, Marked, Undoable, Relies,
     Service!PendingIsMarked

\* Counting what came in a launcher's way leaves it where it is.
LEMMA Jolting ==
  ASSUME Service!ServiceAssumption, NEW r \in LauncherStates
  PROVE  /\ Service!Jolted(r) \in LauncherStates /\ Service!Jolted(r).pc = r.pc
         /\ Service!Jolted(r).rel = r.rel
              /\ Service!Jolted(r).approved = r.approved
BY DEF Service!Jolted, LauncherStates

\* The launchers stand where they stood.
Standing == /\ launch' \in [Procs -> LauncherStates]
            /\ \A c \in Procs : /\ launch'[c].pc = launch[c].pc
                                /\ launch'[c].rel = launch[c].rel
                                /\ launch'[c].approved = launch[c].approved

\* What goes on around the launchers leaves them where they are.
LEMMA Stand ==
  ASSUME Service!ServiceAssumption, ServiceInv, Service!Disturb
         \/ UNCHANGED launch
  PROVE  Standing
<1>1. launch \in [Procs -> LauncherStates]
  BY DEF ServiceInv, ServiceTypes
<1>2. CASE Service!Disturb
  BY <1>1, <1>2, Jolting DEF Service!Disturb, Standing
<1>3. CASE UNCHANGED launch
  BY <1>1, <1>3 DEF Standing
<1> QED
  BY <1>2, <1>3

\* Upgrades, crashes, launchd, a login and the end of a session.
LEMMA AroundService ==
  ASSUME Service!ServiceAssumption, ServiceInv,
         Service!Install \/ Service!UpgradeCli \/ Service!Crash
           \/ Service!KeepAlive \/ Service!Login
           \/ \E c \in Procs : Service!Close(c)
  PROVE  ServiceInv'
<1>0. ServiceTypes /\ Locks /\ Marked /\ Standing
  BY Stand DEF ServiceInv, Service!Install, Service!UpgradeCli, Service!Crash,
     Service!KeepAlive, Service!Login, Service!Close
<1>1. /\ UNCHANGED <<plist, owned, marker, repair, state, setup, saved,
                     leftover>>
      /\ seats' \subseteq seats
  BY DEF Service!Install, Service!UpgradeCli, Service!Crash,
     Service!KeepAlive, Service!Login, Service!Close, Service!Files,
     Service!Packages
<1>2. installed' \in 1..MaxRelease /\ cli' \in 1..MaxCli
  BY <1>0 DEF Service!Install, Service!UpgradeCli, Service!Crash,
     Service!KeepAlive, Service!Login, Service!Close, Service!Packages,
     ServiceTypes, Service!ServiceAssumption
<1> DEFINE Unmoved == app'.loaded = app.loaded /\ app'.gen = app.gen
           Fresh == /\ seats = {} /\ (app'.gen = plist \/ ~app'.loaded)
                    /\ setup = "idle"
                    /\ \A c \in Procs : launch[c].pc = "idle"
<1>3. /\ app' \in Apps /\ bridge' \in Bridges /\ (app'.alive => app'.loaded)
      /\ Unmoved \/ Fresh
  <2>1. CASE Service!Install \/ Service!UpgradeCli
             \/ \E c \in Procs : Service!Close(c)
    BY <1>0, <2>1 DEF Service!Install, Service!UpgradeCli, Service!Close,
       ServiceTypes, Marked
  <2>2. CASE Service!Crash
    <3>1. CASE app.alive /\ app' = [app EXCEPT !.alive = FALSE]
               /\ UNCHANGED bridge
      BY <1>0, <3>1 DEF ServiceTypes, Apps
    <3>2. CASE bridge' = [bridge EXCEPT !.alive = FALSE] /\ UNCHANGED app
      BY <1>0, <3>2 DEF ServiceTypes, Bridges, Marked
    <3> QED
      BY <2>2, <3>1, <3>2 DEF Service!Crash
  <2>3. CASE Service!KeepAlive
    <3>1. CASE app.loaded /\ app' = [app EXCEPT !.alive = TRUE, !.cli = cli]
               /\ UNCHANGED bridge
      <4>1. app \in Apps /\ cli \in 0..MaxCli /\ bridge' \in Bridges
        BY <1>0, <3>1 DEF ServiceTypes, Service!ServiceAssumption
      <4> QED
        BY <3>1, <4>1 DEF Apps
    <3>2. CASE bridge' = [alive |-> TRUE, build |-> installed] /\ UNCHANGED app
      BY <1>0, <3>2 DEF ServiceTypes, Bridges, Marked
    <3> QED
      BY <2>3, <3>1, <3>2 DEF Service!KeepAlive
  <2>4. CASE Service!Login
    <3>1. CASE plist = 0
      <4>1. /\ app' = [loaded |-> FALSE, alive |-> FALSE, gen |-> 0, cli |-> 0]
            /\ bridge' = [alive |-> FALSE, build |-> 0]
        BY <2>4, <3>1 DEF Service!Login
      <4>2. app' \in Apps /\ bridge' \in Bridges /\ ~app'.loaded /\ ~app'.alive
        BY <4>1 DEF Apps, Bridges, Service!ServiceAssumption
      <4> QED
        BY <2>4, <4>2 DEF Service!Login
    <3>2. CASE plist # 0
      <4>1. /\ app' = [loaded |-> TRUE, alive |-> TRUE, gen |-> plist,
                       cli |-> cli]
            /\ bridge' = [alive |-> TRUE, build |-> installed]
        BY <2>4, <3>2 DEF Service!Login
      <4>2. app' \in Apps /\ bridge' \in Bridges /\ app'.loaded
          /\ app'.gen = plist
        BY <1>0, <4>1 DEF Apps, Bridges, ServiceTypes
      <4> QED
        BY <2>4, <4>2 DEF Service!Login
    <3> QED
      BY <3>1, <3>2
  <2> QED
    BY <2>1, <2>2, <2>3, <2>4
<1>4. ServiceTypes'
  <2>1. app' \in Apps /\ bridge' \in Bridges
      /\ launch' \in [Procs -> LauncherStates]
    BY <1>0, <1>3 DEF Standing
  <2> HIDE DEF Unmoved, Fresh
  <2> QED
    BY <1>0, <1>1, <1>2, <2>1 DEF ServiceTypes
<1>5. Locks'
  BY <1>0, <1>1 DEF Locks, Standing
<1>6. Marked'
  <2>1. app'.alive => app'.loaded
    BY <1>3
  <2>2. (seats' # {} => app'.loaded) /\ Service!PendingIsMarked'
    <3>1. CASE Unmoved
      BY <1>0, <1>1, <3>1 DEF Marked, Service!PendingIsMarked
    <3>2. CASE Fresh
      BY <1>1, <3>2 DEF Service!PendingIsMarked
    <3> QED
      BY <1>3, <3>1, <3>2
  <2>3. (setup = "plist" => marker # 0)'
    BY <1>0, <1>1 DEF Marked
  <2>4. Undoable'
    BY <1>0, <1>1, <1>3 DEF Marked, Undoable, WasMarked
  <2> QED
    BY <2>1, <2>2, <2>3, <2>4 DEF Marked
<1>7. ASSUME NEW c \in Procs PROVE Relies(c)'
  <2>1. CASE Unmoved
    BY <1>0, <1>1, <2>1 DEF ServiceInv, Relies, Standing
  <2>2. CASE Fresh
    BY <1>0, <1>1, <2>2 DEF ServiceInv, Relies, Standing
  <2> QED
    BY <1>3, <2>1, <2>2
<1> QED
  BY <1>4, <1>5, <1>6, <1>7 DEF ServiceInv

\* Setup writes its three files, and takes them back when it fails, under the
\* lock no launcher then holds.
LEMMA SetupInv ==
  ASSUME Service!ServiceAssumption, ServiceInv, Service!SetupBegin
         \/ Service!SetupStep \/ Service!SetupFails \/ Service!SetupBack
         \/ Service!SetupKilled
  PROVE  ServiceInv'
<1>0. ServiceTypes /\ Locks /\ Marked /\ Standing
  BY Stand DEF ServiceInv, Service!SetupBegin, Service!SetupStep,
     Service!SetupFails, Service!SetupBack, Service!SetupKilled,
     Service!SetupOnly
<1>1. /\ UNCHANGED <<installed, cli, app, bridge, repair, seats>>
      /\ \A c \in Procs : state # c /\ state' # c
  BY <1>0 DEF Service!SetupBegin, Service!SetupStep, Service!SetupFails,
     Service!SetupBack, Service!SetupKilled, Service!SetupOnly,
     Service!SetupOver, Service!SetupGoes, Service!Packages, Locks,
     Service!ServiceAssumption
<1> DEFINE Types == /\ plist' \in 0..MaxRelease /\ owned' \in 0..MaxRelease
                    /\ marker' \in 0..MaxRelease
                    /\ setup' \in {"idle"} \cup Laying \cup Undoing
                    /\ saved' \in [owned : 0..MaxRelease,
                                  marker : 0..MaxRelease]
                    /\ leftover' \in 0..MaxRelease
           Lock == /\ state' \in {"setup", none}
                   /\ state' = "setup" <=> setup' # "idle"
           Mark == /\ setup' = "plist" => marker' # 0
                   /\ Undoable' /\ Service!PendingIsMarked'
<1>2. ASSUME setup # "idle" /\ state = "setup", Service!SetupOver
      PROVE  /\ Lock /\ setup' = "idle"
             /\ saved' \in [owned : 0..MaxRelease, marker : 0..MaxRelease]
  BY <1>2 DEF Service!SetupOver, Service!Unsaved, Service!ServiceAssumption
<1>3. ASSUME setup # "idle" /\ state = "setup", NEW pc \in Laying \cup Undoing,
             Service!SetupGoes(pc)
      PROVE  Lock /\ setup' = pc /\ saved' = saved /\ pc # "idle"
  BY <1>3 DEF Service!SetupGoes, Laying, Undoing
<1>4. Types /\ Lock /\ Mark
  <2> USE DEF Laying, Undoing
  <2>0. setup # "idle" => state = "setup"
    BY <1>0 DEF Locks
  <2>1. CASE Service!SetupBegin
    <3>1. /\ plist = owned /\ saved' = [owned |-> owned, marker |-> marker]
          /\ setup' = "marker" /\ state' = "setup"
          /\ UNCHANGED <<plist, owned, marker, leftover, app>>
      BY <2>1 DEF Service!SetupBegin
    <3>2. Types /\ Lock
      BY <1>0, <3>1 DEF ServiceTypes
    <3>3. saved'.owned = plist /\ saved'.marker = marker
      BY <3>1
    <3>4. Service!PendingIsMarked'
      BY <1>0, <3>1 DEF Marked, Service!PendingIsMarked
    <3>5. Undoable'
      BY <1>0, <3>1, <3>3 DEF Marked, Service!PendingIsMarked, Undoable,
         WasMarked
    <3> QED
      BY <3>1, <3>2, <3>4, <3>5
  <2>2. CASE Service!SetupStep /\ setup = "marker"
    <3>1. /\ marker' = installed /\ Service!SetupGoes("plist")
          /\ UNCHANGED <<plist, owned, leftover>>
      BY <2>2 DEF Service!SetupStep
    <3>2. installed \in 0..MaxRelease /\ installed # 0
      BY <1>0, Ranges DEF ServiceTypes
    <3>3. Lock /\ setup' = "plist" /\ saved' = saved
      BY <1>3, <2>0, <2>2, <3>1
    <3>4. Types
      BY <1>0, <3>1, <3>2, <3>3 DEF ServiceTypes
    <3> QED
      BY <1>0, <1>1, <2>2, <3>1, <3>2, <3>3, <3>4
         DEF Marked, Service!PendingIsMarked, Undoable, WasMarked
  <2>3. CASE Service!SetupStep /\ setup = "plist"
    <3>1. /\ plist' = marker /\ Service!SetupGoes("manifest")
          /\ UNCHANGED <<marker, owned, leftover>>
      BY <2>3 DEF Service!SetupStep
    <3>3. Lock /\ setup' = "manifest" /\ saved' = saved
      BY <1>3, <2>0, <2>3, <3>1
    <3>4. Types
      BY <1>0, <3>1, <3>3 DEF ServiceTypes
    <3> QED
      BY <1>0, <1>1, <2>3, <3>1, <3>3, <3>4
         DEF Marked, Service!PendingIsMarked, Undoable, WasMarked
  <2>4. CASE Service!SetupStep /\ setup = "manifest"
    <3>1. /\ owned' = plist /\ Service!SetupGoes("written")
          /\ UNCHANGED <<marker, plist, leftover>>
      BY <2>4 DEF Service!SetupStep
    <3>3. Lock /\ setup' = "written" /\ saved' = saved
      BY <1>3, <2>0, <2>4, <3>1
    <3>4. Types
      BY <1>0, <3>1, <3>3 DEF ServiceTypes
    <3> QED
      BY <1>0, <1>1, <2>4, <3>1, <3>3, <3>4
         DEF Marked, Service!PendingIsMarked, Undoable, WasMarked
  <2>5. CASE (Service!SetupStep /\ setup = "written") \/ Service!SetupKilled
    <3>1. /\ setup # "idle" /\ Service!SetupOver
          /\ UNCHANGED <<marker, plist, owned, leftover>>
      BY <2>5 DEF Service!SetupStep, Service!SetupKilled
    <3>3. Lock /\ setup' = "idle"
          /\ saved' \in [owned : 0..MaxRelease, marker : 0..MaxRelease]
      BY <1>2, <2>0, <3>1
    <3>4. Types
      BY <1>0, <3>1, <3>3 DEF ServiceTypes
    <3> QED
      BY <1>0, <1>1, <3>1, <3>3, <3>4
         DEF Marked, Service!PendingIsMarked, Undoable
  <2>6. CASE Service!SetupFails
    <3>1. /\ setup \in Laying /\ Service!SetupGoes("back manifest")
          /\ UNCHANGED <<marker, plist, owned, leftover>>
      BY <2>6 DEF Service!SetupFails
    <3>3. Lock /\ setup' = "back manifest" /\ saved' = saved
      BY <1>3, <2>0, <3>1
    <3>4. Types
      BY <1>0, <3>1, <3>3 DEF ServiceTypes
    <3> QED
      BY <1>0, <1>1, <3>1, <3>3, <3>4
         DEF Marked, Service!PendingIsMarked, Undoable, WasMarked
  <2>7. CASE Service!SetupBack /\ setup = "back manifest"
    <3>1. /\ Service!SetupGoes("back plist") /\ owned' \in {owned, saved.owned}
          /\ UNCHANGED <<marker, plist, leftover>>
      BY <2>7 DEF Service!SetupBack
    <3>3. Lock /\ setup' = "back plist" /\ saved' = saved
      BY <1>3, <2>0, <2>7, <3>1
    <3>4. Types
      BY <1>0, <3>1, <3>3 DEF ServiceTypes
    <3> QED
      BY <1>0, <1>1, <2>7, <3>1, <3>3, <3>4
         DEF Marked, Service!PendingIsMarked, Undoable, WasMarked
  <2>8. CASE Service!SetupBack /\ setup = "back plist"
    <3>1. /\ Service!SetupGoes("back marker") /\ plist' \in {plist, saved.owned}
          /\ leftover' = IF plist' = saved.owned THEN leftover ELSE plist
          /\ UNCHANGED <<marker, owned>>
      BY <2>8 DEF Service!SetupBack
    <3>3. Lock /\ setup' = "back marker" /\ saved' = saved
      BY <1>3, <2>0, <2>8, <3>1
    <3>4. Types
      BY <1>0, <3>1, <3>3 DEF ServiceTypes
    <3>5. WasMarked /\ (marker # 0 \/ marker = saved.marker)
      BY <1>0, <2>8 DEF Marked, Undoable
    <3>6. CASE plist' = saved.owned
      BY <1>1, <3>1, <3>3, <3>4, <3>5, <3>6
         DEF Service!PendingIsMarked, Undoable, WasMarked
    <3>7. CASE plist' # saved.owned
      BY <3>1, <3>3, <3>4, <3>7 DEF Service!PendingIsMarked, Undoable
    <3> QED
      BY <3>6, <3>7
  <2>9. CASE Service!SetupBack /\ setup = "back marker"
    <3>1. /\ Service!SetupOver /\ marker' \in {marker, saved.marker}
          /\ UNCHANGED <<plist, owned, leftover>>
      BY <2>9 DEF Service!SetupBack
    <3>3. Lock /\ setup' = "idle"
          /\ saved' \in [owned : 0..MaxRelease, marker : 0..MaxRelease]
      BY <1>2, <2>0, <2>9, <3>1
    <3>4. Types
      BY <1>0, <3>1, <3>3 DEF ServiceTypes
    <3> QED
      BY <1>0, <1>1, <2>9, <3>1, <3>3, <3>4
         DEF Marked, Service!PendingIsMarked, Undoable, WasMarked
  <2> QED
    BY <2>1, <2>2, <2>3, <2>4, <2>5, <2>6, <2>7, <2>8, <2>9
       DEF Service!SetupStep, Service!SetupBack
<1>5. ServiceTypes'
  BY <1>0, <1>1, <1>4 DEF ServiceTypes, Standing
<1>6. Locks'
  BY <1>0, <1>1, <1>4 DEF Locks, Standing
<1>7. Marked'
  BY <1>0, <1>1, <1>4 DEF Marked
<1>8. \A c \in Procs : Relies(c)'
  BY <1>0, <1>1 DEF ServiceInv, Relies, Standing, Locks, InLocks
<1> QED
  BY <1>5, <1>6, <1>7, <1>8 DEF ServiceInv

\* A launcher's steps without the locks, and the end of any launcher.
LEMMA OffLock ==
  ASSUME Service!ServiceAssumption, ServiceInv, NEW c \in Procs,
         Service!Launch(c) \/ Service!Look(c) \/ Service!Approve(c)
           \/ Service!LockRepair(c) \/ Service!LockState(c)
           \/ Service!NotConverged(c) \/ Service!Stop(c)
  PROVE  ServiceInv'
<1>0. /\ ServiceTypes /\ Locks /\ Marked
           /\ launch \in [Procs -> LauncherStates]
      /\ launch[c] \in LauncherStates
  BY DEF ServiceInv, ServiceTypes
<1>1. UNCHANGED <<installed, cli, plist, owned, marker, app, bridge, seats,
                  setup, saved, leftover>>
  BY DEF Service!Launch, Service!Look, Service!Approve, Service!LockRepair,
     Service!LockState, Service!NotConverged, Service!Stop, Service!World,
     Service!Packages, Service!Files
<1>2. Service!Idle \in LauncherStates /\ Service!Idle.pc = "idle"
  BY DEF Service!Idle, LauncherStates, OffLocks, Service!ServiceAssumption
<1>3. /\ launch' \in [Procs -> LauncherStates]
      /\ \A d \in Procs \ {c} : /\ launch'[d].pc = launch[d].pc
                                /\ launch'[d].rel = launch[d].rel
                                /\ launch'[d].approved = launch[d].approved
      /\ launch'[c].pc \in OffLocks \cup {"decide"}
      /\ launch'[c].pc # "idle" => launch'[c].rel # 0
  <2>1. CASE Service!Launch(c)
    <3>1. [Service!Idle EXCEPT !.pc = "look", !.rel = installed]
        \in LauncherStates
          /\ [Service!Idle EXCEPT !.pc = "look", !.rel = installed].pc = "look"
          /\ [Service!Idle EXCEPT !.pc = "look", !.rel = installed].rel # 0
      <4>1. installed \in 0..MaxRelease /\ installed # 0
        BY <1>0 DEF ServiceTypes, Service!ServiceAssumption
      <4>2. \A q \in LauncherStates, r \in 0..MaxRelease :
               LET n == [q EXCEPT !.pc = "look", !.rel = r]
               IN n \in LauncherStates /\ n.pc = "look" /\ n.rel = r
        BY DEF LauncherStates, OffLocks
      <4> QED
        BY <1>2, <4>1, <4>2
    <3> QED
      BY <1>0, <2>1, <3>1 DEF Service!Launch, OffLocks
  <2>2. ASSUME NEW pc \in {"ask", "repair", "state", "decide", "gave up"},
               Service!Goto(c, pc), launch[c].pc # "idle"
        PROVE  /\ launch' \in [Procs -> LauncherStates]
               /\ \A d \in Procs \ {c} : launch'[d] = launch[d]
               /\ launch'[c].pc = pc /\ launch'[c].rel # 0
    <3>1. [launch[c] EXCEPT !.pc = pc] \in LauncherStates
      BY <1>0 DEF LauncherStates, OffLocks, InLocks
    <3>2. launch' = [launch EXCEPT ![c] = [launch[c] EXCEPT !.pc = pc]]
      BY <2>2 DEF Service!Goto
    <3>3. launch[c].rel # 0
      BY <2>2 DEF ServiceInv, Relies
    <3> QED
      BY <1>0, <3>1, <3>2, <3>3 DEF LauncherStates
  <2>3. CASE Service!Look(c)
    <3>1. PICK pc \in {"ask", "repair"} : Service!Goto(c, pc)
      BY <2>3 DEF Service!Look
    <3> QED
      BY <2>2, <2>3, <3>1 DEF Service!Look, Service!At, OffLocks
  <2>4. CASE Service!Approve(c)
    <3>1. /\ [launch[c] EXCEPT !.pc = "repair", !.approved = TRUE]
               \in LauncherStates
          /\ launch'
               = [launch EXCEPT ![c]
                  = [launch[c] EXCEPT !.pc = "repair", !.approved = TRUE]]
          /\ launch[c].rel # 0
      BY <1>0, <2>4 DEF LauncherStates, OffLocks, Service!Approve, Service!At,
         ServiceInv, Relies
    <3> QED
      BY <1>0, <3>1 DEF LauncherStates, OffLocks
  <2>5. CASE Service!LockRepair(c)
    BY <2>2, <2>5 DEF Service!LockRepair, Service!At, OffLocks
  <2>6. CASE Service!LockState(c)
    BY <2>2, <2>6 DEF Service!LockState, Service!At
  <2>7. CASE Service!NotConverged(c)
    BY <2>2, <2>7 DEF Service!NotConverged, Service!At, OffLocks
  <2>8. CASE Service!Stop(c)
    BY <1>0, <1>2, <2>8, Jolting DEF Service!Stop, Service!End, OffLocks
  <2> QED
    BY <2>1, <2>3, <2>4, <2>5, <2>6, <2>7, <2>8
<1>4. /\ repair' \in Procs \cup {none}
      /\ state' \in Procs \cup {none, "setup"}
      /\ state' = "setup" <=> state = "setup"
      /\ (state' = c) <=> launch'[c].pc \in InLocks
      /\ launch'[c].pc \in InLocks \cup {"state"} => repair' = c
      /\ \A d \in Procs \ {c} : /\ state' = d <=> state = d
                                /\ repair = d => repair' = d
  <2>1. CASE Service!Launch(c)
    BY <1>0, <2>1 DEF Service!Launch, Service!At, Service!Idle, ServiceTypes,
       Locks, InLocks
  <2>2. ASSUME NEW pc, Service!Goto(c, pc) PROVE launch'[c].pc = pc
    BY <1>0, <2>2 DEF Service!Goto, LauncherStates
  <2>3. CASE Service!Look(c)
    <3>1. PICK pc \in {"ask", "repair"} : Service!Goto(c, pc)
      BY <2>3 DEF Service!Look
    <3> QED
      BY <1>0, <2>2, <2>3, <3>1 DEF Service!Look, Service!At, ServiceTypes,
         Locks, InLocks
  <2>4. CASE Service!Approve(c)
    <3>1. launch'[c].pc = "repair"
      BY <1>0, <2>4 DEF Service!Approve, LauncherStates
    <3> QED
      BY <1>0, <2>4, <3>1 DEF Service!Approve, Service!At, ServiceTypes,
         Locks, InLocks
  <2>5. CASE Service!LockRepair(c)
    BY <1>0, <2>2, <2>5 DEF Service!LockRepair, Service!At, ServiceTypes,
       Locks, InLocks, Service!ServiceAssumption
  <2>6. CASE Service!LockState(c)
    BY <1>0, <2>2, <2>6 DEF Service!LockState, Service!At, ServiceTypes,
       Locks, InLocks, Service!ServiceAssumption
  <2>7. CASE Service!NotConverged(c)
    BY <1>0, <2>2, <2>7 DEF Service!NotConverged, Service!At, ServiceTypes,
       Locks, InLocks
  <2>8. CASE Service!Stop(c)
    <3>1. launch'[c].pc = "idle"
      BY <1>2, <2>8 DEF Service!Stop, Service!End
    <3> QED
      BY <1>0, <2>8, <3>1 DEF Service!Stop, Service!End, ServiceTypes, Locks,
         InLocks, Service!ServiceAssumption
  <2> QED
    BY <2>1, <2>3, <2>4, <2>5, <2>6, <2>7, <2>8
<1>5. ServiceTypes'
  BY <1>0, <1>1, <1>3, <1>4 DEF ServiceTypes
<1>6. Locks'
  BY <1>0, <1>1, <1>3, <1>4 DEF Locks
<1>7. Marked'
  BY <1>0, <1>1 DEF Marked, Undoable, WasMarked, Service!PendingIsMarked
<1>8. \A d \in Procs : Relies(d)'
  BY <1>0, <1>1, <1>3 DEF ServiceInv, Relies, OffLocks
<1> QED
  BY <1>5, <1>6, <1>7, <1>8 DEF ServiceInv

\* A step under both locks: the others are outside.
LEMMA UnderLock ==
  ASSUME Service!ServiceAssumption, ServiceInv, NEW c \in Procs, state = c,
         launch[c].pc \in InLocks,
           UNCHANGED <<installed, cli, plist, owned, setup, saved, leftover>>,
         app' \in Apps, bridge' \in Bridges, marker' \in 0..MaxRelease,
         seats' \subseteq Procs, launch' \in [Procs -> LauncherStates],
         \A d \in Procs \ {c} : launch'[d].pc = launch[d].pc
           /\ launch'[d].rel = launch[d].rel,
         \/ repair' = repair /\ state' = c /\ launch'[c].pc \in InLocks
         \/ repair' = none /\ state' = none
              /\ launch'[c].pc \in {"idle", "look"},
         Marked', Relies(c)'
  PROVE  ServiceInv'
<1>0. ServiceTypes /\ Locks /\ \A d \in Procs : Relies(d)
  BY DEF ServiceInv
<1>1. \A d \in Procs \ {c} : launch[d].pc \notin InLocks \cup {"state"}
  BY <1>0 DEF Locks
<1>2. ServiceTypes'
  BY <1>0 DEF ServiceTypes
<1>3. Locks'
  BY <1>0, <1>1 DEF Locks, Service!ServiceAssumption, InLocks
<1>4. \A d \in Procs \ {c} : Relies(d)'
  BY <1>0, <1>1 DEF Relies, InLocks
<1> QED
  BY <1>2, <1>3, <1>4 DEF ServiceInv

\* A launcher under its locks goes on.
LEMMA Going ==
  ASSUME Service!ServiceAssumption, ServiceInv, NEW c \in Procs,
         NEW pc \in InLocks, Service!Goto(c, pc)
  PROVE  /\ launch' \in [Procs -> LauncherStates]
         /\ \A d \in Procs \ {c} : launch'[d].pc = launch[d].pc
              /\ launch'[d].rel = launch[d].rel
         /\ launch'[c].pc = pc /\ launch'[c].rel = launch[c].rel
         /\ launch'[c].approved = launch[c].approved
<1>0. launch[c] \in LauncherStates /\ launch \in [Procs -> LauncherStates]
  BY DEF ServiceInv, ServiceTypes
<1>1. [launch[c] EXCEPT !.pc = pc] \in LauncherStates
  BY <1>0 DEF LauncherStates
<1>2. launch' = [launch EXCEPT ![c] = [launch[c] EXCEPT !.pc = pc]]
  BY DEF Service!Goto
<1> QED
  BY <1>0, <1>1, <1>2 DEF LauncherStates

\* A launcher gives its locks back and looks again.
LEMMA Freeing ==
  ASSUME Service!ServiceAssumption, ServiceInv, NEW c \in Procs,
         Service!Free(c, "look")
  PROVE  /\ launch' \in [Procs -> LauncherStates]
         /\ \A d \in Procs \ {c} : launch'[d].pc = launch[d].pc
              /\ launch'[d].rel = launch[d].rel
         /\ launch'[c].pc = "look" /\ launch'[c].rel = launch[c].rel
         /\ repair' = none /\ state' = none
<1>0. launch[c] \in LauncherStates /\ launch \in [Procs -> LauncherStates]
  BY DEF ServiceInv, ServiceTypes
<1>1. [launch[c] EXCEPT !.pc = "look", !.tries = @ + 1] \in LauncherStates
  <2>1. [launch[c] EXCEPT !.pc = "look"] \in LauncherStates
    BY <1>0 DEF LauncherStates, OffLocks
  <2>2. \A q \in LauncherStates : [q EXCEPT !.tries = @ + 1] \in LauncherStates
    BY DEF LauncherStates
  <2> QED
    BY <1>0, <2>1, <2>2 DEF LauncherStates
<1>2. launch'
    = [launch EXCEPT ![c] = [launch[c] EXCEPT !.pc = "look", !.tries = @ + 1]]
  BY DEF Service!Free
<1> QED
  BY <1>0, <1>1, <1>2 DEF LauncherStates, Service!Free

\* What the decision rests on.
LEMMA Inspection ==
  ASSUME Service!ServiceAssumption, ServiceInv, NEW r \in 1..MaxRelease
  PROVE  /\ Service!Inspect(r) = "ready" =>
              /\ app.alive /\ marker = 0
              /\ plist = r /\ owned = r
         /\ Service!Inspect(r) = "cold" => ~app.loaded
         /\ Service!Inspect(r) = "reload_required_idle" => seats = {}
<1>1. /\ Service!Inspect(r) = "ready" \/ Service!Inspect(r) = "cold"
           => ~Service!Unsafe(r) /\ Service!PlistState(r) = "current"
      /\ Service!Inspect(r) = "ready" => app.alive /\ marker = 0
      /\ Service!Inspect(r) = "cold" => ~app.loaded
      /\ Service!Inspect(r) = "reload_required_idle"
           => Service!Reload = "reload_required_idle"
  <2>1. CASE Service!Unsafe(r)
    BY <2>1 DEF Service!Inspect
  <2>2. CASE ~Service!Unsafe(r) /\ Service!PlistState(r) # "current"
    BY <2>2 DEF Service!Inspect
  <2>3. CASE ~Service!Unsafe(r) /\ Service!PlistState(r) = "current"
    BY <2>3 DEF Service!Inspect, Service!Reload
  <2> QED
    BY <2>1, <2>2, <2>3
<1>2. Service!PlistState(r) = "current" => plist = r /\ owned = r
  BY DEF Service!PlistState
<1> QED
  BY <1>1, <1>2 DEF Service!Reload

\* The steps between taking the locks and giving them back.
LEMMA SectionInv ==
  ASSUME Service!ServiceAssumption, ServiceInv, NEW c \in Procs,
         Service!Decide(c) \/ Service!Claim(c) \/ Service!Start(c)
           \/ Service!Unload(c) \/ Service!Load(c) \/ Service!Wait(c)
           \/ Service!Clear(c) \/ Service!RestartBridge(c)
                \/ Service!LoadBridge(c) \/ Service!TakeOver(c)
  PROVE  ServiceInv'
<1>0. /\ ServiceTypes /\ Locks /\ Marked /\ Relies(c)
           /\ launch[c] \in LauncherStates
      /\ launch \in [Procs -> LauncherStates]
  BY DEF ServiceInv, ServiceTypes
<1>1. /\ state = c /\ repair = c /\ launch[c].pc \in InLocks
           /\ launch[c].rel \in 1..MaxRelease
      /\ UNCHANGED <<installed, cli, plist, owned, setup, saved, leftover>>
      /\ setup = "idle"
  <2>1. state = c /\ repair = c /\ launch[c].pc \in InLocks
    BY DEF Service!Decide, Service!Claim, Service!Start, Service!Unload,
       Service!Load, Service!Wait, Service!Clear, Service!RestartBridge,
       Service!LoadBridge, Service!TakeOver, Service!Locked, Service!At,
       InLocks
  <2>2. launch[c].rel \in 1..MaxRelease
    <3>1. launch[c].rel \in 0..MaxRelease
      BY <1>0 DEF LauncherStates
    <3>2. launch[c].rel # 0
      BY <1>0, <2>1 DEF Relies, InLocks
    <3> QED
      BY <3>1, <3>2 DEF Service!ServiceAssumption
  <2>3. UNCHANGED <<installed, cli, plist, owned, setup, saved, leftover>>
    BY DEF Service!Decide, Service!Claim, Service!Start, Service!Unload,
       Service!Load, Service!Wait, Service!Clear, Service!RestartBridge,
       Service!LoadBridge, Service!TakeOver, Service!World, Service!Packages,
       Service!Files
  <2>4. setup = "idle"
    BY <1>0, <2>1 DEF Locks, Service!ServiceAssumption
  <2> QED
    BY <2>1, <2>2, <2>3, <2>4
<1>2. CASE Service!Decide(c)
  <2>1. UNCHANGED <<app, bridge, seats, marker>>
    BY <1>2 DEF Service!Decide, Service!World, Service!Files
  <2>2. CASE Service!Free(c, "look")
    BY <1>0, <1>1, <2>1, <2>2, Freeing, UnderLock
       DEF ServiceTypes, Marked, Undoable, Service!PendingIsMarked, Relies,
           InLocks
  <2>3. CASE ~Service!Free(c, "look")
    <3> DEFINE s == Service!Inspect(launch[c].rel)
               pc == CASE s = "ready" -> "claim"
                       [] s = "bridge_down" -> "bridge"
                       [] s = "cold" /\ marker = 0 -> "start"
                       [] OTHER -> "unload"
    <3>1. /\ s \notin Service!Final /\ Service!Goto(c, pc)
               /\ UNCHANGED <<repair, state>>
          /\ s = "reload_required_idle" => launch[c].approved
      BY <1>2, <2>3 DEF Service!Decide
    <3>2. pc \in {"claim", "bridge", "start", "unload"}
      OBVIOUS
    <3>3. pc = "claim"
        => /\ app.loaded /\ (app.gen = plist \/ plist = leftover)
           /\ plist = owned /\ marker = 0
      <4> SUFFICES ASSUME pc = "claim"
                   PROVE /\ app.loaded /\ (app.gen = plist \/ plist = leftover)
                         /\ plist = owned /\ marker = 0
        OBVIOUS
      <4>1. s = "ready"
        OBVIOUS
      <4>2. app.alive /\ marker = 0 /\ plist = launch[c].rel
          /\ owned = launch[c].rel
        BY <1>1, <4>1, Inspection
      <4> QED
        BY <1>0, <1>1, <4>2 DEF Marked, Undoable, Service!PendingIsMarked
    <3>4. pc = "unload" => seats = {} /\ (launch[c].approved \/ ~app.loaded)
      <4> SUFFICES ASSUME pc = "unload"
                   PROVE seats = {} /\ (launch[c].approved \/ ~app.loaded)
        OBVIOUS
      <4>1. s \in {"reload_required_idle", "cold"}
        BY <3>1 DEF Service!Inspect, Service!Reload, Service!Final
      <4>2. CASE s = "cold"
        BY <1>0, <1>1, <4>2, Inspection DEF Marked
      <4>3. CASE s = "reload_required_idle"
        BY <1>1, <3>1, <4>3, Inspection
      <4> QED
        BY <4>1, <4>2, <4>3
    <3> HIDE DEF s, pc
    <3>5. /\ launch' \in [Procs -> LauncherStates]
          /\ \A d \in Procs \ {c} : launch'[d].pc = launch[d].pc
               /\ launch'[d].rel = launch[d].rel
          /\ launch'[c].pc = pc /\ launch'[c].rel = launch[c].rel
          /\ launch'[c].approved = launch[c].approved /\ pc \in InLocks
      BY <3>1, <3>2, Going DEF InLocks
    <3>6. Relies(c)'
      BY <1>1, <2>1, <3>2, <3>3, <3>4, <3>5 DEF Relies
    <3>7. Marked'
      BY <1>0, <1>1, <2>1 DEF Marked, Undoable, Service!PendingIsMarked
    <3> QED
      BY <1>0, <1>1, <2>1, <3>1, <3>5, <3>6, <3>7, UnderLock DEF ServiceTypes
  <2> QED
    BY <2>2, <2>3
<1>3. CASE Service!Claim(c)
  <2>1. /\ launch[c].pc = "claim" /\ seats' = seats \cup {c} /\ Service!End(c)
        /\ UNCHANGED <<app, bridge, marker>>
    BY <1>3 DEF Service!Claim, Service!Locked, Service!At, Service!Files
  <2>2. Service!Idle \in LauncherStates /\ Service!Idle.pc = "idle"
    BY DEF Service!Idle, LauncherStates, OffLocks, Service!ServiceAssumption
  <2>3. /\ launch' \in [Procs -> LauncherStates] /\ launch'[c].pc = "idle"
        /\ \A d \in Procs \ {c} : launch'[d].pc = launch[d].pc
             /\ launch'[d].rel = launch[d].rel
        /\ repair' = none /\ state' = none
    BY <1>0, <1>1, <2>1, <2>2, Jolting DEF Service!End
  <2>4. Marked' /\ Relies(c)'
    BY <1>0, <1>1, <2>1, <2>3 DEF Marked, Undoable, Service!PendingIsMarked,
       Relies
  <2> QED
    BY <1>0, <1>1, <2>1, <2>3, <2>4, UnderLock DEF ServiceTypes
<1>4. CASE Service!Start(c)
  <2>1. Service!Free(c, "look") /\ UNCHANGED <<bridge, seats, marker>>
    BY <1>4 DEF Service!Start, Service!Files
  <2>2. /\ app' \in Apps /\ (app'.alive => app'.loaded)
        /\ app' = app \/ (app'.loaded /\ app'.gen = plist)
    <3>1. CASE app.alive
      BY <1>0, <1>4, <3>1 DEF Service!Start, ServiceTypes, Marked
    <3>2. CASE ~app.alive
      <4>1. app' = [loaded |-> TRUE, alive |-> TRUE, gen |-> plist,
                    cli |-> cli]
        BY <1>4, <3>2 DEF Service!Start
      <4> QED
        BY <1>0, <4>1 DEF ServiceTypes, Apps
    <3> QED
      BY <3>1, <3>2
  <2>3. Marked'
    BY <1>0, <1>1, <2>1, <2>2 DEF Marked, Undoable, Service!PendingIsMarked
  <2>4. Relies(c)'
    BY <1>1, <2>1, Freeing DEF Relies
  <2>5. /\ launch' \in [Procs -> LauncherStates]
        /\ \A d \in Procs \ {c} : launch'[d].pc = launch[d].pc
             /\ launch'[d].rel = launch[d].rel
        /\ launch'[c].pc = "look" /\ repair' = none /\ state' = none
    BY <2>1, Freeing
  <2>6. /\ bridge' \in Bridges /\ seats' \subseteq Procs
        /\ marker' \in 0..MaxRelease
    BY <1>0, <2>1 DEF ServiceTypes
  <2>7. launch'[c].pc \in {"idle", "look"} /\ app' \in Apps
    BY <2>2, <2>5
  <2> QED
    BY <1>1, <2>3, <2>4, <2>5, <2>6, <2>7, UnderLock
<1>5. CASE Service!Unload(c)
  <2>1. /\ app' = [app EXCEPT !.loaded = FALSE, !.alive = FALSE]
        /\ Service!Goto(c, "load")
             /\ UNCHANGED <<bridge, repair, state, seats, marker>>
        /\ seats = {}
    BY <1>0, <1>5 DEF Service!Unload, Service!Files, Service!Locked,
       Service!At, Relies
  <2>2. app' \in Apps /\ ~app'.loaded /\ ~app'.alive
    BY <1>0, <2>1 DEF ServiceTypes, Apps
  <2>3. Marked'
    BY <1>0, <1>1, <2>1, <2>2 DEF Marked, Undoable, Service!PendingIsMarked
  <2>4. /\ launch' \in [Procs -> LauncherStates]
        /\ \A d \in Procs \ {c} : launch'[d].pc = launch[d].pc
             /\ launch'[d].rel = launch[d].rel
        /\ launch'[c].pc = "load" /\ launch'[c].rel = launch[c].rel
             /\ "load" \in InLocks
    BY <2>1, Going DEF InLocks
  <2>5. Relies(c)'
    BY <1>1, <2>1, <2>4 DEF Relies
  <2> QED
    BY <1>0, <1>1, <2>1, <2>2, <2>3, <2>4, <2>5, UnderLock DEF ServiceTypes
<1>6. CASE Service!Load(c)
  <2>1. /\ app' = [loaded |-> TRUE, alive |-> TRUE, gen |-> plist, cli |-> cli]
        /\ Service!Goto(c, "wait")
             /\ UNCHANGED <<bridge, repair, state, seats, marker>>
    BY <1>6 DEF Service!Load, Service!Files
  <2>2. app' \in Apps /\ app'.loaded /\ app'.gen = plist
    BY <1>0, <2>1 DEF ServiceTypes, Apps
  <2>3. Marked'
    BY <1>0, <1>1, <2>1, <2>2 DEF Marked, Undoable, Service!PendingIsMarked
  <2>4. /\ launch' \in [Procs -> LauncherStates]
        /\ \A d \in Procs \ {c} : launch'[d].pc = launch[d].pc
             /\ launch'[d].rel = launch[d].rel
        /\ launch'[c].pc = "wait" /\ launch'[c].rel = launch[c].rel
             /\ "wait" \in InLocks
    BY <2>1, Going DEF InLocks
  <2>5. Relies(c)'
    BY <1>1, <2>1, <2>2, <2>4 DEF Relies
  <2> QED
    BY <1>0, <1>1, <2>1, <2>2, <2>3, <2>4, <2>5, UnderLock DEF ServiceTypes
<1>7. CASE Service!Wait(c) \/ Service!Clear(c)
  <2>1. /\ UNCHANGED <<app, bridge, repair, state, seats>>
        /\ app.gen = plist /\ marker' \in {0, marker}
    BY <1>0, <1>7 DEF Service!Wait, Service!Clear, Service!World,
       Service!Files, Service!Locked, Service!At, Relies
  <2>2. PICK pc \in {"clear", "bridge"} : Service!Goto(c, pc)
    BY <1>7 DEF Service!Wait, Service!Clear
  <2>3. Marked'
    BY <1>0, <1>1, <2>1 DEF Marked, Undoable, Service!PendingIsMarked
  <2>4. /\ launch' \in [Procs -> LauncherStates]
        /\ \A d \in Procs \ {c} : launch'[d].pc = launch[d].pc
             /\ launch'[d].rel = launch[d].rel
        /\ launch'[c].pc = pc /\ launch'[c].rel = launch[c].rel
             /\ pc \in InLocks
    BY <2>2, Going DEF InLocks
  <2>5. Relies(c)'
    BY <1>1, <2>1, <2>2, <2>4 DEF Relies
  <2>6. marker' \in 0..MaxRelease
    BY <1>0, <2>1 DEF ServiceTypes, Service!ServiceAssumption
  <2> QED
    BY <1>0, <1>1, <2>1, <2>3, <2>4, <2>5, <2>6, UnderLock DEF ServiceTypes
<1>8. CASE Service!RestartBridge(c) \/ Service!LoadBridge(c)
  <2>1. UNCHANGED <<app, repair, state, seats, marker>>
    BY <1>8 DEF Service!RestartBridge, Service!LoadBridge, Service!Files
  <2>2. PICK pc \in {"bridge load", "takeover"} : Service!Goto(c, pc)
    BY <1>8 DEF Service!RestartBridge, Service!LoadBridge
  <2>3. bridge' \in Bridges
    <3>1. \/ bridge' = [alive |-> FALSE, build |-> 0]
          \/ bridge' = [alive |-> TRUE, build |-> installed]
      BY <1>8 DEF Service!RestartBridge, Service!LoadBridge
    <3>2. 0 \in 0..MaxRelease /\ installed \in 0..MaxRelease
      <4>1. installed \in 1..MaxRelease
        BY <1>0 DEF ServiceTypes
      <4> QED
        BY <4>1, Ranges
    <3>3. CASE bridge' = [alive |-> FALSE, build |-> 0]
      BY <3>2, <3>3, Zenon DEF Bridges
    <3>4. CASE bridge' = [alive |-> TRUE, build |-> installed]
      BY <3>2, <3>4, Zenon DEF Bridges
    <3> QED
      BY <3>1, <3>3, <3>4
  <2>4. /\ launch' \in [Procs -> LauncherStates]
        /\ \A d \in Procs \ {c} : launch'[d].pc = launch[d].pc
             /\ launch'[d].rel = launch[d].rel
        /\ launch'[c].pc = pc /\ launch'[c].rel = launch[c].rel
             /\ pc \in InLocks
    BY <2>2, Going DEF InLocks
  <2>5. Relies(c)'
    <3>1. launch'[c].pc \in {"bridge load", "takeover"}
      BY <2>2, <2>4
    <3>2. launch'[c].rel # 0
      BY <1>1, <2>4, Ranges
    <3> QED
      BY <3>1, <3>2 DEF Relies
  <2>6. Marked'
    BY <1>0, <1>1, <2>1 DEF Marked, Undoable, Service!PendingIsMarked
  <2> QED
    BY <1>0, <1>1, <2>1, <2>3, <2>4, <2>5, <2>6, UnderLock DEF ServiceTypes
<1>9. CASE Service!TakeOver(c)
  <2>1. Service!Free(c, "look") /\ UNCHANGED <<app, bridge, seats, marker>>
    BY <1>9 DEF Service!TakeOver, Service!World, Service!Files
  <2>2. Marked' /\ Relies(c)'
    BY <1>0, <1>1, <2>1, Freeing DEF Marked, Undoable,
       Service!PendingIsMarked, Relies
  <2> QED
    BY <1>0, <1>1, <2>1, <2>2, Freeing, UnderLock DEF ServiceTypes
<1> QED
  BY <1>2, <1>3, <1>4, <1>5, <1>6, <1>7, <1>8, <1>9

\* Every step of the services preserves the invariant.
LEMMA ServiceStep ==
  ASSUME Service!ServiceAssumption, ServiceInv,
         [Service!Next]_(Service!vars) PROVE ServiceInv'
<1>1. CASE UNCHANGED Service!vars
  <2>1. Standing
      /\ UNCHANGED <<installed, cli, plist, owned, marker, app, bridge,
                                repair, state, seats, setup, saved,
                                leftover>>
    BY <1>1, Stand DEF Service!vars
  <2> QED
    BY <2>1 DEF Standing, ServiceInv, ServiceTypes, Locks, Marked,
       Undoable, WasMarked, Service!PendingIsMarked, Relies
<1>2. ASSUME NEW c \in Procs, Service!Step(c) PROVE ServiceInv'
  BY <1>2, OffLock, SectionInv DEF Service!Step
<1> QED
  BY <1>1, <1>2, AroundService, SetupInv DEF Service!Next

\* What the invariant says of the state.
LEMMA ServiceWhollySafe == ServiceInv
                           => Service!TypeOK /\ Service!SeatsUndisturbed
                             /\ Service!PendingIsMarked
<1> SUFFICES ASSUME ServiceInv PROVE Service!TypeOK /\ Service!SeatsUndisturbed
                    /\ Service!PendingIsMarked
  OBVIOUS
<1>1. ServiceTypes /\ Locks /\ Marked /\ launch \in [Procs -> LauncherStates]
  BY DEF ServiceInv, ServiceTypes
<1>2. \A c \in Procs : (state = c) <=>
         launch[c].pc \notin {"idle", "look", "ask", "repair", "state",
                              "gave up"}
  BY <1>1 DEF Locks, LauncherStates, InLocks, OffLocks
<1>3. Service!TypeOK
  BY <1>1, <1>2 DEF ServiceTypes, Locks, Service!TypeOK, Apps, Bridges
<1>4. Service!SeatsUndisturbed
  BY DEF ServiceInv, Relies, Service!SeatsUndisturbed
<1> QED
  BY <1>1, <1>3, <1>4 DEF Marked

\* The two things a step may not do.
Asked ==
  \A c \in Procs : app.alive /\ app.loaded /\ ~app'.loaded
      /\ launch[c].pc = "unload" /\ launch'[c].pc = "load"
           => launch[c].approved
Current ==
  \A c \in seats' \ seats :
     /\ app.gen = plist \/ plist = leftover
     /\ plist = owned /\ marker = 0

\* From a state of the invariant no step unloads without consent, nor
\* publishes a seat on anything but the current definition.
LEMMA AskedStep ==
  ASSUME Service!ServiceAssumption, ServiceInv,
         [Service!Next]_(Service!vars) PROVE Asked /\ Current
<1>1. Asked
  BY DEF ServiceInv, Relies, Asked
<1>2. ASSUME NEW c \in Procs, seats' # seats, Service!Step(c) PROVE Current
  <2>1. Service!Claim(c)
    BY <1>2 DEF Service!Step, Service!Launch, Service!Look, Service!Approve,
       Service!LockRepair, Service!LockState, Service!Decide, Service!Start,
       Service!Unload, Service!Load, Service!Wait, Service!Clear,
       Service!RestartBridge, Service!LoadBridge, Service!TakeOver,
       Service!NotConverged, Service!Stop, Service!World
  <2> QED
    BY <2>1 DEF Service!Claim, Service!Locked, Service!At, ServiceInv, Relies,
       Current
<1>3. seats' # seats => \/ \E c \in Procs : Service!Step(c)
                        \/ seats' \subseteq seats
  BY DEF Service!Next, Service!vars, Service!Close, Service!Install,
     Service!UpgradeCli, Service!Crash, Service!KeepAlive, Service!Login,
     Service!SetupBegin, Service!SetupStep, Service!SetupFails,
     Service!SetupBack, Service!SetupKilled, Service!SetupOnly
<1> QED
  BY <1>1, <1>2, <1>3 DEF Current

\* ServiceInv is an inductive invariant of the launch preflight.
LEMMA ServiceInvariance == Service!ServiceAssumption
                           => (Service!Spec => []ServiceInv)
<1> SUFFICES ASSUME Service!ServiceAssumption PROVE Service!Spec
                    => []ServiceInv
  OBVIOUS
<1>1. Service!Init => ServiceInv
  BY InitService
<1>2. ServiceInv /\ [Service!Next]_(Service!vars) => ServiceInv'
  BY ServiceStep
<1> QED
  BY <1>1, <1>2, PTL DEF Service!Spec

\* The same of every behaviour of the preflight.
LEMMA ServiceAsking == Service!ServiceAssumption
                       => (Service!Spec
                           => Service!NeverSilently
                             /\ Service!ClaimedOnCurrent)
<1> SUFFICES ASSUME Service!ServiceAssumption PROVE Service!Spec
                    => Service!NeverSilently /\ Service!ClaimedOnCurrent
  OBVIOUS
<1>1. Service!Spec => []ServiceInv
  BY ServiceInvariance
<1>2. ServiceInv /\ [Service!Next]_(Service!vars)
    => [Asked]_(Service!vars) /\ [Current]_(Service!vars)
  BY AskedStep
<1>3. Service!Spec => [][Asked]_(Service!vars) /\ [][Current]_(Service!vars)
  BY <1>1, <1>2, PTL DEF Service!Spec
<1> QED
  BY <1>3 DEF Service!NeverSilently, Service!ClaimedOnCurrent, Asked, Current

-----------------------------------------------------------------------------
(* Why a preflight converges.  Left counts the attempts a launcher still   *)
(* needs, from what the services lack and what the others are doing to     *)
(* them.  An attempt that is used up lowers it by one, a step of another   *)
(* launcher never raises it, and whatever comes in the way raises it by    *)
(* one at most; a newcomer needs three.  What counts are the files as setup *)
(* found them: it may put them back, and nobody reads them before it is     *)
(* over.                                                                    *)

\* The part of a repair before the bridge is taken down, and after.
Reloading == {"unload", "load", "wait", "clear", "bridge"}
Bridging == {"bridge load", "takeover"}

\* The files that setup is not about to take back.
PlistFound == IF setup = "idle" THEN plist ELSE saved.owned
OwnedFound == IF setup = "idle" THEN owned ELSE saved.owned
MarkerFound == IF setup = "idle" THEN marker ELSE saved.marker

\* The services are set up for the release of launcher c; a launcher that has
\* seen them so will never see them so again once they are not.
Live(c) == /\ PlistFound = launch[c].rel /\ OwnedFound = launch[c].rel
           /\ MarkerFound \in {0, launch[c].rel}
Engaged(c) == \/ launch[c].pc \notin {"idle", "look"}
              \/ launch[c].tries # 0 \/ launch[c].approved
Passed(c) == \/ PlistFound > launch[c].rel \/ OwnedFound > launch[c].rel
             \/ MarkerFound > launch[c].rel

\* Nothing is set up for a release that is not installed yet, and setup only
\* replaces a definition by a later one.
Ordered ==
  /\ plist <= installed /\ owned <= installed /\ marker <= installed
  /\ setup # "idle" =>
       /\ saved.owned < installed /\ saved.marker \in {0, saved.owned}
       /\ plist >= saved.owned /\ owned >= saved.owned
       /\ marker = saved.marker \/ marker > saved.owned
  /\ setup = "plist" => marker > saved.owned

\* What the app-server needs: it was never started, or must be reloaded.
Cold == ~app.alive /\ ~app.loaded
Poor == ~(app.alive /\ app.cli = cli) \/ MarkerFound # 0

\* What a launcher under the locks has made sure of.
Sure(c) ==
  /\ launch[c].pc \in InLocks \ {"decide"} => Live(c)
  /\ launch[c].pc \in Bridging \cup {"bridge"} => marker = 0
  /\ launch[c].pc \in Bridging => app.loaded
  /\ launch[c].pc = "start" => Cold /\ marker = 0
  /\ launch[c].pc # "idle" => launch[c].rel <= installed
  /\ Engaged(c) => Live(c) \/ Passed(c)
  /\ launch[c].pc = "gave up" => launch[c].tries = Service!Attempts

\* How many more attempts a launcher needs if nothing comes in its way: where
\* it is, whether its user approved a reload, whether the bridge is healthy,
\* what the app-server needs, and whether another launcher is at its repair.
\* One who has not approved has an attempt in reserve, for the one in which
\* the reload is noticed too late.
Committed == {"repair", "state", "decide"}
Well(c) == Service!Healthy(launch[c].rel)
Others(c, pcs) == \E d \in Procs \ {c} : launch[d].pc \in pcs

InReserve(c) ==
  IF launch[c].pc \in Reloading \/ launch[c].pc \in Bridging THEN 2
  ELSE IF launch[c].pc = "start" THEN IF Well(c) THEN 2 ELSE 3
  ELSE IF launch[c].pc = "claim" \/ ~Live(c) THEN 1
  ELSE IF Others(c, Reloading) THEN IF Well(c) THEN 1 ELSE 2
  ELSE IF Others(c, Bridging)
       THEN IF Poor /\ launch[c].pc \in Committed THEN 2 ELSE 1
  ELSE IF Cold \/ (Poor /\ launch[c].pc \in Committed)
       THEN IF Well(c) THEN 2 ELSE 3
  ELSE IF Well(c) THEN 1 ELSE 2

Consented(c) ==
  IF launch[c].pc \in Reloading THEN 1
  ELSE IF launch[c].pc \in Bridging THEN IF Poor THEN 2 ELSE 1
  ELSE IF launch[c].pc = "start" THEN IF Well(c) THEN 1 ELSE 2
  ELSE IF launch[c].pc = "claim" \/ ~Live(c) THEN 0
  ELSE IF Others(c, Reloading) \/ Others(c, Bridging) THEN 1
  ELSE IF Cold THEN IF Well(c) THEN 1 ELSE 2
  ELSE IF Poor \/ ~Well(c) THEN 1 ELSE 0

Left(c) == IF launch[c].approved THEN Consented(c) ELSE InReserve(c)

\* What was used and what is needed is paid for by what came in the way.
Paid(c) == launch[c].pc # "idle" /\ launch[c].jolts < 3 =>
             launch[c].tries + Left(c) <= 3 + launch[c].jolts

ConvergeInv == ServiceInv /\ Ordered /\ \A c \in Procs : Sure(c) /\ Paid(c)

\* A launcher stays where it is, and something comes in its way or not.
Stays(c) == /\ launch'[c].pc = launch[c].pc /\ launch'[c].rel = launch[c].rel
            /\ launch'[c].approved = launch[c].approved
            /\ launch'[c].tries = launch[c].tries
Spared(c) == Stays(c) /\ launch'[c].jolts = launch[c].jolts
Hit(c) == /\ Stays(c)
          /\ launch[c].pc # "idle" =>
               launch'[c].jolts = IF launch[c].jolts < 3
                                  THEN launch[c].jolts + 1 ELSE 3

\* The number is a number; a launcher in the reserve needs one attempt, and a
\* newcomer at most three.
LEMMA LeftRange ==
  ASSUME NEW c \in Procs
  PROVE  /\ Left(c) \in 0..4
         /\ ~launch[c].approved => Left(c) >= 1
         /\ launch[c].pc = "look" /\ ~launch[c].approved => Left(c) <= 3
         /\ ~Live(c) /\ launch[c].pc \notin InLocks =>
              Left(c) = IF launch[c].approved THEN 0 ELSE 1
<1>1. launch[c].pc \notin InLocks =>
        launch[c].pc \notin Reloading \cup Bridging \cup {"start"}
  BY DEF InLocks, Reloading, Bridging
<1> QED
  BY <1>1 DEF Left, InReserve, Consented, Reloading, Committed

LEMMA LeftRangeNext ==
  ASSUME NEW c \in Procs
  PROVE  /\ Left(c)' \in 0..4
         /\ launch'[c].pc = "look" /\ ~launch'[c].approved => Left(c)' <= 3
         /\ ~Live(c)' /\ launch'[c].pc \notin InLocks =>
              Left(c)' = IF launch'[c].approved THEN 0 ELSE 1
<1>1. launch'[c].pc \notin InLocks =>
        launch'[c].pc \notin Reloading \cup Bridging \cup {"start"}
  BY DEF InLocks, Reloading, Bridging
<1> QED
  BY <1>1 DEF Left, InReserve, Consented, Reloading, Committed

\* Better services need no more attempts.
LEMMA LeftFalls ==
  ASSUME NEW c \in Procs, Stays(c), Live(c)' <=> Live(c), Well(c) => Well(c)',
         Cold' => Cold, Poor' => Poor, Cold => Poor,
         Others(c, Reloading)' <=> Others(c, Reloading),
         Others(c, Bridging)' <=> Others(c, Bridging)
  PROVE  Left(c)' <= Left(c)
BY DEF Stays, Left, InReserve, Consented, Reloading, Committed

\* One disturbance costs one attempt.
LEMMA LeftRises ==
  ASSUME NEW c \in Procs, Stays(c), Live(c)' <=> Live(c),
         (Well(c)' <=> Well(c)) \/ (Poor' <=> Poor),
         Cold' <=> Cold, Cold => Poor /\ Poor',
         Others(c, Reloading)' <=> Others(c, Reloading),
         Others(c, Bridging)' <=> Others(c, Bridging)
  PROVE  Left(c)' <= Left(c) + 1
BY DEF Stays, Left, InReserve, Consented, Reloading, Committed

\* Who is spared needs no more, who is hit one more at most.
LEMMA Affords ==
  ASSUME ServiceTypes, NEW c \in Procs, Paid(c),
         \/ Spared(c) /\ Left(c)' <= Left(c)
         \/ Hit(c) /\ Left(c)' <= Left(c) + 1
  PROVE  Paid(c)'
<1>1. launch[c].tries \in Nat /\ launch[c].jolts \in 0..3
  BY DEF ServiceTypes, LauncherStates
<1>2. Left(c) \in 0..4 /\ Left(c)' \in 0..4
  BY LeftRange, LeftRangeNext
<1>3. launch'[c].pc = launch[c].pc /\ launch'[c].tries = launch[c].tries
  BY DEF Spared, Hit, Stays
<1>4. CASE Spared(c) /\ Left(c)' <= Left(c)
  BY <1>1, <1>2, <1>3, <1>4 DEF Paid, Spared
<1>5. CASE Hit(c) /\ Left(c)' <= Left(c) + 1
  BY <1>1, <1>2, <1>3, <1>5 DEF Paid, Hit
<1> QED
  BY <1>4, <1>5

\* A disturbance hits every launcher.
LEMMA Hits ==
  ASSUME ServiceTypes, NEW c \in Procs,
         launch'[c] = Service!Jolted(launch[c])
  PROVE  Hit(c)
<1>1. launch[c] \in LauncherStates
  BY DEF ServiceTypes
<1> QED
  BY <1>1 DEF Hit, Stays, Service!Jolted, LauncherStates

LEMMA Disturbing ==
  ASSUME ServiceTypes, NEW c \in Procs, Service!Disturb PROVE Hit(c)
BY Hits DEF Service!Disturb

\* Where no launcher moves, none comes to a repair.
LEMMA Around ==
  ASSUME \A c \in Procs : launch'[c].pc = launch[c].pc,
         NEW c \in Procs
  PROVE  /\ Others(c, Reloading)' <=> Others(c, Reloading)
         /\ Others(c, Bridging)' <=> Others(c, Bridging)
BY DEF Others

\* What setup found is what it left, and what there is where it is not.
LEMMA FoundKept ==
  ASSUME UNCHANGED <<plist, owned, marker, setup, saved>>
  PROVE  UNCHANGED <<PlistFound, OwnedFound, MarkerFound>>
BY DEF PlistFound, OwnedFound, MarkerFound

LEMMA FoundIdle ==
  ASSUME setup = "idle"
  PROVE  PlistFound = plist /\ OwnedFound = owned /\ MarkerFound = marker
BY DEF PlistFound, OwnedFound, MarkerFound

\* Setup is nowhere while a launcher holds the locks.
LEMMA FoundUnder ==
  ASSUME Service!ServiceAssumption, ServiceInv, NEW c \in Procs,
         launch[c].pc \in InLocks, setup' = setup
  PROVE  /\ setup = "idle"
         /\ PlistFound = plist /\ OwnedFound = owned /\ MarkerFound = marker
         /\ PlistFound' = plist' /\ OwnedFound' = owned'
         /\ MarkerFound' = marker'
<1>1. setup = "idle"
  BY DEF ServiceInv, Locks, Service!ServiceAssumption
<1> QED
  BY <1>1 DEF PlistFound, OwnedFound, MarkerFound

\* A launcher leaves setup alone.
LEMMA SetupAlone ==
  ASSUME NEW c \in Procs, Service!Step(c)
  PROVE  setup' = setup /\ saved' = saved
BY DEF Service!Step, Service!Launch, Service!Look, Service!Approve,
   Service!LockRepair, Service!LockState, Service!Decide, Service!Claim,
   Service!Start, Service!Unload, Service!Load, Service!Wait,
   Service!Clear, Service!RestartBridge, Service!LoadBridge,
   Service!TakeOver, Service!NotConverged, Service!Stop, Service!World,
   Service!Files

\* Upgrades, crashes, launchd, a login and the end of a session.
LEMMA AroundPaid ==
  ASSUME Service!ServiceAssumption, ConvergeInv,
         Service!Install \/ Service!UpgradeCli \/ Service!Crash
           \/ Service!KeepAlive \/ Service!Login
           \/ \E c \in Procs : Service!Close(c)
  PROVE  Ordered' /\ \A c \in Procs : Sure(c)' /\ Paid(c)'
<1>0. ServiceTypes /\ Locks /\ Marked /\ Ordered
  BY DEF ConvergeInv, ServiceInv
<1>1. UNCHANGED <<plist, owned, marker, setup, saved>>
  BY DEF Service!Install, Service!UpgradeCli, Service!Crash,
     Service!KeepAlive, Service!Login, Service!Close, Service!Files
<1>2. installed' >= installed /\ installed \in Nat /\ installed' \in Nat
  BY <1>0 DEF Service!Install, Service!UpgradeCli, Service!Crash,
     Service!KeepAlive, Service!Login, Service!Close, Service!Packages,
     ServiceTypes, Service!ServiceAssumption
<1>3. plist \in Nat /\ owned \in Nat /\ marker \in Nat
      /\ saved.owned \in Nat /\ saved.marker \in Nat
      /\ \A c \in Procs : launch[c].rel \in Nat
  BY <1>0 DEF ServiceTypes, LauncherStates, Service!ServiceAssumption
<1>4. ASSUME NEW c \in Procs PROVE Spared(c) \/ Hit(c)
  BY <1>0, Disturbing DEF Service!Install, Service!UpgradeCli, Service!Crash,
     Service!KeepAlive, Service!Login, Service!Close, Spared, Stays
<1>5. \A c \in Procs : Stays(c)
  BY <1>4 DEF Spared, Hit
<1>6. Ordered'
  BY <1>0, <1>1, <1>2, <1>3 DEF Ordered
<1>9. UNCHANGED <<PlistFound, OwnedFound, MarkerFound>>
  BY <1>1, FoundKept
<1>7. CASE Service!Login
  <2>1. \A c \in Procs : launch[c].pc = "idle" /\ launch'[c].pc = "idle"
    BY <1>5, <1>7 DEF Service!Login, Stays
  <2> SUFFICES ASSUME NEW c \in Procs PROVE Sure(c)' /\ Paid(c)'
    BY <1>6
  <2>2. Engaged(c)' <=> Engaged(c)
    BY <1>5 DEF Stays, Engaged
  <2>3. (Live(c)' <=> Live(c)) /\ (Passed(c)' <=> Passed(c))
    BY <1>5, <1>9 DEF Stays, Live, Passed
  <2> QED
    BY <2>1, <2>2, <2>3 DEF Sure, Paid, InLocks, Bridging, ConvergeInv
<1>8. CASE ~Service!Login
  <2> SUFFICES ASSUME NEW c \in Procs PROVE Sure(c)' /\ Paid(c)'
    BY <1>6
  <2>0. Sure(c) /\ Paid(c)
    BY DEF ConvergeInv
  <2>1. /\ Live(c)' <=> Live(c)
        /\ Passed(c)' <=> Passed(c)
        /\ Engaged(c)' <=> Engaged(c)
    BY <1>5, <1>9 DEF Stays, Live, Passed, Engaged
  <2>2. app'.loaded = app.loaded /\ (~app.loaded => ~app'.alive)
        /\ (Cold => Poor)
    <3>1. CASE app' = [app EXCEPT !.alive = FALSE]
      BY <1>0, <3>1 DEF ServiceTypes, Apps, Cold, Poor
    <3>2. CASE app.loaded /\ app' = [app EXCEPT !.alive = TRUE, !.cli = cli]
      <4>1. app'.loaded = app.loaded
        BY <1>0, <3>2 DEF ServiceTypes, Apps
      <4> QED
        BY <3>2, <4>1 DEF Cold, Poor
    <3>3. CASE UNCHANGED app
      BY <1>0, <3>3 DEF Marked, Cold, Poor
    <3>4. \/ UNCHANGED app \/ app' = [app EXCEPT !.alive = FALSE]
          \/ app.loaded /\ app' = [app EXCEPT !.alive = TRUE, !.cli = cli]
      <4>1. Service!Install \/ Service!UpgradeCli
              \/ (\E d \in Procs : Service!Close(d)) => UNCHANGED app
        BY DEF Service!Install, Service!UpgradeCli, Service!Close
      <4>2. Service!Crash =>
              UNCHANGED app \/ app' = [app EXCEPT !.alive = FALSE]
        BY DEF Service!Crash
      <4>3. Service!KeepAlive =>
              \/ UNCHANGED app
              \/ app.loaded /\ app' = [app EXCEPT !.alive = TRUE, !.cli = cli]
        BY DEF Service!KeepAlive
      <4> QED
        BY <1>8, <4>1, <4>2, <4>3
    <3> QED
      BY <3>1, <3>2, <3>3, <3>4
  <2>3. Cold' <=> Cold
    BY <1>0, <2>2 DEF Cold, Marked
  <2>4. Sure(c)'
    <3>1. launch'[c].pc = launch[c].pc /\ launch'[c].tries = launch[c].tries
      BY <1>5 DEF Stays
    <3>2. launch'[c].pc # "idle" => launch'[c].rel <= installed'
      <4>1. launch[c].pc # "idle" => launch[c].rel <= installed
        BY <2>0 DEF Sure
      <4>2. launch'[c].rel = launch[c].rel
        BY <1>5 DEF Stays
      <4>3. launch[c].rel \in Nat
        BY <1>3
      <4> QED
        BY <1>2, <3>1, <4>1, <4>2, <4>3
    <3> QED
      BY <1>1, <2>0, <2>1, <2>2, <2>3, <3>1, <3>2 DEF Sure, Service!Attempts
  <2>5. /\ Others(c, Reloading)' <=> Others(c, Reloading)
        /\ Others(c, Bridging)' <=> Others(c, Bridging)
    BY <1>5, Around DEF Stays
  <2>6. CASE Service!Install \/ Service!UpgradeCli \/ Service!Crash
    <3>1. Hit(c)
      BY <1>0, <2>6, Disturbing DEF Service!Install, Service!UpgradeCli,
         Service!Crash
    <3>2. (Well(c)' <=> Well(c)) \/ (Poor' <=> Poor)
      <4>1. bridge' = bridge => (Well(c)' <=> Well(c))
        BY <1>5 DEF Well, Service!Healthy, Stays
      <4>2. app' = app /\ cli' = cli => (Poor' <=> Poor)
        BY <1>9 DEF Poor
      <4> QED
        BY <2>6, <4>1, <4>2 DEF Service!Install, Service!UpgradeCli,
           Service!Crash, Service!Packages
    <3>3. Cold' => Poor'
      BY DEF Cold, Poor
    <3>4. Left(c)' <= Left(c) + 1
      BY <1>5, <2>1, <2>2, <2>3, <2>5, <3>2, <3>3, LeftRises
    <3> QED
      BY <1>0, <2>0, <2>4, <3>1, <3>4, Affords
  <2>7. CASE Service!KeepAlive \/ \E d \in Procs : Service!Close(d)
    <3>1. Spared(c)
      BY <2>7 DEF Service!KeepAlive, Service!Close, Spared, Stays
    <3>2. (Well(c) => Well(c)') /\ (Poor' => Poor)
      BY <1>0, <1>5, <1>9, <2>7 DEF Service!KeepAlive, Service!Close,
         Service!Packages, Well, Poor, Service!Healthy, Stays, ServiceTypes,
         Apps
    <3>3. Left(c)' <= Left(c)
      BY <1>5, <2>1, <2>2, <2>3, <2>5, <3>2, LeftFalls
    <3> QED
      BY <1>0, <2>0, <2>4, <3>1, <3>3, Affords
  <2> QED
    BY <1>8, <2>6, <2>7
<1> QED
  BY <1>6, <1>7, <1>8

\* The repair's last part is not one of the others.
LEMMA BridgeNames ==
  /\ "look" \notin Bridging /\ "ask" \notin Bridging
  /\ "repair" \notin Bridging /\ "state" \notin Bridging
  /\ "decide" \notin Bridging /\ "claim" \notin Bridging
  /\ "start" \notin Bridging /\ "gave up" \notin Bridging
  /\ "idle" \notin Bridging /\ Reloading \cap Bridging = {}
  /\ Reloading \cup Bridging \subseteq InLocks
  /\ Committed \cap (Reloading \cup Bridging) = {}
BY DEF Bridging, Reloading, InLocks, Committed

LEMMA OutsideNames ==
  ASSUME NEW p \in {"look", "ask", "gave up", "repair", "state", "decide"}
  PROVE  /\ p \notin Reloading /\ p \notin Bridging /\ p # "start"
         /\ p # "claim" /\ p # "idle"
         /\ p \in Committed <=> p \in {"repair", "state", "decide"}
BY DEF Reloading, Bridging, Committed

\* The steps of setup.  What it changes, it changes for a release later than
\* that of any launcher that has seen the services set up.
LEMMA SetupPaid ==
  ASSUME Service!ServiceAssumption, ConvergeInv,
         Service!SetupBegin \/ Service!SetupStep \/ Service!SetupFails
           \/ Service!SetupBack \/ Service!SetupKilled
  PROVE  Ordered' /\ \A c \in Procs : Sure(c)' /\ Paid(c)'
<1>0. ServiceTypes /\ Locks /\ Marked /\ Ordered
  BY DEF ConvergeInv, ServiceInv
<1>1. UNCHANGED <<installed, cli, app, bridge>>
  BY DEF Service!SetupBegin, Service!SetupStep, Service!SetupFails,
     Service!SetupBack, Service!SetupKilled, Service!SetupOnly,
     Service!Packages
<1>2. /\ plist \in Nat /\ owned \in Nat /\ marker \in Nat
      /\ saved.owned \in Nat /\ saved.marker \in Nat
      /\ installed \in Nat /\ installed # 0
      /\ \A c \in Procs : launch[c].rel \in Nat
  BY <1>0 DEF ServiceTypes, LauncherStates, Service!ServiceAssumption
<1>3. ASSUME NEW c \in Procs PROVE Stays(c) /\ (Spared(c) \/ Hit(c))
  BY <1>0, Disturbing DEF Service!SetupBegin, Service!SetupStep,
     Service!SetupFails, Service!SetupBack, Service!SetupKilled,
     Service!SetupOnly, Spared, Hit, Stays
<1>4. /\ (Cold' <=> Cold) /\ (Cold => Poor) /\ (Cold' => Poor')
      /\ \A c \in Procs : Engaged(c)' <=> Engaged(c)
      /\ \A c \in Procs : Well(c)' <=> Well(c)
  BY <1>1, <1>3 DEF Cold, Poor, Engaged, Stays, Well, Service!Healthy
<1>5. \A c \in Procs : launch[c].pc \notin InLocks
  BY <1>0 DEF Service!SetupBegin, Service!SetupStep, Service!SetupFails,
     Service!SetupBack, Service!SetupKilled, Locks, Service!ServiceAssumption
<1>6. \/ /\ setup = "idle" /\ setup' = "marker" /\ Service!SetupBegin
      \/ /\ setup # "idle" /\ setup' # "idle" /\ saved' = saved
      \/ setup # "idle" /\ setup' = "idle"
  BY DEF Service!SetupBegin, Service!SetupStep, Service!SetupFails,
     Service!SetupBack, Service!SetupKilled, Service!SetupOver,
     Service!SetupGoes
\* Wherever setup was, its files are now as it found them or later ones.
<1> DEFINE Later == /\ plist' >= saved.owned /\ owned' >= saved.owned
                    /\ marker' = saved.marker \/ marker' > saved.owned
                    /\ plist' <= installed /\ owned' <= installed
                    /\ marker' <= installed
                    /\ setup' = "plist" => marker' > saved.owned
<1>7. setup # "idle" => Later
  <2> SUFFICES ASSUME setup # "idle" PROVE Later
    OBVIOUS
  <2>1. /\ saved.owned < installed /\ saved.marker \in {0, saved.owned}
        /\ plist >= saved.owned /\ owned >= saved.owned
        /\ marker = saved.marker \/ marker > saved.owned
        /\ plist <= installed /\ owned <= installed /\ marker <= installed
        /\ setup = "plist" => marker > saved.owned
    BY <1>0 DEF Ordered
  <2>2. CASE Service!SetupStep
    <3>1. /\ setup = "marker" =>
               marker' = installed /\ UNCHANGED <<plist, owned>>
          /\ setup = "plist" =>
               /\ plist' = marker /\ UNCHANGED <<marker, owned>>
               /\ setup' # "plist"
          /\ setup = "manifest" =>
               /\ owned' = plist /\ UNCHANGED <<marker, plist>>
               /\ setup' # "plist"
          /\ setup = "written" =>
               UNCHANGED <<marker, plist, owned>> /\ setup' # "plist"
          /\ setup \in {"marker", "plist", "manifest", "written"}
      BY <2>2 DEF Service!SetupStep, Service!SetupGoes, Service!SetupOver
    <3>2. CASE setup = "marker"
      BY <1>2, <2>1, <3>1, <3>2
    <3>3. CASE setup = "plist"
      BY <1>2, <2>1, <3>1, <3>3
    <3>4. CASE setup = "manifest"
      BY <1>2, <2>1, <3>1, <3>4
    <3>5. CASE setup = "written"
      BY <1>2, <2>1, <3>1, <3>5
    <3> QED
      BY <3>1, <3>2, <3>3, <3>4, <3>5
  <2>3. CASE Service!SetupFails \/ Service!SetupKilled
    <3>1. UNCHANGED <<plist, owned, marker>> /\ setup' # "plist"
      BY <2>3 DEF Service!SetupFails, Service!SetupKilled, Service!SetupGoes,
         Service!SetupOver
    <3> QED
      BY <2>1, <3>1
  <2>4. CASE Service!SetupBack
    <3>1. /\ plist' \in {plist, saved.owned} /\ owned' \in {owned, saved.owned}
          /\ marker' \in {marker, saved.marker} /\ setup' # "plist"
      BY <2>4 DEF Service!SetupBack, Service!SetupGoes, Service!SetupOver
    <3> QED
      BY <1>2, <2>1, <3>1
  <2> QED
    BY <2>2, <2>3, <2>4 DEF Service!SetupBegin
<1>8. Service!SetupBegin =>
        /\ plist = owned /\ owned # installed /\ marker \in {0, owned}
        /\ saved'.owned = owned /\ saved'.marker = marker
        /\ UNCHANGED <<plist, owned, marker>>
        /\ setup = "idle" /\ setup' = "marker"
  BY DEF Service!SetupBegin
<1>9. Ordered'
  <2>1. CASE Service!SetupBegin
    <3>1. /\ plist = owned /\ owned # installed /\ marker \in {0, owned}
          /\ saved'.owned = owned /\ saved'.marker = marker
          /\ UNCHANGED <<plist, owned, marker, installed>>
          /\ setup' # "plist"
      BY <1>1, <1>8, <2>1
    <3>2. plist <= installed /\ owned <= installed /\ marker <= installed
      BY <1>0 DEF Ordered
    <3>3. owned < installed /\ plist >= owned /\ owned >= owned
      BY <1>2, <3>1, <3>2
    <3> QED
      BY <3>1, <3>2, <3>3 DEF Ordered
  <2>2. CASE setup # "idle" /\ setup' # "idle" /\ saved' = saved
    BY <1>0, <1>1, <1>7, <2>2 DEF Ordered
  <2>3. CASE setup # "idle" /\ setup' = "idle"
    BY <1>1, <1>7, <2>3 DEF Ordered
  <2> QED
    BY <1>6, <2>1, <2>2, <2>3
<1> SUFFICES ASSUME NEW c \in Procs PROVE Sure(c)' /\ Paid(c)'
  BY <1>9
<1>10. Sure(c) /\ Paid(c)
  BY DEF ConvergeInv
<1>11. launch'[c].rel = launch[c].rel /\ launch'[c].pc = launch[c].pc
  BY <1>3 DEF Stays
<1>12. CASE UNCHANGED <<PlistFound, OwnedFound, MarkerFound>>
  <2>1. /\ Live(c)' <=> Live(c)
        /\ Passed(c)' <=> Passed(c)
        /\ Poor' <=> Poor
    BY <1>1, <1>11, <1>12 DEF Live, Passed, Poor
  <2>2. Sure(c)'
    <3>1. launch'[c].pc \notin Bridging \cup {"bridge", "start"}
      BY <1>5, <1>11, BridgeNames DEF InLocks
    <3> QED
      BY <1>1, <1>3, <1>4, <1>5, <1>10, <1>11, <2>1, <3>1
         DEF Sure, Stays, Service!Attempts
  <2>3. /\ Others(c, Reloading)' <=> Others(c, Reloading)
        /\ Others(c, Bridging)' <=> Others(c, Bridging)
    BY <1>3, Around DEF Stays
  <2>4. Left(c)' <= Left(c)
    BY <1>3, <1>4, <2>1, <2>3, LeftFalls
  <2>5. Left(c)' <= Left(c) + 1
    BY <2>4, LeftRange, LeftRangeNext
  <2> QED
    BY <1>0, <1>3, <1>10, <2>2, <2>4, <2>5, Affords
<1>13. CASE /\ setup # "idle" /\ setup' = "idle"
            /\ ~UNCHANGED <<PlistFound, OwnedFound, MarkerFound>>
  <2>1. /\ PlistFound = saved.owned /\ OwnedFound = saved.owned
        /\ MarkerFound = saved.marker
        /\ PlistFound' = plist' /\ OwnedFound' = owned'
        /\ MarkerFound' = marker'
    BY <1>13 DEF PlistFound, OwnedFound, MarkerFound
  <2>2. CASE Engaged(c)
    <3>1. Live(c) \/ Passed(c)
      BY <1>10, <2>2 DEF Sure
    <3>2. saved.marker \in {0, saved.owned}
      BY <1>0, <1>13 DEF Ordered
    <3>3. plist' \in Nat /\ owned' \in Nat /\ marker' \in Nat
      <4>1. ServiceTypes'
        BY SetupInv DEF ConvergeInv, ServiceInv
      <4> QED
        BY <4>1 DEF ServiceTypes, Service!ServiceAssumption
    <3>4. /\ saved.owned >= launch[c].rel
          /\ Passed(c) => saved.owned > launch[c].rel
      BY <1>2, <2>1, <3>1, <3>2 DEF Live, Passed
    <3>5. Passed(c)'
      <4>1. /\ plist' >= saved.owned /\ owned' >= saved.owned
            /\ marker' = saved.marker \/ marker' > saved.owned
        BY <1>7, <1>13
      <4>2. plist' # saved.owned \/ owned' # saved.owned
              \/ marker' # saved.marker
        BY <1>13, <2>1
      <4>3. \/ plist' > saved.owned \/ owned' > saved.owned
            \/ marker' > saved.owned
        BY <1>2, <3>3, <4>1, <4>2
      <4>4. \/ plist' > launch[c].rel \/ owned' > launch[c].rel
            \/ marker' > launch[c].rel
        BY <1>2, <3>3, <3>4, <4>3
      <4> QED
        BY <1>11, <2>1, <4>4 DEF Passed
    <3>6. ~Live(c)'
      <4>1. launch'[c].rel \in Nat
        BY <1>2, <1>11
      <4> QED
        BY <2>1, <3>3, <3>5, <4>1 DEF Live, Passed
    <3>7. Sure(c)'
      <4>1. launch'[c].pc \notin Bridging \cup {"bridge", "start"}
        BY <1>5, <1>11, BridgeNames DEF InLocks
      <4> QED
        BY <1>1, <1>3, <1>5, <1>10, <1>11, <3>5, <4>1
           DEF Sure, Stays, Service!Attempts
    <3>8. Left(c)' <= Left(c)
      <4>1. Left(c)' = IF launch[c].approved THEN 0 ELSE 1
        BY <1>3, <1>5, <3>6, LeftRangeNext DEF Stays
      <4> QED
        BY <4>1, LeftRange
    <3>9. Left(c)' <= Left(c) + 1
      BY <3>8, LeftRange, LeftRangeNext
    <3> QED
      BY <1>0, <1>3, <1>10, <3>7, <3>8, <3>9, Affords
  <2>3. CASE ~Engaged(c)
    <3>1. /\ launch[c].pc \in {"idle", "look"} /\ launch[c].tries = 0
          /\ ~launch[c].approved
      BY <2>3 DEF Engaged
    <3>2. Sure(c)'
      BY <1>1, <1>4, <1>10, <1>11, <2>3, <3>1
         DEF Sure, InLocks, Bridging
    <3>3. Paid(c)'
      <4>1. /\ launch'[c].tries = 0 /\ ~launch'[c].approved
            /\ launch'[c].pc \in {"idle", "look"}
        BY <1>3, <3>1 DEF Stays
      <4>2. launch'[c].pc = "look" => Left(c)' \in 0..4 /\ Left(c)' <= 3
        BY <4>1, LeftRangeNext
      <4>3. launch'[c].jolts \in 0..3 \/ launch'[c].pc = "idle"
        BY <1>0, <1>3, <3>1 DEF ServiceTypes, LauncherStates, Spared, Hit, Stays
      <4> QED
        BY <4>1, <4>2, <4>3 DEF Paid
    <3> QED
      BY <3>2, <3>3
  <2> QED
    BY <2>2, <2>3
<1>14. \/ UNCHANGED <<PlistFound, OwnedFound, MarkerFound>>
       \/ setup # "idle" /\ setup' = "idle"
  <2>1. CASE Service!SetupBegin
    BY <1>6, <1>8, <2>1 DEF Service!SetupBegin, PlistFound, OwnedFound,
       MarkerFound
  <2>2. CASE setup # "idle" /\ setup' # "idle" /\ saved' = saved
    BY <2>2 DEF PlistFound, OwnedFound, MarkerFound
  <2> QED
    BY <1>6, <2>1, <2>2
<1> QED
  BY <1>12, <1>13, <1>14

\* What a launcher that goes on has seen, and what the services then need.
LEMMA Seen ==
  ASSUME Service!ServiceAssumption, ServiceInv, NEW c \in Procs,
         launch[c].rel # 0, setup = "idle",
         Service!Inspect(launch[c].rel) \notin Service!Final
  PROVE  /\ Live(c)
         /\ Service!Inspect(launch[c].rel) = "cold" <=> Cold
         /\ Service!Inspect(launch[c].rel) = "reload_required_idle"
              <=> ~Cold /\ Poor
         /\ Service!Inspect(launch[c].rel) = "bridge_down"
              <=> ~Poor /\ ~Well(c)
         /\ Service!Inspect(launch[c].rel) = "ready" <=> ~Poor /\ Well(c)
<1> DEFINE r == launch[c].rel
<1>1. ~Service!Unsafe(r) /\ Service!PlistState(r) = "current"
  BY DEF Service!Inspect, Service!Final
<1>2. Live(c)
  BY <1>1, FoundIdle DEF Service!Unsafe, Service!PlistState, Live
<1>3. Service!Inspect(r) =
        IF ~app.alive THEN IF app.loaded THEN Service!Reload ELSE "cold"
        ELSE IF app.cli # cli \/ marker # 0 THEN Service!Reload
        ELSE IF ~Service!Healthy(r) THEN "bridge_down" ELSE "ready"
  BY <1>1 DEF Service!Inspect
<1>4. Service!Reload \in {"reload_required_idle", "reload_deferred_busy"}
  BY DEF Service!Reload
<1>5. Service!Inspect(r) # "reload_deferred_busy"
  BY DEF Service!Final
<1>6. app.alive => app.loaded
  BY DEF ServiceInv, Marked
<1> QED
  BY <1>2, <1>3, <1>4, <1>5, <1>6, FoundIdle DEF Cold, Poor, Well

\* What a step does to the launchers.
LEMMA Went ==
  ASSUME ServiceTypes, NEW c \in Procs, NEW pc, Service!Goto(c, pc)
  PROVE  /\ launch'[c].pc = pc /\ launch'[c].rel = launch[c].rel
         /\ launch'[c].approved = launch[c].approved
         /\ launch'[c].tries = launch[c].tries
         /\ launch'[c].jolts = launch[c].jolts
         /\ \A d \in Procs \ {c} : launch'[d] = launch[d]
<1>1. launch' = [launch EXCEPT ![c] = [launch[c] EXCEPT !.pc = pc]]
  BY DEF Service!Goto
<1> QED
  BY <1>1 DEF ServiceTypes, LauncherStates

LEMMA Freed ==
  ASSUME ServiceTypes, NEW c \in Procs, Service!Free(c, "look")
  PROVE  /\ launch'[c].pc = "look" /\ launch'[c].rel = launch[c].rel
         /\ launch'[c].approved = launch[c].approved
         /\ launch'[c].tries = launch[c].tries + 1
         /\ launch'[c].jolts = launch[c].jolts
         /\ \A d \in Procs \ {c} : launch'[d] = launch[d]
<1>1. launch' = [launch EXCEPT ![c] =
                   [launch[c] EXCEPT !.pc = "look", !.tries = @ + 1]]
  BY DEF Service!Free
<1> QED
  BY <1>1 DEF ServiceTypes, LauncherStates

LEMMA LaunchEnds ==
  ASSUME ServiceTypes, NEW c \in Procs, Service!End(c)
  PROVE  /\ launch'[c] = Service!Idle
         /\ \A d \in Procs \ {c} : launch'[d] = Service!Jolted(launch[d])
<1>1. launch' = [d \in Procs |-> IF d = c THEN Service!Idle
                                 ELSE Service!Jolted(launch[d])]
  BY DEF Service!End
<1> QED
  BY <1>1, Zenon

\* What is used and needed by the launcher that moves does not grow.
LEMMA AffordsOwn ==
  ASSUME ServiceTypes, NEW c \in Procs, Paid(c), launch[c].pc # "idle",
         launch'[c].jolts = launch[c].jolts, launch'[c].tries \in Nat,
         launch'[c].tries + Left(c)' <= launch[c].tries + Left(c)
  PROVE  Paid(c)'
<1>1. launch[c].tries \in Nat /\ launch[c].jolts \in 0..3
  BY DEF ServiceTypes, LauncherStates
<1>2. Left(c) \in 0..4 /\ Left(c)' \in 0..4
  BY LeftRange, LeftRangeNext
<1> QED
  BY <1>1, <1>2 DEF Paid

\* Under its locks a launcher is alone.
LEMMA Alone ==
  ASSUME ServiceInv, NEW c \in Procs, \/ launch[c].pc \in InLocks
                                      \/ state = none /\ none \notin Procs
  PROVE  ~Others(c, Reloading) /\ ~Others(c, Bridging)
<1>1. \A d \in Procs \ {c} : launch[d].pc \notin InLocks
  BY DEF ServiceInv, Locks
<1> QED
  BY <1>1, BridgeNames DEF Others

LEMMA OthersStay ==
  ASSUME NEW c \in Procs, \A d \in Procs \ {c} : launch'[d].pc = launch[d].pc
  PROVE  /\ Others(c, Reloading)' <=> Others(c, Reloading)
         /\ Others(c, Bridging)' <=> Others(c, Bridging)
BY DEF Others

\* Nothing around the launchers changes, and one goes from one place to the
\* next.
LEMMA Unchanging ==
  ASSUME NEW c \in Procs, launch'[c].rel = launch[c].rel,
         plist' = plist, owned' = owned, marker' = marker, setup' = setup,
         saved' = saved, app' = app, bridge' = bridge, cli' = cli
  PROVE  /\ Live(c)' <=> Live(c)
         /\ Well(c)' <=> Well(c)
         /\ Cold' <=> Cold
         /\ Poor' <=> Poor
         /\ Passed(c)' <=> Passed(c)
<1>1. (Live(c)' <=> Live(c)) /\ (Passed(c)' <=> Passed(c))
  BY FoundKept DEF Live, Passed
<1>2. Well(c)' <=> Well(c)
  BY DEF Well, Service!Healthy
<1>3. (Cold' <=> Cold) /\ (Poor' <=> Poor)
  BY FoundKept DEF Cold, Poor
<1> QED
  BY <1>1, <1>2, <1>3

\* Outside the locks only the release of the services, their state and the
\* others count.
LEMMA LeftKept ==
  ASSUME NEW c \in Procs,
         launch'[c].approved <=> launch[c].approved,
         launch[c].pc \notin Reloading, launch[c].pc \notin Bridging,
         launch[c].pc # "start", launch[c].pc # "claim",
         launch'[c].pc \notin Reloading, launch'[c].pc \notin Bridging,
         launch'[c].pc # "start", launch'[c].pc # "claim",
         launch'[c].pc \in Committed <=> launch[c].pc \in Committed,
         Live(c)' <=> Live(c), Well(c)' <=> Well(c),
         Cold' <=> Cold, Poor' <=> Poor,
         Others(c, Reloading)' <=> Others(c, Reloading),
         Others(c, Bridging)' <=> Others(c, Bridging)
  PROVE  Left(c)' <= Left(c)
<1>1. InReserve(c)' <= InReserve(c)
  BY DEF InReserve
<1>2. Consented(c)' <= Consented(c)
  BY DEF Consented
<1> QED
  BY <1>1, <1>2 DEF Left

\* The launcher's own steps outside the locks.
LEMMA OwnOutside ==
  ASSUME Service!ServiceAssumption, ConvergeInv, NEW c \in Procs,
         Service!Launch(c) \/ Service!Look(c) \/ Service!Approve(c)
           \/ Service!LockRepair(c) \/ Service!LockState(c)
           \/ Service!NotConverged(c)
  PROVE  Sure(c)' /\ Paid(c)'
<1>0. /\ ServiceInv /\ ServiceTypes /\ Locks /\ Sure(c) /\ Paid(c)
      /\ launch[c] \in LauncherStates
  BY DEF ConvergeInv, ServiceInv, ServiceTypes
<1>1. /\ installed' = installed /\ cli' = cli /\ plist' = plist
      /\ owned' = owned /\ marker' = marker /\ app' = app /\ bridge' = bridge
      /\ setup' = setup /\ saved' = saved
  BY DEF Service!Launch, Service!Look, Service!Approve, Service!LockRepair,
     Service!LockState, Service!NotConverged, Service!World,
     Service!Packages, Service!Files
<1>2. CASE Service!Launch(c)
  <2>1. /\ launch'[c].pc = "look" /\ launch'[c].tries = 0
        /\ launch'[c].jolts = 0 /\ ~launch'[c].approved
        /\ launch'[c].rel = installed
    <3>1. launch' = [launch EXCEPT ![c] =
                       [Service!Idle EXCEPT !.pc = "look", !.rel = installed]]
      BY <1>2 DEF Service!Launch
    <3>2. /\ Service!Idle \in LauncherStates /\ Service!Idle.tries = 0
          /\ Service!Idle.jolts = 0 /\ ~Service!Idle.approved
      BY DEF Service!Idle, LauncherStates, OffLocks, Service!ServiceAssumption
    <3>3. launch'[c] = [Service!Idle EXCEPT !.pc = "look", !.rel = installed]
      BY <1>0, <3>1 DEF ServiceTypes
    <3> QED
      BY <3>2, <3>3 DEF LauncherStates
  <2>2. Left(c)' \in 0..4 /\ Left(c)' <= 3
    BY <2>1, LeftRangeNext
  <2>3. Paid(c)'
    BY <2>1, <2>2 DEF Paid
  <2>4. ~Engaged(c)'
    BY <2>1 DEF Engaged
  <2>5. installed \in Nat
    BY <1>0 DEF ServiceTypes, Service!ServiceAssumption
  <2> QED
    <3>1. launch'[c].pc \notin InLocks
      BY <2>1 DEF InLocks
    <3>2. launch'[c].pc \notin Bridging
      BY <2>1, BridgeNames
    <3>3. launch'[c].rel <= installed'
      BY <1>1, <2>1, <2>5
    <3> QED
      BY <2>1, <2>3, <2>4, <3>1, <3>2, <3>3 DEF Sure
<1>3. CASE Service!Look(c)
  <2>1. /\ launch[c].pc = "look" /\ launch[c].rel # 0 /\ state = none
        /\ setup = "idle"
        /\ Service!Inspect(launch[c].rel) \notin Service!Final
    BY <1>0, <1>3 DEF Service!Look, Service!At, ServiceInv, Relies, Locks,
       Service!ServiceAssumption
  <2> DEFINE s == Service!Inspect(launch[c].rel)
             pc == IF s = "reload_required_idle" /\ ~launch[c].approved
                   THEN "ask" ELSE "repair"
  <2>2. Service!Goto(c, pc)
    BY <1>3 DEF Service!Look
  <2>3. /\ Live(c)
        /\ s = "reload_required_idle" <=> ~Cold /\ Poor
    BY <1>0, <2>1, Seen
  <2>4. /\ pc \in {"ask", "repair"}
        /\ pc = "repair" /\ ~launch[c].approved => Cold \/ ~Poor
    BY <2>3
  <2> HIDE DEF s, pc
  <2>5. /\ launch'[c].pc = pc /\ launch'[c].rel = launch[c].rel
        /\ launch'[c].approved = launch[c].approved
        /\ launch'[c].tries = launch[c].tries
        /\ launch'[c].jolts = launch[c].jolts
        /\ \A d \in Procs \ {c} : launch'[d] = launch[d]
    BY <1>0, <2>2, Went
  <2>6. /\ Live(c)' <=> Live(c)
        /\ Well(c)' <=> Well(c)
        /\ Cold' <=> Cold
        /\ Poor' <=> Poor
    BY <1>1, <2>5, Unchanging
  <2>7. ~Others(c, Reloading) /\ ~Others(c, Bridging)
    BY <1>0, <2>1, Alone DEF Service!ServiceAssumption
  <2>8. ~Others(c, Reloading)' /\ ~Others(c, Bridging)'
    BY <2>5, <2>7, OthersStay
  <2>9. Left(c)' <= Left(c)
    <3>1. /\ pc \notin Reloading /\ pc \notin Bridging /\ pc # "start"
          /\ pc # "claim" /\ (pc \in Committed <=> pc = "repair")
          /\ "look" \notin Reloading /\ "look" \notin Bridging
          /\ "look" \notin Committed
      BY <2>4, OutsideNames
    <3>2. CASE launch[c].approved
      BY <2>1, <2>3, <2>5, <2>6, <2>7, <2>8, <3>1, <3>2 DEF Left, Consented
    <3>3. CASE ~launch[c].approved
      BY <2>1, <2>3, <2>4, <2>5, <2>6, <2>7, <2>8, <3>1, <3>3
         DEF Left, InReserve
    <3> QED
      BY <3>2, <3>3
  <2>10. Paid(c)'
    BY <1>0, <2>1, <2>5, <2>9, AffordsOwn, LeftRange, LeftRangeNext
       DEF LauncherStates
  <2>11. launch[c].rel <= installed
    BY <1>0, <2>1 DEF Sure
  <2> QED
    BY <1>1, <2>3, <2>4, <2>5, <2>6, <2>10, <2>11, BridgeNames
       DEF Sure, InLocks
<1>4. CASE Service!Approve(c)
  <2>1. /\ launch[c].pc = "ask"
        /\ launch'[c].pc = "repair" /\ launch'[c].rel = launch[c].rel
        /\ launch'[c].approved
        /\ launch'[c].tries = launch[c].tries
        /\ launch'[c].jolts = launch[c].jolts
        /\ \A d \in Procs \ {c} : launch'[d] = launch[d]
    <3>1. launch' = [launch EXCEPT ![c] =
                       [launch[c] EXCEPT !.pc = "repair", !.approved = TRUE]]
      BY <1>4 DEF Service!Approve
    <3> QED
      BY <1>0, <1>4, <3>1 DEF ServiceTypes, LauncherStates, Service!Approve,
         Service!At
  <2>2. /\ Live(c)' <=> Live(c)
        /\ Well(c)' <=> Well(c)
        /\ Cold' <=> Cold
        /\ Poor' <=> Poor
        /\ Passed(c)' <=> Passed(c)
    BY <1>1, <2>1, Unchanging
  <2>3. /\ Others(c, Reloading)' <=> Others(c, Reloading)
        /\ Others(c, Bridging)' <=> Others(c, Bridging)
    BY <2>1, OthersStay
  <2>4. Left(c)' <= Left(c)
    <3>1. /\ "ask" \notin Reloading /\ "ask" \notin Bridging
          /\ "repair" \notin Reloading /\ "repair" \notin Bridging
      BY OutsideNames
    <3>2. CASE launch[c].approved
      BY <2>1, <2>2, <2>3, <3>1, <3>2 DEF Left, Consented
    <3>3. CASE ~launch[c].approved
      BY <2>1, <2>2, <2>3, <3>1, <3>3 DEF Left, InReserve, Consented
    <3> QED
      BY <3>2, <3>3
  <2>5. Paid(c)'
    BY <1>0, <2>1, <2>4, AffordsOwn, LeftRange, LeftRangeNext
       DEF LauncherStates
  <2>6. (Live(c) \/ Passed(c)) /\ launch[c].rel <= installed
    BY <1>0, <2>1 DEF Sure, Engaged
  <2> QED
    BY <1>1, <2>1, <2>2, <2>5, <2>6, BridgeNames DEF Sure, InLocks
<1>5. CASE Service!LockRepair(c) \/ Service!LockState(c)
           \/ Service!NotConverged(c)
  <2>1. PICK pc : Service!Goto(c, pc) /\ pc \in {"state", "decide", "gave up"}
                /\ (pc = "gave up" => launch[c].pc = "look"
                                     /\ launch[c].tries = Service!Attempts)
                /\ (pc # "gave up" => launch[c].pc \in {"repair", "state"})
    BY <1>5 DEF Service!LockRepair, Service!LockState, Service!NotConverged,
       Service!At
  <2>2. /\ launch'[c].pc = pc /\ launch'[c].rel = launch[c].rel
        /\ launch'[c].approved = launch[c].approved
        /\ launch'[c].tries = launch[c].tries
        /\ launch'[c].jolts = launch[c].jolts
        /\ \A d \in Procs \ {c} : launch'[d] = launch[d]
    BY <1>0, <2>1, Went
  <2>3. /\ Live(c)' <=> Live(c)
        /\ Well(c)' <=> Well(c)
        /\ Cold' <=> Cold
        /\ Poor' <=> Poor
        /\ Passed(c)' <=> Passed(c)
    BY <1>1, <2>2, Unchanging
  <2>4. /\ Others(c, Reloading)' <=> Others(c, Reloading)
        /\ Others(c, Bridging)' <=> Others(c, Bridging)
    BY <2>2, OthersStay
  <2>5. Left(c)' <= Left(c)
    <3>1. /\ launch[c].pc \notin Reloading /\ launch[c].pc \notin Bridging
          /\ launch[c].pc # "start" /\ launch[c].pc # "claim"
          /\ pc \notin Reloading /\ pc \notin Bridging /\ pc # "start"
          /\ pc # "claim"
          /\ pc \in Committed <=> launch[c].pc \in Committed
      BY <2>1, OutsideNames
    <3>4. /\ launch'[c].pc \notin Reloading /\ launch'[c].pc \notin Bridging
          /\ launch'[c].pc # "start" /\ launch'[c].pc # "claim"
          /\ launch'[c].pc \in Committed <=> launch[c].pc \in Committed
          /\ launch'[c].approved <=> launch[c].approved
      BY <2>2, <3>1
    <3> QED
      BY <2>3, <2>4, <3>1, <3>4, LeftKept
  <2>6. Paid(c)'
    <3>1. launch[c].tries \in Nat /\ launch'[c].tries = launch[c].tries
      BY <1>0, <2>2 DEF LauncherStates
    <3>4. Left(c) \in 0..4 /\ Left(c)' \in 0..4
      BY LeftRange, LeftRangeNext
    <3>2. launch'[c].tries + Left(c)' <= launch[c].tries + Left(c)
      BY <2>5, <3>1, <3>4
    <3>3. launch[c].pc # "idle" /\ launch'[c].jolts = launch[c].jolts
      BY <2>1, <2>2
    <3> QED
      BY <1>0, <3>1, <3>2, <3>3, AffordsOwn
  <2>7. (Live(c) \/ Passed(c)) /\ launch[c].rel <= installed
    <3>2. launch[c].pc # "idle"
      BY <2>1
    <3>3. launch[c].pc # "look" \/ launch[c].tries # 0
      <4>1. launch[c].pc \in {"repair", "state"}
              \/ launch[c].tries = Service!Attempts
        BY <2>1, Zenon
      <4>2. Service!Attempts # 0
        BY DEF Service!Attempts
      <4> QED
        BY <4>1, <4>2
    <3>1. Engaged(c) /\ launch[c].pc # "idle"
      BY <3>2, <3>3 DEF Engaged
    <3> QED
      BY <1>0, <3>1 DEF Sure
  <2> QED
    BY <1>1, <2>1, <2>2, <2>3, <2>6, <2>7, BridgeNames DEF Sure, InLocks
<1> QED
  BY <1>2, <1>3, <1>4, <1>5

\* What a launcher needs where it holds the locks, and what it needs where no
\* other is at its repair: now and after a step.
LEMMA LeftUnder ==
  ASSUME NEW c \in Procs
  PROVE  /\ launch[c].pc \in Reloading =>
              Left(c) = IF launch[c].approved THEN 1 ELSE 2
         /\ launch[c].pc \in Bridging =>
              Left(c) = IF launch[c].approved /\ ~Poor THEN 1 ELSE 2
         /\ launch[c].pc = "start" =>
              Left(c) = IF Well(c) THEN IF launch[c].approved THEN 1 ELSE 2
                        ELSE IF launch[c].approved THEN 2 ELSE 3
<1>1. launch[c].pc \in Bridging \/ launch[c].pc = "start" =>
        launch[c].pc \notin Reloading
  BY BridgeNames, OutsideNames DEF Reloading
<1>2. launch[c].pc = "start" => launch[c].pc \notin Bridging
  BY BridgeNames
<1> QED
  BY <1>1, <1>2 DEF Left, InReserve, Consented

LEMMA LeftUnderNext ==
  ASSUME NEW c \in Procs
  PROVE  /\ launch'[c].pc \in Reloading =>
              Left(c)' = IF launch'[c].approved THEN 1 ELSE 2
         /\ launch'[c].pc \in Bridging =>
              Left(c)' = IF launch'[c].approved /\ ~Poor' THEN 1 ELSE 2
         /\ launch'[c].pc = "start" =>
              Left(c)' = IF Well(c)' THEN IF launch'[c].approved THEN 1 ELSE 2
                         ELSE IF launch'[c].approved THEN 2 ELSE 3
         /\ launch'[c].pc = "claim" =>
              Left(c)' = IF launch'[c].approved THEN 0 ELSE 1
<1>1. launch'[c].pc \in Bridging \/ launch'[c].pc \in {"start", "claim"} =>
        launch'[c].pc \notin Reloading
  BY BridgeNames, OutsideNames DEF Reloading
<1>2. launch'[c].pc \in {"start", "claim"} => launch'[c].pc \notin Bridging
  BY BridgeNames
<1> QED
  BY <1>1, <1>2 DEF Left, InReserve, Consented

LEMMA LeftDecided ==
  ASSUME NEW c \in Procs, launch[c].pc = "decide", Live(c),
         ~Others(c, Reloading), ~Others(c, Bridging)
  PROVE  Left(c) = IF launch[c].approved
                   THEN IF Cold THEN IF Well(c) THEN 1 ELSE 2
                        ELSE IF Poor \/ ~Well(c) THEN 1 ELSE 0
                   ELSE IF Cold \/ Poor THEN IF Well(c) THEN 2 ELSE 3
                        ELSE IF Well(c) THEN 1 ELSE 2
BY OutsideNames DEF Left, InReserve, Consented

LEMMA LeftLooking ==
  ASSUME NEW c \in Procs, launch'[c].pc = "look", Live(c)',
         ~Others(c, Reloading)', ~Others(c, Bridging)', ~Cold'
  PROVE  Left(c)' = IF launch'[c].approved
                    THEN IF Poor' \/ ~Well(c)' THEN 1 ELSE 0
                    ELSE IF Well(c)' THEN 1 ELSE 2
<1>1. /\ launch'[c].pc \notin Reloading /\ launch'[c].pc \notin Bridging
      /\ launch'[c].pc # "start" /\ launch'[c].pc # "claim"
      /\ launch'[c].pc \notin Committed
  BY OutsideNames
<1> QED
  BY <1>1 DEF Left, InReserve, Consented

\* What a launcher under its locks has to show of itself.
LEMMA Surely ==
  ASSUME NEW c \in Procs, Live(c)', launch'[c].rel <= installed',
         launch'[c].pc \in Bridging \/ launch'[c].pc \in {"bridge", "start"} =>
           marker' = 0,
         launch'[c].pc \in Bridging => app'.loaded,
         launch'[c].pc = "start" => Cold',
         launch'[c].pc \in Reloading \cup Bridging
                             \cup {"look", "claim", "start"}
  PROVE  Sure(c)'
<1>1. launch'[c].pc # "gave up"
  BY BridgeNames, OutsideNames DEF Reloading
<1> QED
  BY <1>1 DEF Sure

\* The decision under the locks.
LEMMA OwnDecide ==
  ASSUME Service!ServiceAssumption, ConvergeInv, NEW c \in Procs,
         Service!Decide(c)
  PROVE  Sure(c)' /\ Paid(c)'
<1>0. /\ ServiceInv /\ ServiceTypes /\ Locks /\ Sure(c) /\ Paid(c)
      /\ launch[c] \in LauncherStates
  BY DEF ConvergeInv, ServiceInv, ServiceTypes
<1>1. /\ installed' = installed /\ cli' = cli /\ plist' = plist
      /\ owned' = owned /\ marker' = marker /\ app' = app /\ bridge' = bridge
      /\ setup' = setup /\ saved' = saved
  BY DEF Service!Decide, Service!World, Service!Packages, Service!Files
<1> DEFINE s == Service!Inspect(launch[c].rel)
<1>2. /\ launch[c].pc = "decide" /\ launch[c].rel # 0
      /\ s \notin Service!Final /\ setup = "idle"
  BY <1>0 DEF Service!Decide, Service!Locked, Service!At, ServiceInv, Relies,
     Locks, Service!ServiceAssumption
<1>3. /\ Live(c)
      /\ s = "cold" <=> Cold
      /\ s = "reload_required_idle" <=> ~Cold /\ Poor
      /\ s = "bridge_down" <=> ~Poor /\ ~Well(c)
      /\ s = "ready" <=> ~Poor /\ Well(c)
  BY <1>0, <1>2, Seen
<1>4. \/ ~Cold /\ Poor /\ ~launch[c].approved /\ Service!Free(c, "look")
      \/ ~(~Cold /\ Poor /\ ~launch[c].approved)
         /\ Service!Goto(c, CASE s = "ready" -> "claim"
                              [] s = "bridge_down" -> "bridge"
                              [] s = "cold" /\ marker = 0 -> "start"
                              [] OTHER -> "unload")
  BY <1>3 DEF Service!Decide
<1> HIDE DEF s
<1>5. ~Others(c, Reloading) /\ ~Others(c, Bridging)
  BY <1>0, <1>2, Alone DEF InLocks
<1>6. launch[c].rel <= installed
  BY <1>0, <1>2 DEF Sure
<1>7. launch[c].tries \in Nat /\ launch[c].approved \in BOOLEAN
  BY <1>0 DEF LauncherStates
<1>8. Left(c) = IF launch[c].approved
                THEN IF Cold THEN IF Well(c) THEN 1 ELSE 2
                     ELSE IF Poor \/ ~Well(c) THEN 1 ELSE 0
                ELSE IF Cold \/ Poor THEN IF Well(c) THEN 2 ELSE 3
                     ELSE IF Well(c) THEN 1 ELSE 2
  BY <1>2, <1>3, <1>5, LeftDecided
<1>9. CASE ~Cold /\ Poor /\ ~launch[c].approved /\ Service!Free(c, "look")
  <2>1. /\ launch'[c].pc = "look" /\ launch'[c].rel = launch[c].rel
        /\ launch'[c].approved = launch[c].approved
        /\ launch'[c].tries = launch[c].tries + 1
        /\ launch'[c].jolts = launch[c].jolts
        /\ \A d \in Procs \ {c} : launch'[d] = launch[d]
    BY <1>0, <1>9, Freed
  <2>2. /\ Live(c)' <=> Live(c)
        /\ Well(c)' <=> Well(c)
        /\ Cold' <=> Cold
        /\ Poor' <=> Poor
    BY <1>1, <2>1, Unchanging
  <2>3. ~Others(c, Reloading)' /\ ~Others(c, Bridging)'
    BY <1>5, <2>1, OthersStay
  <2>4. Left(c)' = IF launch'[c].approved
                   THEN IF Poor' \/ ~Well(c)' THEN 1 ELSE 0
                   ELSE IF Well(c)' THEN 1 ELSE 2
    BY <1>3, <1>9, <2>1, <2>2, <2>3, LeftLooking
  <2>5. launch'[c].tries + Left(c)' <= launch[c].tries + Left(c)
    BY <1>7, <1>8, <1>9, <2>1, <2>2, <2>4
  <2>6. Paid(c)'
    BY <1>0, <1>2, <1>7, <2>1, <2>5, AffordsOwn
  <2>7. Sure(c)'
    BY <1>1, <1>3, <1>6, <2>1, <2>2, Surely, OutsideNames
  <2> QED
    BY <2>6, <2>7
<1>10. ASSUME NEW pc, Service!Goto(c, pc),
              pc \in Reloading \cup {"claim", "start"},
              pc \in {"bridge", "start"} => marker = 0,
              pc = "start" => Cold,
              pc \in Reloading =>
                Left(c) >= 1 /\ (launch[c].approved \/ Left(c) >= 2),
              pc = "start" =>
                Left(c) >= IF Well(c)
                           THEN IF launch[c].approved THEN 1 ELSE 2
                           ELSE IF launch[c].approved THEN 2 ELSE 3,
              pc = "claim" => Left(c) = IF launch[c].approved THEN 0 ELSE 1
       PROVE  Sure(c)' /\ Paid(c)'
  <2>1. /\ launch'[c].pc = pc /\ launch'[c].rel = launch[c].rel
        /\ launch'[c].approved = launch[c].approved
        /\ launch'[c].tries = launch[c].tries
        /\ launch'[c].jolts = launch[c].jolts
    BY <1>0, <1>10, Went
  <2>2. /\ Live(c)' <=> Live(c)
        /\ Well(c)' <=> Well(c)
        /\ Cold' <=> Cold
    BY <1>1, <2>1, Unchanging
  <2>3. pc \notin Bridging
    BY <1>10, BridgeNames
  <2>4. Left(c)' <= Left(c)
    BY <1>7, <1>10, <2>1, <2>2, LeftUnderNext, LeftRange
  <2>5. launch'[c].tries + Left(c)' <= launch[c].tries + Left(c)
    <3>1. Left(c) \in 0..4 /\ Left(c)' \in 0..4
      BY LeftRange, LeftRangeNext
    <3> QED
      BY <1>7, <2>1, <2>4, <3>1
  <2>6. Paid(c)'
    BY <1>0, <1>2, <1>7, <2>1, <2>5, AffordsOwn
  <2>7. Sure(c)'
    BY <1>1, <1>3, <1>6, <1>10, <2>1, <2>2, <2>3, Surely
  <2> QED
    BY <2>6, <2>7
<1>11. CASE /\ ~(~Cold /\ Poor /\ ~launch[c].approved)
            /\ Service!Goto(c, CASE s = "ready" -> "claim"
                              [] s = "bridge_down" -> "bridge"
                              [] s = "cold" /\ marker = 0 -> "start"
                              [] OTHER -> "unload")
  <2>0. Cold => Poor
    BY <1>0 DEF ServiceInv, Marked, Cold, Poor
  <2>1. ~Poor => marker = 0
    BY <1>2, FoundIdle DEF Poor
  <2>2. CASE s = "ready"
    <3>1. Service!Goto(c, "claim") /\ ~Poor /\ ~Cold /\ Well(c)
      BY <1>3, <1>11, <2>0, <2>2
    <3> QED
      BY <1>8, <1>10, <3>1 DEF Reloading
  <2>3. CASE s = "bridge_down"
    <3>1. Service!Goto(c, "bridge") /\ ~Poor /\ ~Cold /\ ~Well(c)
      BY <1>3, <1>11, <2>0, <2>3
    <3> QED
      BY <1>7, <1>8, <1>10, <2>1, <3>1 DEF Reloading
  <2>4. CASE s = "cold" /\ marker = 0
    <3>1. Service!Goto(c, "start") /\ Cold
      BY <1>3, <1>11, <2>4
    <3> QED
      BY <1>7, <1>8, <1>10, <2>4, <3>1 DEF Reloading
  <2>5. CASE /\ ~(s = "ready") /\ ~(s = "bridge_down")
             /\ ~(s = "cold" /\ marker = 0)
    <3>1. Service!Goto(c, "unload") /\ Poor
      BY <1>3, <1>11, <2>5, <2>0
    <3> QED
      BY <1>7, <1>8, <1>10, <1>11, <3>1 DEF Reloading
  <2> QED
    BY <2>2, <2>3, <2>4, <2>5
<1> QED
  BY <1>4, <1>9, <1>11

\* A daemon that is started needs no reload, and is the first of the two
\* attempts its launcher had left, or of the three.
LEMMA OwnStart ==
  ASSUME Service!ServiceAssumption, ConvergeInv, NEW c \in Procs,
         Service!Start(c)
  PROVE  Sure(c)' /\ Paid(c)'
<1>0. /\ ServiceInv /\ ServiceTypes /\ Locks /\ Sure(c) /\ Paid(c)
      /\ launch[c] \in LauncherStates
  BY DEF ConvergeInv, ServiceInv, ServiceTypes
<1>1. /\ installed' = installed /\ cli' = cli /\ plist' = plist
      /\ owned' = owned /\ marker' = marker /\ bridge' = bridge
      /\ launch[c].pc = "start" /\ Service!Free(c, "look")
      /\ app' = IF app.alive THEN app
                ELSE [loaded |-> TRUE, alive |-> TRUE, gen |-> plist,
                      cli |-> cli]
  BY DEF Service!Start, Service!Packages, Service!Files, Service!Locked,
     Service!At
<1>2. Live(c) /\ Cold /\ marker = 0 /\ launch[c].rel <= installed
  BY <1>0, <1>1 DEF Sure, InLocks
<1>12. /\ PlistFound' = PlistFound /\ OwnedFound' = OwnedFound
       /\ MarkerFound' = MarkerFound /\ MarkerFound = marker
  <2>1. launch[c].pc \in InLocks /\ setup' = setup
    BY <1>1, SetupAlone DEF InLocks, Service!Step
  <2> QED
    BY <1>0, <1>1, <2>1, FoundUnder
<1>3. ~Cold' /\ ~Poor'
  BY <1>1, <1>2, <1>12 DEF Cold, Poor
<1>4. /\ launch'[c].pc = "look" /\ launch'[c].rel = launch[c].rel
      /\ launch'[c].approved = launch[c].approved
      /\ launch'[c].tries = launch[c].tries + 1
      /\ launch'[c].jolts = launch[c].jolts
      /\ \A d \in Procs \ {c} : launch'[d] = launch[d]
  BY <1>0, <1>1, Freed
<1>5. Live(c)' /\ (Well(c)' <=> Well(c))
  BY <1>1, <1>2, <1>4, <1>12 DEF Live, Well, Service!Healthy
<1>6. ~Others(c, Reloading) /\ ~Others(c, Bridging)
  BY <1>0, <1>1, Alone DEF InLocks
<1>7. ~Others(c, Reloading)' /\ ~Others(c, Bridging)'
  BY <1>4, <1>6, OthersStay
<1>8. launch[c].tries \in Nat /\ launch[c].approved \in BOOLEAN
  BY <1>0 DEF LauncherStates
<1>9. launch'[c].tries + Left(c)' <= launch[c].tries + Left(c)
  BY <1>1, <1>3, <1>4, <1>5, <1>7, <1>8, LeftUnder, LeftLooking
<1>10. Paid(c)'
  BY <1>0, <1>1, <1>4, <1>8, <1>9, AffordsOwn
<1>11. Sure(c)'
  BY <1>1, <1>2, <1>4, <1>5, Surely, OutsideNames
<1> QED
  BY <1>10, <1>11

\* The reload is one attempt, however far it is.
LEMMA OwnReload ==
  ASSUME Service!ServiceAssumption, ConvergeInv, NEW c \in Procs,
         Service!Unload(c) \/ Service!Load(c) \/ Service!Wait(c)
           \/ Service!Clear(c)
  PROVE  Sure(c)' /\ Paid(c)'
<1>0. /\ ServiceInv /\ ServiceTypes /\ Locks /\ Sure(c) /\ Paid(c)
      /\ launch[c] \in LauncherStates
  BY DEF ConvergeInv, ServiceInv, ServiceTypes
<1>1. /\ installed' = installed /\ plist' = plist /\ owned' = owned
      /\ marker' \in {marker, 0}
  BY DEF Service!Unload, Service!Load, Service!Wait, Service!Clear,
     Service!World, Service!Packages, Service!Files
<1>2. /\ launch[c].pc \in Reloading
      /\ \/ Service!Goto(c, "load") \/ Service!Goto(c, "wait")
         \/ Service!Goto(c, "clear")
         \/ Service!Goto(c, "bridge") /\ marker' = 0
  BY DEF Service!Unload, Service!Load, Service!Wait, Service!Clear,
     Service!Locked, Service!At, Reloading
<1>3. PICK pc \in Reloading :
        Service!Goto(c, pc) /\ (pc = "bridge" => marker' = 0)
  BY <1>2 DEF Reloading
<1>4. /\ launch'[c].pc = pc /\ launch'[c].rel = launch[c].rel
      /\ launch'[c].approved = launch[c].approved
      /\ launch'[c].tries = launch[c].tries
      /\ launch'[c].jolts = launch[c].jolts
  BY <1>0, <1>3, Went
<1>5. Live(c) /\ launch[c].rel <= installed /\ launch[c].pc # "idle"
  BY <1>0, <1>2 DEF Sure, InLocks, Reloading
<1>6. Live(c)'
  <2>1. launch[c].pc \in InLocks /\ setup' = setup
    BY <1>2, SetupAlone, BridgeNames DEF Service!Step
  <2>2. /\ PlistFound' = PlistFound /\ OwnedFound' = OwnedFound
        /\ MarkerFound' \in {MarkerFound, 0}
    BY <1>0, <1>1, <2>1, FoundUnder
  <2> QED
    BY <1>4, <1>5, <2>2 DEF Live
<1>8. launch[c].tries \in Nat /\ launch[c].approved \in BOOLEAN
  BY <1>0 DEF LauncherStates
<1>9. launch'[c].tries + Left(c)' <= launch[c].tries + Left(c)
  BY <1>2, <1>4, <1>8, LeftUnder, LeftUnderNext
<1>10. Paid(c)'
  BY <1>0, <1>4, <1>5, <1>8, <1>9, AffordsOwn
<1>11. Sure(c)'
  <2>1. pc \notin Bridging
    BY BridgeNames
  <2>2. pc # "start"
    BY DEF Reloading
  <2> QED
    BY <1>1, <1>3, <1>4, <1>5, <1>6, <2>1, <2>2, Surely
<1> QED
  BY <1>10, <1>11

\* The bridge goes down when nothing else is left to do, and is up again at
\* the end of the attempt.
LEMMA BridgeSteps ==
  ASSUME ServiceTypes, NEW c \in Procs
  PROVE  /\ Service!RestartBridge(c) =>
              launch[c].pc = "bridge" /\ launch'[c].pc \in Bridging
         /\ Service!LoadBridge(c) =>
              launch[c].pc \in Bridging /\ launch'[c].pc \in Bridging
         /\ Service!TakeOver(c) => launch[c].pc \in Bridging
         /\ Service!RestartBridge(c) \/ Service!LoadBridge(c) =>
              /\ launch'[c].rel = launch[c].rel
              /\ launch'[c].approved = launch[c].approved
              /\ launch'[c].tries = launch[c].tries
              /\ launch'[c].jolts = launch[c].jolts
              /\ \A d \in Procs \ {c} : launch'[d] = launch[d]
<1>1. /\ Service!RestartBridge(c) => Service!Goto(c, "bridge load")
      /\ Service!LoadBridge(c) => Service!Goto(c, "takeover")
  BY DEF Service!RestartBridge, Service!LoadBridge
<1>2. /\ Service!RestartBridge(c) => launch'[c].pc = "bridge load"
      /\ Service!LoadBridge(c) => launch'[c].pc = "takeover"
  BY <1>1, Went
<1> QED
  BY <1>1, <1>2, Went DEF Service!RestartBridge, Service!LoadBridge,
     Service!TakeOver, Service!Locked, Service!At, Bridging

LEMMA OwnBridge ==
  ASSUME Service!ServiceAssumption, ConvergeInv, NEW c \in Procs,
         Service!RestartBridge(c) \/ Service!LoadBridge(c)
           \/ Service!TakeOver(c)
  PROVE  Sure(c)' /\ Paid(c)'
<1>0. /\ ServiceInv /\ ServiceTypes /\ Locks /\ Sure(c) /\ Paid(c)
      /\ launch[c] \in LauncherStates
  BY DEF ConvergeInv, ServiceInv, ServiceTypes
<1>1. /\ installed' = installed /\ plist' = plist /\ owned' = owned
      /\ marker' = marker /\ app' = app /\ cli' = cli
      /\ setup' = setup /\ saved' = saved
  BY DEF Service!RestartBridge, Service!LoadBridge, Service!TakeOver,
     Service!World, Service!Packages, Service!Files
<1>2. /\ launch[c].pc \in Bridging \cup {"bridge"}
      /\ launch[c].pc \in InLocks \ {"decide"} /\ launch[c].pc # "idle"
  BY <1>0, BridgeSteps, BridgeNames DEF InLocks
<1>3. Live(c) /\ launch[c].rel <= installed /\ marker = 0
      /\ (launch[c].pc \in Bridging => app.loaded)
  BY <1>0, <1>2 DEF Sure
<1>4. launch[c].tries \in Nat /\ launch[c].approved \in BOOLEAN
  BY <1>0 DEF LauncherStates
<1>8. /\ UNCHANGED <<PlistFound, OwnedFound, MarkerFound>>
      /\ MarkerFound = marker
  BY <1>0, <1>1, <1>2, FoundKept, FoundUnder
<1>5. Poor' <=> Poor
  BY <1>1, <1>8 DEF Poor
<1>6. CASE Service!RestartBridge(c) \/ Service!LoadBridge(c)
  <2>1. /\ launch'[c].pc \in Bridging /\ launch'[c].rel = launch[c].rel
        /\ launch'[c].approved = launch[c].approved
        /\ launch'[c].tries = launch[c].tries
        /\ launch'[c].jolts = launch[c].jolts
    BY <1>0, <1>6, BridgeSteps
  <2>2. launch[c].pc \in Reloading => ~Poor /\ app.loaded
    <3>1. launch[c].pc \in Reloading => Service!RestartBridge(c)
      BY <1>0, <1>6, BridgeSteps, BridgeNames
    <3>2. Service!RestartBridge(c) => app.alive /\ app.cli = cli
      BY DEF Service!RestartBridge
    <3> QED
      BY <1>0, <1>3, <1>8, <3>1, <3>2 DEF Poor, ServiceInv, Marked
  <2>3. launch[c].pc \in Reloading \/ launch[c].pc \in Bridging
    BY <1>2 DEF Reloading
  <2>4. Left(c)' <= Left(c)
    BY <1>4, <1>5, <2>1, <2>2, <2>3, LeftUnder, LeftUnderNext
  <2>5. launch'[c].tries + Left(c)' <= launch[c].tries + Left(c)
    <3>1. Left(c) \in 0..4 /\ Left(c)' \in 0..4
      BY LeftRange, LeftRangeNext
    <3> QED
      BY <1>4, <2>1, <2>4, <3>1
  <2>6. Paid(c)'
    BY <1>0, <1>2, <1>4, <2>1, <2>5, AffordsOwn
  <2>7. Live(c)'
    BY <1>3, <1>8, <2>1 DEF Live
  <2>8. launch'[c].pc # "start" /\ app.loaded
    BY <1>3, <2>1, <2>2, <2>3, BridgeNames
  <2>9. Sure(c)'
    BY <1>1, <1>3, <2>1, <2>7, <2>8, Surely
  <2> QED
    BY <2>6, <2>9
<1>7. CASE Service!TakeOver(c)
  <2>0. /\ launch[c].pc \in Bridging /\ Well(c) /\ bridge' = bridge
        /\ Service!Free(c, "look")
    BY <1>0, <1>7, BridgeSteps DEF Service!TakeOver, Service!World, Well
  <2>1. /\ launch'[c].pc = "look" /\ launch'[c].rel = launch[c].rel
        /\ launch'[c].approved = launch[c].approved
        /\ launch'[c].tries = launch[c].tries + 1
        /\ launch'[c].jolts = launch[c].jolts
        /\ \A d \in Procs \ {c} : launch'[d] = launch[d]
    BY <1>0, <2>0, Freed
  <2>2. /\ Live(c)' <=> Live(c)
        /\ Well(c)' <=> Well(c)
        /\ Cold' <=> Cold
    BY <1>1, <2>0, <2>1, Unchanging
  <2>3. ~Cold
    BY <1>3, <2>0 DEF Cold
  <2>4. ~Others(c, Reloading) /\ ~Others(c, Bridging)
    BY <1>0, <1>2, Alone
  <2>5. ~Others(c, Reloading)' /\ ~Others(c, Bridging)'
    BY <2>1, <2>4, OthersStay
  <2>6. Left(c)' = IF launch'[c].approved
                   THEN IF Poor' \/ ~Well(c)' THEN 1 ELSE 0
                   ELSE IF Well(c)' THEN 1 ELSE 2
    BY <1>3, <2>1, <2>2, <2>3, <2>5, LeftLooking
  <2>7. Left(c) = IF launch[c].approved /\ ~Poor THEN 1 ELSE 2
    BY <2>0, LeftUnder
  <2>8. launch'[c].tries + Left(c)' <= launch[c].tries + Left(c)
    BY <1>4, <1>5, <2>0, <2>1, <2>2, <2>6, <2>7
  <2>9. Paid(c)'
    BY <1>0, <1>2, <1>4, <2>1, <2>8, AffordsOwn
  <2>10. Sure(c)'
    BY <1>1, <1>3, <2>1, <2>2, Surely, OutsideNames
  <2> QED
    BY <2>9, <2>10
<1> QED
  BY <1>6, <1>7

\* Who ends has nothing to show.
LEMMA OwnEnds ==
  ASSUME Service!ServiceAssumption, ConvergeInv, NEW c \in Procs,
         Service!End(c)
  PROVE  Sure(c)' /\ Paid(c)'
<1>1. launch'[c] = Service!Idle
  BY LaunchEnds DEF ConvergeInv, ServiceInv, ServiceTypes
<1>2. launch'[c].pc = "idle" /\ launch'[c].tries = 0 /\ ~launch'[c].approved
  BY <1>1 DEF Service!Idle
<1>3. launch'[c].pc \notin InLocks /\ launch'[c].pc \notin Bridging
  BY <1>2, BridgeNames DEF InLocks
<1> QED
  BY <1>2, <1>3 DEF Sure, Paid, Engaged

\* What a launcher outside the locks needs, by what the one that holds them is
\* doing: now and after a step.
LEMMA LeftBeside ==
  ASSUME NEW c \in Procs, launch[c].pc \notin InLocks \ {"decide"}, Live(c)
  PROVE  /\ Others(c, Reloading) =>
              Left(c) = IF launch[c].approved \/ Well(c) THEN 1 ELSE 2
         /\ ~Others(c, Reloading) /\ Others(c, Bridging) =>
              Left(c) = IF ~launch[c].approved /\ Poor
                           /\ launch[c].pc \in Committed THEN 2 ELSE 1
         /\ ~Others(c, Reloading) /\ ~Others(c, Bridging) =>
              Left(c) = IF launch[c].approved
                        THEN IF Cold THEN IF Well(c) THEN 1 ELSE 2
                             ELSE IF Poor \/ ~Well(c) THEN 1 ELSE 0
                        ELSE IF Cold \/ (Poor /\ launch[c].pc \in Committed)
                             THEN IF Well(c) THEN 2 ELSE 3
                             ELSE IF Well(c) THEN 1 ELSE 2
<1>1. /\ launch[c].pc \notin Reloading /\ launch[c].pc \notin Bridging
      /\ launch[c].pc # "start" /\ launch[c].pc # "claim"
  BY BridgeNames, OutsideNames DEF InLocks
<1>2. launch[c].approved =>
        /\ Others(c, Reloading) \/ Others(c, Bridging) => Left(c) = 1
        /\ ~Others(c, Reloading) /\ ~Others(c, Bridging) =>
             Left(c) = IF Cold THEN IF Well(c) THEN 1 ELSE 2
                       ELSE IF Poor \/ ~Well(c) THEN 1 ELSE 0
  BY <1>1 DEF Left, Consented
<1>3. ~launch[c].approved => Left(c) =
        IF Others(c, Reloading) THEN IF Well(c) THEN 1 ELSE 2
        ELSE IF Others(c, Bridging)
             THEN IF Poor /\ launch[c].pc \in Committed THEN 2 ELSE 1
        ELSE IF Cold \/ (Poor /\ launch[c].pc \in Committed)
             THEN IF Well(c) THEN 2 ELSE 3
        ELSE IF Well(c) THEN 1 ELSE 2
  BY <1>1 DEF Left, InReserve
<1> QED
  BY <1>2, <1>3

LEMMA LeftBesideNext ==
  ASSUME NEW c \in Procs, launch'[c].pc \notin InLocks \ {"decide"}, Live(c)'
  PROVE  /\ Others(c, Reloading)' =>
              Left(c)' = IF launch'[c].approved \/ Well(c)' THEN 1 ELSE 2
         /\ ~Others(c, Reloading)' /\ Others(c, Bridging)' =>
              Left(c)' = IF ~launch'[c].approved /\ Poor'
                            /\ launch'[c].pc \in Committed THEN 2 ELSE 1
         /\ ~Others(c, Reloading)' /\ ~Others(c, Bridging)' =>
              Left(c)' = IF launch'[c].approved
                         THEN IF Cold' THEN IF Well(c)' THEN 1 ELSE 2
                              ELSE IF Poor' \/ ~Well(c)' THEN 1 ELSE 0
                         ELSE IF Cold' \/ (Poor' /\ launch'[c].pc \in Committed)
                              THEN IF Well(c)' THEN 2 ELSE 3
                              ELSE IF Well(c)' THEN 1 ELSE 2
<1>1. /\ launch'[c].pc \notin Reloading /\ launch'[c].pc \notin Bridging
      /\ launch'[c].pc # "start" /\ launch'[c].pc # "claim"
  BY BridgeNames, OutsideNames DEF InLocks
<1>2. launch'[c].approved =>
        /\ Others(c, Reloading)' \/ Others(c, Bridging)' => Left(c)' = 1
        /\ ~Others(c, Reloading)' /\ ~Others(c, Bridging)' =>
             Left(c)' = IF Cold' THEN IF Well(c)' THEN 1 ELSE 2
                        ELSE IF Poor' \/ ~Well(c)' THEN 1 ELSE 0
  BY <1>1 DEF Left, Consented
<1>3. ~launch'[c].approved => Left(c)' =
        IF Others(c, Reloading)' THEN IF Well(c)' THEN 1 ELSE 2
        ELSE IF Others(c, Bridging)'
             THEN IF Poor' /\ launch'[c].pc \in Committed THEN 2 ELSE 1
        ELSE IF Cold' \/ (Poor' /\ launch'[c].pc \in Committed)
             THEN IF Well(c)' THEN 2 ELSE 3
        ELSE IF Well(c)' THEN 1 ELSE 2
  BY <1>1 DEF Left, InReserve
<1> QED
  BY <1>2, <1>3

\* While one launcher holds the locks, it is the only one at its repair.
LEMMA OnlyOne ==
  ASSUME ServiceInv, NEW d \in Procs, NEW c \in Procs \ {d},
         launch[d].pc \in InLocks,
         \A e \in Procs \ {d} : launch'[e].pc = launch[e].pc
  PROVE  /\ launch[c].pc \notin InLocks
         /\ Others(c, Reloading) <=> launch[d].pc \in Reloading
         /\ Others(c, Bridging) <=> launch[d].pc \in Bridging
         /\ Others(c, Reloading)' <=> launch'[d].pc \in Reloading
         /\ Others(c, Bridging)' <=> launch'[d].pc \in Bridging
<1>1. \A e \in Procs \ {d} : launch[e].pc \notin InLocks
  BY DEF ServiceInv, Locks
<1>2. \A e \in Procs \ {d} : /\ launch[e].pc \notin Reloading
                             /\ launch[e].pc \notin Bridging
                             /\ launch'[e].pc \notin Reloading
                             /\ launch'[e].pc \notin Bridging
  BY <1>1, BridgeNames
<1> QED
  BY <1>1, <1>2 DEF Others

\* Who holds the locks has seen the services set up: for the release of
\* everyone who has seen them so too.
LEMMA Agree ==
  ASSUME ServiceTypes, Service!ServiceAssumption,
         NEW d \in Procs, NEW c \in Procs \ {d}, Live(d), Stays(c),
         PlistFound' = PlistFound, OwnedFound' = OwnedFound,
         MarkerFound' = MarkerFound \/ MarkerFound' = 0
  PROVE  /\ Live(c)' <=> Live(c)
         /\ Passed(c) => Passed(c)'
         /\ Live(c) => launch[c].rel = launch[d].rel
<1>1. /\ PlistFound \in Nat /\ OwnedFound \in Nat /\ MarkerFound \in Nat
      /\ launch[c].rel \in Nat /\ launch[d].rel \in Nat
  BY DEF ServiceTypes, LauncherStates, Service!ServiceAssumption, PlistFound,
     OwnedFound, MarkerFound
<1>2. launch'[c].rel = launch[c].rel
  BY DEF Stays
<1> QED
  BY <1>1, <1>2 DEF Live, Passed

\* A launcher outside the locks is as sure as it was.
LEMMA SureBeside ==
  ASSUME NEW c \in Procs, Sure(c), Stays(c), launch[c].pc \notin InLocks,
         Live(c) => Live(c)', Passed(c) => Passed(c)', installed' = installed
  PROVE  Sure(c)'
<1>1. /\ launch'[c].pc = launch[c].pc /\ launch'[c].rel = launch[c].rel
      /\ launch'[c].tries = launch[c].tries
      /\ Engaged(c)' <=> Engaged(c)
  BY DEF Stays, Engaged
<1>2. launch'[c].pc \notin Bridging /\ launch'[c].pc # "bridge"
      /\ launch'[c].pc # "start"
  BY <1>1, BridgeNames DEF InLocks
<1>3. Engaged(c) => Live(c) \/ Passed(c)
  BY DEF Sure
<1>4. /\ launch[c].pc # "idle" => launch[c].rel <= installed
      /\ launch[c].pc = "gave up" => launch[c].tries = Service!Attempts
  BY DEF Sure
<1>5. Engaged(c)' => Live(c)' \/ Passed(c)'
  BY <1>1, <1>3
<1>6. launch'[c].pc # "idle" => launch'[c].rel <= installed'
  BY <1>1, <1>4
<1>7. launch'[c].pc = "gave up" => launch'[c].tries = Service!Attempts
  BY <1>1, <1>4 DEF Service!Attempts
<1>8. launch'[c].pc \notin InLocks
  BY <1>1
<1> QED
  BY <1>2, <1>5, <1>6, <1>7, <1>8 DEF Sure, Service!Attempts

\* The decision under the locks, seen from outside: who goes on to a reload,
\* or to the bridge, has found that something is wrong.
LEMMA Decided ==
  ASSUME Service!ServiceAssumption, ConvergeInv, NEW d \in Procs,
         Service!Decide(d)
  PROVE  /\ launch[d].pc = "decide" /\ Live(d)
         /\ \/ launch'[d].pc \in {"look", "claim", "start"}
            \/ launch'[d].pc \in Reloading /\ (Poor \/ ~Well(d))
         /\ \A e \in Procs \ {d} : launch'[e] = launch[e]
<1>0. ServiceInv /\ ServiceTypes
  BY DEF ConvergeInv, ServiceInv
<1> DEFINE s == Service!Inspect(launch[d].rel)
<1>2. /\ launch[d].pc = "decide" /\ launch[d].rel # 0
      /\ s \notin Service!Final /\ setup = "idle"
  BY <1>0 DEF Service!Decide, Service!Locked, Service!At, ServiceInv, Relies,
     Locks, Service!ServiceAssumption
<1>3. /\ Live(d)
      /\ s = "cold" <=> Cold
      /\ s = "ready" <=> ~Poor /\ Well(d)
  BY <1>0, <1>2, Seen
<1>4. \/ Service!Free(d, "look")
      \/ Service!Goto(d, CASE s = "ready" -> "claim"
                           [] s = "bridge_down" -> "bridge"
                           [] s = "cold" /\ marker = 0 -> "start"
                           [] OTHER -> "unload")
  BY DEF Service!Decide
<1> HIDE DEF s
<1>5. \/ Service!Free(d, "look") \/ Service!Goto(d, "claim")
      \/ Service!Goto(d, "start")
      \/ s # "ready" /\ Service!Goto(d, "bridge")
      \/ s # "ready" /\ Service!Goto(d, "unload")
  BY <1>4
<1>6. /\ Service!Goto(d, "claim") => launch'[d].pc = "claim"
      /\ Service!Goto(d, "start") => launch'[d].pc = "start"
      /\ Service!Goto(d, "bridge") => launch'[d].pc = "bridge"
      /\ Service!Goto(d, "unload") => launch'[d].pc = "unload"
      /\ Service!Free(d, "look") => launch'[d].pc = "look"
  BY <1>0, Went, Freed
<1>7. \A e \in Procs \ {d} : launch'[e] = launch[e]
  BY <1>0, <1>5, Went, Freed
<1> QED
  BY <1>2, <1>3, <1>5, <1>6, <1>7 DEF Reloading

\* The steps of a repair, seen from outside.
LEMMA Repairs ==
  ASSUME Service!ServiceAssumption, ConvergeInv, NEW d \in Procs,
         Service!Start(d) \/ Service!Unload(d) \/ Service!Load(d)
           \/ Service!Wait(d) \/ Service!Clear(d) \/ Service!RestartBridge(d)
           \/ Service!LoadBridge(d) \/ Service!TakeOver(d)
  PROVE  /\ launch[d].pc \in InLocks /\ Live(d)
         /\ \A e \in Procs \ {d} : launch'[e] = launch[e]
         /\ \/ /\ launch[d].pc = "start" /\ launch'[d].pc = "look"
               /\ Cold /\ ~Cold' /\ ~Poor' /\ bridge' = bridge
            \/ /\ launch[d].pc \in Reloading /\ launch'[d].pc \in Reloading
               /\ bridge' = bridge
            \/ /\ launch[d].pc \in Reloading /\ launch'[d].pc \in Bridging
               /\ ~Poor /\ ~Poor'
            \/ /\ launch[d].pc \in Bridging /\ launch'[d].pc \in Bridging
               /\ (Poor' <=> Poor)
            \/ /\ launch[d].pc \in Bridging /\ launch'[d].pc = "look"
               /\ (Poor' <=> Poor) /\ ~Cold' /\ Well(d) /\ bridge' = bridge
<1>0. ServiceInv /\ ServiceTypes /\ Sure(d)
  BY DEF ConvergeInv, ServiceInv
<1>1. ASSUME launch[d].pc \in Reloading \cup Bridging \cup {"start"}
      PROVE  launch[d].pc \in InLocks /\ Live(d)
  <2>1. launch[d].pc \in InLocks \ {"decide"}
    BY <1>1, BridgeNames, OutsideNames DEF InLocks
  <2> QED
    BY <1>0, <2>1 DEF Sure
<1>7. ASSUME launch[d].pc \in Reloading \cup Bridging \cup {"start"}
      PROVE  MarkerFound = marker /\ MarkerFound' = marker'
  <2>1. launch[d].pc \in InLocks /\ setup' = setup
    BY <1>1, <1>7, SetupAlone DEF Service!Step
  <2> QED
    BY <1>0, <2>1, FoundUnder
<1>2. CASE Service!Start(d)
  <2>1. /\ launch[d].pc = "start" /\ Service!Free(d, "look")
        /\ bridge' = bridge /\ cli' = cli /\ marker' = marker
        /\ app' = IF app.alive THEN app
                  ELSE [loaded |-> TRUE, alive |-> TRUE, gen |-> plist,
                        cli |-> cli]
    BY <1>2 DEF Service!Start, Service!Packages, Service!Files,
       Service!Locked, Service!At
  <2>2. Cold /\ marker = 0
    BY <1>0, <2>1 DEF Sure
  <2>3. ~Cold' /\ ~Poor'
    BY <1>7, <2>1, <2>2 DEF Cold, Poor
  <2>4. launch'[d].pc = "look" /\ \A e \in Procs \ {d} : launch'[e] = launch[e]
    BY <1>0, <2>1, Freed
  <2> QED
    BY <1>1, <2>1, <2>2, <2>3, <2>4
<1>3. CASE Service!Unload(d) \/ Service!Load(d) \/ Service!Wait(d)
           \/ Service!Clear(d)
  <2>1. launch[d].pc \in Reloading /\ bridge' = bridge
    BY <1>3 DEF Service!Unload, Service!Load, Service!Wait, Service!Clear,
       Service!Locked, Service!At, Service!World, Reloading
  <2>2. PICK pc \in Reloading : Service!Goto(d, pc)
    BY <1>3 DEF Service!Unload, Service!Load, Service!Wait, Service!Clear,
       Reloading
  <2>3. launch'[d].pc = pc /\ \A e \in Procs \ {d} : launch'[e] = launch[e]
    BY <1>0, <2>2, Went
  <2> QED
    BY <1>1, <2>1, <2>2, <2>3
<1>4. CASE Service!RestartBridge(d)
  <2>1. /\ launch[d].pc = "bridge" /\ launch'[d].pc \in Bridging
        /\ \A e \in Procs \ {d} : launch'[e] = launch[e]
    BY <1>0, <1>4, BridgeSteps
  <2>2. /\ app.alive /\ app.cli = cli
        /\ app' = app /\ cli' = cli /\ marker' = marker
    BY <1>4 DEF Service!RestartBridge, Service!Packages, Service!Files
  <2>3. marker = 0
    BY <1>0, <2>1 DEF Sure
  <2>5. launch[d].pc \in Reloading
    BY <2>1 DEF Reloading
  <2>4. ~Poor /\ ~Poor'
    BY <1>7, <2>2, <2>3, <2>5 DEF Poor
  <2> QED
    BY <1>1, <2>1, <2>4, <2>5
<1>5. CASE Service!LoadBridge(d)
  <2>1. /\ launch[d].pc \in Bridging /\ launch'[d].pc \in Bridging
        /\ \A e \in Procs \ {d} : launch'[e] = launch[e]
    BY <1>0, <1>5, BridgeSteps
  <2>2. app' = app /\ cli' = cli /\ marker' = marker
    BY <1>5 DEF Service!LoadBridge, Service!Packages, Service!Files
  <2>3. Poor' <=> Poor
    BY <1>7, <2>1, <2>2 DEF Poor
  <2> QED
    BY <1>1, <2>1, <2>3
<1>6. CASE Service!TakeOver(d)
  <2>1. launch[d].pc \in Bridging
    BY <1>0, <1>6, BridgeSteps
  <2>2. /\ app' = app /\ cli' = cli /\ marker' = marker /\ bridge' = bridge
        /\ Well(d) /\ Service!Free(d, "look")
    BY <1>6 DEF Service!TakeOver, Service!World, Service!Packages,
       Service!Files, Well
  <2>3. launch'[d].pc = "look" /\ \A e \in Procs \ {d} : launch'[e] = launch[e]
    BY <1>0, <2>2, Freed
  <2>4. app.loaded
    BY <1>0, <2>1 DEF Sure
  <2>5. (Poor' <=> Poor) /\ ~Cold'
    BY <1>7, <2>1, <2>2, <2>4 DEF Poor, Cold
  <2> QED
    BY <1>1, <2>1, <2>2, <2>3, <2>5
<1> QED
  BY <1>2, <1>3, <1>4, <1>5, <1>6

\* What a launcher under its locks does leaves the others no more to do.
LEMMA BesideGoes ==
  ASSUME Service!ServiceAssumption, ConvergeInv, NEW d \in Procs,
         NEW c \in Procs \ {d},
         Service!Decide(d) \/ Service!Start(d) \/ Service!Unload(d)
           \/ Service!Load(d) \/ Service!Wait(d) \/ Service!Clear(d)
           \/ Service!RestartBridge(d) \/ Service!LoadBridge(d)
           \/ Service!TakeOver(d)
  PROVE  Sure(c)' /\ Paid(c)'
<1>0. /\ ServiceInv /\ ServiceTypes /\ Sure(c) /\ Paid(c)
      /\ (Cold => Poor)
  BY DEF ConvergeInv, ServiceInv, Marked, Cold, Poor
<1>1. /\ launch[d].pc \in InLocks /\ Live(d)
      /\ \A e \in Procs \ {d} : launch'[e] = launch[e]
  BY Decided, Repairs DEF InLocks
<1>2. Spared(c) /\ Stays(c)
  BY <1>1 DEF Spared, Stays
<1>3. /\ plist' = plist /\ owned' = owned /\ installed' = installed
      /\ marker' = marker \/ marker' = 0
  BY DEF Service!Decide, Service!Start, Service!Unload, Service!Load,
     Service!Wait, Service!Clear, Service!RestartBridge, Service!LoadBridge,
     Service!TakeOver, Service!World, Service!Packages, Service!Files
<1>10. /\ PlistFound' = PlistFound /\ OwnedFound' = OwnedFound
       /\ MarkerFound' = MarkerFound \/ MarkerFound' = 0
       /\ marker' = marker => MarkerFound' = MarkerFound
  <2>1. setup' = setup
    BY SetupAlone DEF Service!Step
  <2> QED
    BY <1>0, <1>1, <1>3, <2>1, FoundUnder
<1>4. /\ Live(c)' <=> Live(c)
      /\ Passed(c) => Passed(c)'
      /\ Live(c) => launch[c].rel = launch[d].rel
  BY <1>0, <1>1, <1>2, <1>10, Agree
<1>5. /\ launch[c].pc \notin InLocks
      /\ Others(c, Reloading) <=> launch[d].pc \in Reloading
      /\ Others(c, Bridging) <=> launch[d].pc \in Bridging
      /\ Others(c, Reloading)' <=> launch'[d].pc \in Reloading
      /\ Others(c, Bridging)' <=> launch'[d].pc \in Bridging
  BY <1>0, <1>1, OnlyOne
<1>6. Sure(c)'
  BY <1>0, <1>2, <1>3, <1>4, <1>5, SureBeside
<1>7. launch'[c].pc = launch[c].pc /\ launch'[c].approved = launch[c].approved
  BY <1>2 DEF Stays
<1>8. CASE ~Live(c)
  <2>1. Left(c)' = Left(c)
    BY <1>4, <1>5, <1>7, <1>8, LeftRange, LeftRangeNext
  <2>2. Left(c)' <= Left(c)
    BY <2>1, LeftRange
  <2> QED
    BY <1>0, <1>2, <1>6, <2>2, Affords
<1>9. CASE Live(c)
  <2>1. Live(c)' /\ launch[c].rel = launch[d].rel
    BY <1>4, <1>9
  <2>2. /\ Others(c, Reloading) =>
              Left(c) = IF launch[c].approved \/ Well(c) THEN 1 ELSE 2
        /\ ~Others(c, Reloading) /\ Others(c, Bridging) =>
              Left(c) = IF ~launch[c].approved /\ Poor
                           /\ launch[c].pc \in Committed THEN 2 ELSE 1
        /\ ~Others(c, Reloading) /\ ~Others(c, Bridging) =>
              Left(c) = IF launch[c].approved
                        THEN IF Cold THEN IF Well(c) THEN 1 ELSE 2
                             ELSE IF Poor \/ ~Well(c) THEN 1 ELSE 0
                        ELSE IF Cold \/ (Poor /\ launch[c].pc \in Committed)
                             THEN IF Well(c) THEN 2 ELSE 3
                             ELSE IF Well(c) THEN 1 ELSE 2
    BY <1>5, <1>9, LeftBeside
  <2>3. /\ Others(c, Reloading)' =>
              Left(c)' = IF launch[c].approved \/ Well(c)' THEN 1 ELSE 2
        /\ ~Others(c, Reloading)' /\ Others(c, Bridging)' =>
              Left(c)' = IF ~launch[c].approved /\ Poor'
                            /\ launch[c].pc \in Committed THEN 2 ELSE 1
        /\ ~Others(c, Reloading)' /\ ~Others(c, Bridging)' =>
              Left(c)' = IF launch[c].approved
                         THEN IF Cold' THEN IF Well(c)' THEN 1 ELSE 2
                              ELSE IF Poor' \/ ~Well(c)' THEN 1 ELSE 0
                         ELSE IF Cold' \/ (Poor' /\ launch[c].pc \in Committed)
                              THEN IF Well(c)' THEN 2 ELSE 3
                              ELSE IF Well(c)' THEN 1 ELSE 2
    BY <1>5, <1>7, <2>1, LeftBesideNext
  <2>4. /\ Well(c) <=> Well(d)
        /\ bridge' = bridge => (Well(c)' <=> Well(c))
    BY <1>2, <2>1 DEF Well, Service!Healthy, Stays
  <2>5. Left(c)' <= Left(c)
    <3>1. CASE Service!Decide(d)
      <4>1. /\ launch[d].pc = "decide"
            /\ \/ launch'[d].pc \in {"look", "claim", "start"}
               \/ launch'[d].pc \in Reloading /\ (Poor \/ ~Well(d))
        BY <3>1, Decided
      <4>2. launch[d].pc \notin Reloading /\ launch[d].pc \notin Bridging
        BY <4>1, OutsideNames
      <4>3. (Cold' <=> Cold) /\ (Poor' <=> Poor) /\ bridge' = bridge
        BY <1>10, <3>1 DEF Service!Decide, Service!World,
           Service!Packages, Service!Files, Cold, Poor
      <4>4. CASE launch'[d].pc \in {"look", "claim", "start"}
        <5>1. launch'[d].pc \notin Reloading /\ launch'[d].pc \notin Bridging
          BY <4>4, BridgeNames DEF Reloading
        <5> QED
          BY <1>5, <2>2, <2>3, <2>4, <4>2, <4>3, <5>1
      <4>5. CASE launch'[d].pc \in Reloading /\ (Poor \/ ~Well(d))
        BY <1>0, <1>5, <2>2, <2>3, <2>4, <4>2, <4>3, <4>5
      <4> QED
        BY <4>1, <4>4, <4>5
    <3>2. CASE ~Service!Decide(d)
      <4>1. \/ /\ launch[d].pc = "start" /\ launch'[d].pc = "look"
               /\ Cold /\ ~Cold' /\ ~Poor' /\ bridge' = bridge
            \/ /\ launch[d].pc \in Reloading /\ launch'[d].pc \in Reloading
               /\ bridge' = bridge
            \/ /\ launch[d].pc \in Reloading /\ launch'[d].pc \in Bridging
               /\ ~Poor /\ ~Poor'
            \/ /\ launch[d].pc \in Bridging /\ launch'[d].pc \in Bridging
               /\ (Poor' <=> Poor)
            \/ /\ launch[d].pc \in Bridging /\ launch'[d].pc = "look"
               /\ (Poor' <=> Poor) /\ ~Cold' /\ Well(d) /\ bridge' = bridge
        BY <3>2, Repairs
      <4>2. /\ launch[d].pc \in Bridging => launch[d].pc \notin Reloading
            /\ launch'[d].pc \in Bridging => launch'[d].pc \notin Reloading
            /\ launch[d].pc = "start" =>
                 launch[d].pc \notin Reloading /\ launch[d].pc \notin Bridging
            /\ launch'[d].pc = "look" =>
                 launch'[d].pc \notin Reloading /\ launch'[d].pc \notin Bridging
        BY BridgeNames, OutsideNames DEF Reloading
      <4>3. CASE /\ launch[d].pc = "start" /\ launch'[d].pc = "look"
                 /\ Cold /\ ~Cold' /\ ~Poor' /\ bridge' = bridge
        BY <1>5, <2>2, <2>3, <2>4, <4>2, <4>3
      <4>4. CASE /\ launch[d].pc \in Reloading /\ launch'[d].pc \in Reloading
                 /\ bridge' = bridge
        BY <1>5, <2>2, <2>3, <2>4, <4>2, <4>4
      <4>5. CASE /\ launch[d].pc \in Reloading /\ launch'[d].pc \in Bridging
                 /\ ~Poor /\ ~Poor'
        BY <1>5, <2>2, <2>3, <4>2, <4>5
      <4>6. CASE /\ launch[d].pc \in Bridging /\ launch'[d].pc \in Bridging
                 /\ (Poor' <=> Poor)
        BY <1>5, <2>2, <2>3, <4>2, <4>6
      <4>7. CASE /\ launch[d].pc \in Bridging /\ launch'[d].pc = "look"
                 /\ (Poor' <=> Poor) /\ ~Cold' /\ Well(d) /\ bridge' = bridge
        BY <1>5, <2>2, <2>3, <2>4, <4>2, <4>7
      <4> QED
        BY <4>1, <4>3, <4>4, <4>5, <4>6, <4>7
    <3> QED
      BY <3>1, <3>2
  <2> QED
    BY <1>0, <1>2, <1>6, <2>5, Affords
<1> QED
  BY <1>8, <1>9

\* A launcher that moves outside the locks is nothing to the others.
LEMMA BesideOutside ==
  ASSUME Service!ServiceAssumption, ConvergeInv, NEW d \in Procs,
         NEW c \in Procs \ {d},
         Service!Launch(d) \/ Service!Look(d) \/ Service!Approve(d)
           \/ Service!LockRepair(d) \/ Service!LockState(d)
           \/ Service!NotConverged(d)
  PROVE  Sure(c)' /\ Paid(c)'
<1>0. /\ ServiceInv /\ ServiceTypes /\ Sure(c) /\ Paid(c)
      /\ (Cold => Poor)
  BY DEF ConvergeInv, ServiceInv, Marked, Cold, Poor
<1>1. /\ installed' = installed /\ cli' = cli /\ plist' = plist
      /\ owned' = owned /\ marker' = marker /\ app' = app /\ bridge' = bridge
      /\ setup' = setup /\ saved' = saved
  BY DEF Service!Launch, Service!Look, Service!Approve, Service!LockRepair,
     Service!LockState, Service!NotConverged, Service!World,
     Service!Packages, Service!Files
<1>2. /\ \A e \in Procs \ {d} : launch'[e] = launch[e]
      /\ launch[d].pc \notin Reloading /\ launch[d].pc \notin Bridging
      /\ launch'[d].pc \notin Reloading /\ launch'[d].pc \notin Bridging
  <2>1. CASE Service!Launch(d)
    <3>1. /\ launch[d].pc = "idle"
          /\ launch' = [launch EXCEPT ![d] =
                         [Service!Idle EXCEPT !.pc = "look", !.rel = installed]]
      BY <2>1 DEF Service!Launch, Service!At
    <3>2. /\ launch'[d].pc = "look"
          /\ \A e \in Procs \ {d} : launch'[e] = launch[e]
      BY <1>0, <3>1 DEF ServiceTypes, Service!Idle
    <3> QED
      BY <3>1, <3>2, OutsideNames, BridgeNames DEF Reloading
  <2>2. CASE Service!Approve(d)
    <3>1. /\ launch[d].pc = "ask"
          /\ launch' = [launch EXCEPT ![d] =
                         [launch[d] EXCEPT !.pc = "repair", !.approved = TRUE]]
      BY <2>2 DEF Service!Approve, Service!At
    <3>2. /\ launch'[d].pc = "repair"
          /\ \A e \in Procs \ {d} : launch'[e] = launch[e]
      BY <1>0, <3>1 DEF ServiceTypes, LauncherStates
    <3> QED
      BY <3>1, <3>2, OutsideNames
  <2>3. CASE Service!Look(d) \/ Service!LockRepair(d) \/ Service!LockState(d)
               \/ Service!NotConverged(d)
    <3>1. PICK pc : /\ Service!Goto(d, pc)
                    /\ pc \in {"ask", "repair", "state", "decide", "gave up"}
                    /\ launch[d].pc \in {"look", "repair", "state"}
      BY <2>3 DEF Service!Look, Service!LockRepair, Service!LockState,
         Service!NotConverged, Service!At
    <3>2. launch'[d].pc = pc /\ \A e \in Procs \ {d} : launch'[e] = launch[e]
      BY <1>0, <3>1, Went
    <3> QED
      BY <3>1, <3>2, OutsideNames
  <2> QED
    BY <2>1, <2>2, <2>3
<1>3. Spared(c) /\ Stays(c) /\ launch'[c].rel = launch[c].rel
  BY <1>2 DEF Spared, Stays
<1>4. /\ Live(c)' <=> Live(c)
      /\ Well(c)' <=> Well(c)
      /\ Cold' <=> Cold
      /\ Poor' <=> Poor
      /\ Passed(c)' <=> Passed(c)
  BY <1>1, <1>3, Unchanging
<1>5. /\ Others(c, Reloading)' <=> Others(c, Reloading)
      /\ Others(c, Bridging)' <=> Others(c, Bridging)
  BY <1>2 DEF Others
<1>6. Left(c)' <= Left(c)
  BY <1>0, <1>3, <1>4, <1>5, LeftFalls
<1>7. Engaged(c)' <=> Engaged(c)
  BY <1>3 DEF Stays, Engaged
<1>8. Sure(c)'
  BY <1>0, <1>1, <1>3, <1>4, <1>7 DEF Sure, Stays, Service!Attempts
<1> QED
  BY <1>0, <1>3, <1>6, <1>8, Affords

\* A launcher that ends, whatever it leaves half done, costs the others one
\* attempt at most.
LEMMA BesideEnds ==
  ASSUME Service!ServiceAssumption, ConvergeInv, NEW d \in Procs,
         NEW c \in Procs \ {d}, Service!Claim(d) \/ Service!Stop(d)
  PROVE  Sure(c)' /\ Paid(c)'
<1>0. /\ ServiceInv /\ ServiceTypes /\ Sure(c) /\ Paid(c) /\ Sure(d)
      /\ (Cold => Poor)
  BY DEF ConvergeInv, ServiceInv, Marked, Cold, Poor
<1>1. /\ installed' = installed /\ cli' = cli /\ plist' = plist
      /\ owned' = owned /\ marker' = marker /\ app' = app /\ bridge' = bridge
      /\ setup' = setup /\ saved' = saved
      /\ Service!End(d)
  BY DEF Service!Claim, Service!Stop, Service!World, Service!Packages,
     Service!Files
<1>2. \A e \in Procs \ {d} : Hit(e)
  BY <1>0, <1>1, LaunchEnds, Hits
<1>3. /\ Hit(c) /\ Stays(c) /\ launch'[c].rel = launch[c].rel
      /\ \A e \in Procs \ {d} : launch'[e].pc = launch[e].pc
  BY <1>2 DEF Hit, Stays
<1>4. launch'[d].pc \notin Reloading /\ launch'[d].pc \notin Bridging
  <2>1. launch'[d].pc = "idle"
    BY <1>0, <1>1, LaunchEnds DEF Service!Idle
  <2> QED
    BY <2>1, BridgeNames DEF Reloading
<1>5. /\ Live(c)' <=> Live(c)
      /\ Well(c)' <=> Well(c)
      /\ Cold' <=> Cold
      /\ Poor' <=> Poor
      /\ Passed(c)' <=> Passed(c)
  BY <1>1, <1>3, Unchanging
<1>6. Engaged(c)' <=> Engaged(c)
  BY <1>3 DEF Stays, Engaged
<1>7. Sure(c)'
  BY <1>0, <1>1, <1>3, <1>5, <1>6 DEF Sure, Stays, Service!Attempts
<1>8. Left(c) \in 0..4 /\ Left(c)' \in 0..4
  BY LeftRange, LeftRangeNext
<1>9. Left(c)' <= Left(c) + 1
  <2>1. CASE launch[d].pc \notin Reloading /\ launch[d].pc \notin Bridging
    <3>1. /\ Others(c, Reloading)' <=> Others(c, Reloading)
          /\ Others(c, Bridging)' <=> Others(c, Bridging)
      BY <1>3, <1>4, <2>1 DEF Others
    <3>2. Left(c)' <= Left(c)
      BY <1>0, <1>3, <1>5, <3>1, LeftFalls
    <3> QED
      BY <1>8, <3>2
  <2>2. CASE launch[d].pc \in Reloading \/ launch[d].pc \in Bridging
    <3>1. launch[d].pc \in InLocks
      BY <2>2, BridgeNames
    <3>2. /\ launch[c].pc \notin InLocks
          /\ Others(c, Reloading) <=> launch[d].pc \in Reloading
          /\ Others(c, Bridging) <=> launch[d].pc \in Bridging
          /\ ~Others(c, Reloading)' /\ ~Others(c, Bridging)'
      BY <1>0, <1>3, <1>4, <3>1, OnlyOne
    <3>3. /\ launch'[c].pc = launch[c].pc
          /\ launch'[c].approved = launch[c].approved
      BY <1>3 DEF Stays
    <3>4. CASE ~Live(c)
      <4>1. Left(c)' = Left(c)
        BY <1>5, <3>2, <3>3, <3>4, LeftRange, LeftRangeNext
      <4> QED
        BY <1>8, <4>1
    <3>5. CASE Live(c)
      <4>1. /\ Others(c, Reloading) =>
                 Left(c) = IF launch[c].approved \/ Well(c) THEN 1 ELSE 2
            /\ ~Others(c, Reloading) /\ Others(c, Bridging) =>
                 Left(c) = IF ~launch[c].approved /\ Poor
                              /\ launch[c].pc \in Committed THEN 2 ELSE 1
        BY <3>2, <3>5, LeftBeside
      <4>2. Left(c)' = IF launch'[c].approved
                       THEN IF Cold' THEN IF Well(c)' THEN 1 ELSE 2
                            ELSE IF Poor' \/ ~Well(c)' THEN 1 ELSE 0
                       ELSE IF Cold' \/ (Poor' /\ launch'[c].pc \in Committed)
                            THEN IF Well(c)' THEN 2 ELSE 3
                            ELSE IF Well(c)' THEN 1 ELSE 2
        BY <1>5, <3>2, <3>3, <3>5, LeftBesideNext
      <4>3. launch[d].pc \in Bridging => ~Cold
        BY <1>0 DEF Sure, Cold
      <4>4. CASE launch[d].pc \in Reloading
        BY <1>5, <3>2, <3>3, <4>1, <4>2, <4>4
      <4>5. CASE launch[d].pc \notin Reloading
        BY <1>5, <2>2, <3>2, <3>3, <4>1, <4>2, <4>3, <4>5
      <4> QED
        BY <4>4, <4>5
    <3> QED
      BY <3>4, <3>5
  <2> QED
    BY <2>1, <2>2
<1> QED
  BY <1>0, <1>3, <1>7, <1>9, Affords

\* A launcher clears the marker under the lock of setup, and writes nothing
\* else.
LEMMA OrderedStep ==
  ASSUME ServiceInv, Ordered, Service!ServiceAssumption, NEW d \in Procs,
         Service!Step(d)
  PROVE  Ordered'
<1>0. /\ ServiceTypes /\ Locks
  BY DEF ServiceInv
<1>1. /\ installed' = installed /\ plist' = plist /\ owned' = owned
      /\ setup' = setup /\ saved' = saved
      /\ marker' = marker \/ (marker' = 0 /\ Service!Clear(d))
  BY DEF Service!Step, Service!Launch, Service!Look, Service!Approve,
     Service!LockRepair, Service!LockState, Service!Decide, Service!Claim,
     Service!Start, Service!Unload, Service!Load, Service!Wait,
     Service!Clear, Service!RestartBridge, Service!LoadBridge,
     Service!TakeOver, Service!NotConverged, Service!Stop, Service!World,
     Service!Packages, Service!Files
<1>2. Service!Clear(d) => setup = "idle"
  BY <1>0 DEF Service!Clear, Service!Locked, Locks, Service!ServiceAssumption
<1>3. installed \in Nat
  BY <1>0 DEF ServiceTypes, Service!ServiceAssumption
<1> QED
  BY <1>1, <1>2, <1>3 DEF Ordered

\* Every step of a launcher keeps the account of every launcher.
LEMMA StepPaid ==
  ASSUME Service!ServiceAssumption, ConvergeInv, NEW d \in Procs,
         Service!Step(d)
  PROVE  Ordered' /\ \A c \in Procs : Sure(c)' /\ Paid(c)'
<1>1. Ordered'
  BY OrderedStep DEF ConvergeInv
<1>2. Service!Claim(d) \/ Service!Stop(d) => Service!End(d)
  BY DEF Service!Claim, Service!Stop
<1>3. Sure(d)' /\ Paid(d)'
  BY <1>2, OwnOutside, OwnDecide, OwnStart, OwnReload, OwnBridge, OwnEnds
     DEF Service!Step
<1>4. ASSUME NEW c \in Procs \ {d} PROVE Sure(c)' /\ Paid(c)'
  BY BesideOutside, BesideGoes, BesideEnds DEF Service!Step
<1> QED
  BY <1>1, <1>3, <1>4

LEMMA InitConverge ==
  Service!ServiceAssumption /\ Service!Init => ConvergeInv
<1> SUFFICES ASSUME Service!ServiceAssumption, Service!Init
             PROVE  ConvergeInv
  OBVIOUS
<1>1. ServiceInv
  BY InitService
<1>2. Ordered
  BY DEF Service!Init, Ordered
<1> SUFFICES ASSUME NEW c \in Procs PROVE Sure(c) /\ Paid(c)
  BY <1>1, <1>2 DEF ConvergeInv
<1>3. launch[c] = Service!Idle
  BY DEF Service!Init
<1>4. launch[c].pc = "idle" /\ launch[c].tries = 0 /\ ~launch[c].approved
  BY <1>3 DEF Service!Idle
<1>5. launch[c].pc \notin InLocks /\ launch[c].pc \notin Bridging
  BY <1>4, BridgeNames DEF InLocks
<1> QED
  BY <1>4, <1>5 DEF Sure, Paid, Engaged

LEMMA ConvergeStep ==
  ASSUME Service!ServiceAssumption, ConvergeInv,
         [Service!Next]_(Service!vars)
  PROVE  ConvergeInv'
<1>1. ServiceInv'
  BY ServiceStep DEF ConvergeInv
<1>2. CASE UNCHANGED Service!vars
  <2>1. UNCHANGED <<installed, cli, plist, owned, marker, app, bridge, launch,
                    setup, saved>>
    BY <1>2 DEF Service!vars
  <2>2. Ordered'
    BY <2>1 DEF ConvergeInv, Ordered
  <2> SUFFICES ASSUME NEW c \in Procs PROVE Sure(c)' /\ Paid(c)'
    BY <1>1, <2>2 DEF ConvergeInv
  <2>3. /\ ServiceTypes /\ Sure(c) /\ Paid(c) /\ Spared(c)
        /\ launch' = launch /\ (Cold => Poor)
    BY <2>1 DEF ConvergeInv, ServiceInv, Spared, Stays, Marked, Cold, Poor
  <2>4. /\ Live(c)' <=> Live(c)
        /\ Well(c)' <=> Well(c)
        /\ Cold' <=> Cold
        /\ Poor' <=> Poor
        /\ Passed(c)' <=> Passed(c)
    BY <2>1, Unchanging
  <2>5. Left(c)' <= Left(c)
    <3>1. /\ Others(c, Reloading)' <=> Others(c, Reloading)
          /\ Others(c, Bridging)' <=> Others(c, Bridging)
      BY <2>3, Around
    <3>2. Stays(c)
      BY <2>3 DEF Spared
    <3> QED
      BY <2>3, <2>4, <3>1, <3>2, LeftFalls
  <2>6. Engaged(c)' <=> Engaged(c)
    BY <2>3 DEF Engaged
  <2>7. Sure(c)'
    BY <2>1, <2>3, <2>4, <2>6 DEF Sure, Service!Attempts
  <2> QED
    BY <2>3, <2>5, <2>7, Affords
<1>3. CASE Service!Next
  <2>1. Ordered' /\ \A c \in Procs : Sure(c)' /\ Paid(c)'
    BY <1>3, StepPaid, AroundPaid, SetupPaid DEF Service!Next
  <2> QED
    BY <1>1, <2>1 DEF ConvergeInv
<1> QED
  BY <1>2, <1>3

LEMMA ConvergeInvariance ==
  Service!ServiceAssumption => (Service!Spec => []ConvergeInv)
<1> SUFFICES ASSUME Service!ServiceAssumption
             PROVE  Service!Spec => []ConvergeInv
  OBVIOUS
<1>1. Service!Init => ConvergeInv
  BY InitConverge
<1>2. ConvergeInv /\ [Service!Next]_(Service!vars) => ConvergeInv'
  BY ConvergeStep
<1> QED
  BY <1>1, <1>2, PTL DEF Service!Spec

\* Six attempts are used and none is left over: three were paid for.
LEMMA AtLeastThree == ConvergeInv => Service!Converges
<1> SUFFICES ASSUME ConvergeInv PROVE Service!Converges
  OBVIOUS
<1>1. ASSUME NEW c \in Procs, launch[c].pc # "idle", launch[c].tries = 6
      PROVE  launch[c].jolts = 3
  <2>1. launch[c].jolts \in 0..3
    BY DEF ConvergeInv, ServiceInv, ServiceTypes, LauncherStates
  <2>2. Left(c) \in 0..4
    BY LeftRange
  <2>3. launch[c].jolts < 3 => launch[c].tries + Left(c) <= 3 + launch[c].jolts
    BY <1>1 DEF ConvergeInv, Paid
  <2> QED
    BY <1>1, <2>1, <2>2, <2>3
<1>2. \A c \in Procs : launch[c].pc = "gave up" => launch[c].tries = 6
  BY DEF ConvergeInv, Sure, Service!Attempts
<1> QED
  BY <1>1, <1>2 DEF Service!Converges

-----------------------------------------------------------------------------
(* Setup.                                                                  *)

SetupWords == {"put", "take", "join", "unjoin", "unload", "manifest", "end"}
SetupSteps == [do : SetupWords, leaf : Leaves \cup {none}, val : Contents]
AllParts == {"config", "marker", "plist", "plugin", "skill"}
Records == [has : BOOLEAN, added : SUBSET AllParts, gen : 0..MaxGen]
Manifests == [Harnesses -> Records]
Disks == [Leaves -> Contents]
Starts == [disk : Disks, man : Manifests, joined : BOOLEAN, loaded : BOOLEAN]
Snaps == UNION {[S -> Contents] : S \in SUBSET Leaves}
SetupPlaces == {"idle", "ask", "plan", "snap", "write", "unpublish", "undo",
                "told"}
SetupFrames ==
  [pc : SetupPlaces, cmd : {"apply", "remove", none}, hs : SUBSET Harnesses,
   todo : Seq(SetupSteps), snap : {<<>>} \cup Snaps, new : Manifests,
   ext : BOOLEAN, undo : Seq(SetupSteps), start : {<<>>} \cup Starts,
   wrote : BOOLEAN, rolled : BOOLEAN]

SetupTypes ==
  /\ disk \in Disks /\ user \in Disks /\ man \in Manifests
  /\ joined \in BOOLEAN /\ loaded \in BOOLEAN
  /\ broken \in {"no", "reported", "killed"}
  /\ release \in Gens /\ drift \subseteq Leaves /\ edits \in 0..MaxEdits
  /\ pr \in [Procs -> SetupFrames]
  /\ \A c \in Procs : (lock = c) <=> pr[c].pc \notin {"idle", "ask"}

\* Where the user has taken nothing out he has no text but in settings files,
\* the definition and the marker are never his, and he never takes the marker.
Users ==
  \A l \in Leaves :
     /\ l[2] \in {"marker", "plist"} => user[l] = Empty
     /\ l[2] = "marker" => l \notin drift
     /\ l[2] # "config" /\ l \notin drift => user[l].text = 0

\* The files d hold what is the user's.
Keeps(d) == \A l \in Leaves : d[l].text = user[l].text
                              /\ user[l].gens \subseteq d[l].gens

\* The manifest m claims no piece of the user's.
GenOf(l, rec) == IF Follows(l) THEN rec.gen ELSE 1
Sound(m) ==
  /\ \A h \in Harnesses : m[h].added \subseteq Parts(h)
  /\ \A l \in Leaves : l[2] \in m[l[1]].added =>
       /\ m[l[1]].has /\ l[2] # "marker"
       /\ GenOf(l, m[l[1]]) \in Gens \ user[l].gens

\* At a leaf where the user has own, there are these pieces as the record says,
\* unless setup's is gone; and what the record does not claim is the user's.
ExactAt(l, own, gens, rec, gone) ==
  IF l[2] = "marker" THEN gens # {} => rec.has /\ gens = {rec.gen}
  ELSE gens = own.gens
         \cup (IF l[2] \in rec.added /\ ~gone THEN {GenOf(l, rec)} ELSE {})
ClaimedAt(l, own, rec, gone) ==
  rec.has /\ l[2] \notin rec.added /\ l[2] # "marker" =>
    gone \/ own.gens # {}
Wholly(d, m) ==
  \A l \in Leaves : /\ ExactAt(l, user[l], d[l].gens, m[l[1]], l \in drift)
                    /\ ClaimedAt(l, user[l], m[l[1]], l \in drift)

Changing == {"write", "unpublish", "undo"}
Calm == broken = "no" /\ (\A c \in Procs : pr[c].pc \notin Changing)
          => Wholly(disk, man)

\* What a step of the plan leaves at its leaf: the user's, and what the record
\* to publish says.
PutKeeps(s) == /\ s.leaf \in Leaves /\ s.val.text = user[s.leaf].text
               /\ user[s.leaf].gens \subseteq s.val.gens
               /\ s.leaf[2] # "config" => s.val.text = 0
TakeKeeps(s) == /\ s.leaf \in Leaves
                /\ IF s.leaf[2] = "config"
                   THEN Recorded(s.leaf) \notin user[s.leaf].gens
                   ELSE user[s.leaf] = Empty
PutExact(s, m) ==
  /\ ExactAt(s.leaf, user[s.leaf], s.val.gens, m[s.leaf[1]], FALSE)
  /\ ClaimedAt(s.leaf, user[s.leaf], m[s.leaf[1]], FALSE)
  /\ s.leaf \notin drift \/ ~man[s.leaf[1]].has
TakeExact(s, m) ==
  ExactAt(s.leaf, user[s.leaf],
          IF s.leaf[2] = "config" THEN disk[s.leaf].gens \ {Recorded(s.leaf)}
          ELSE {},
          m[s.leaf[1]], s.leaf \in drift)

Pending(t, l) == \E i \in DOMAIN t : Writing(t[i]) /\ t[i].leaf = l
Once(t) == \A i, j \in DOMAIN t :
             Writing(t[i]) /\ Writing(t[j]) /\ t[i].leaf = t[j].leaf => i = j

\* The steps t that are left lead to the manifest m.
LeadTo(t, m) ==
  \A l \in Leaves :
     /\ \/ Pending(t, l)
        \/ ExactAt(l, user[l], disk[l].gens, m[l[1]], l \in drift)
     /\ ClaimedAt(l, user[l], m[l[1]], l \in drift)
Planned(t, m) ==
  /\ Sound(m) /\ Once(t)
  /\ \A i \in DOMAIN t : /\ t[i].do = "put" => PutKeeps(t[i])
                         /\ t[i].do = "take" => TakeKeeps(t[i])
  /\ broken = "no" =>
       /\ \A i \in DOMAIN t : /\ t[i].do = "put" => PutExact(t[i], m)
                              /\ t[i].do = "take" => TakeExact(t[i], m)
       /\ LeadTo(t, m)

\* The manifest is published last.
Ending(t) == /\ t # <<>>
             /\ \A i \in DOMAIN t : /\ t[i].do = "end" <=> i = Len(t)
                                    /\ t[i].do = "manifest" <=> i = Len(t) - 1

\* What a rollback restores.
Started(f) ==
  /\ f.start \in Starts /\ Keeps(f.start.disk) /\ Sound(f.start.man)
  /\ f.snap \in Snaps
  /\ \A l \in DOMAIN f.snap : f.snap[l] = f.start.disk[l]
  /\ \A l \in Leaves \ DOMAIN f.snap : disk[l] = f.start.disk[l]
  /\ \A i \in DOMAIN f.undo : Writing(f.undo[i]) =>
                                f.undo[i].leaf \in DOMAIN f.snap
  /\ broken = "no" => Wholly(f.start.disk, f.start.man)
Back(f) == man = f.start.man /\ disk = f.start.disk

CommandInv(f) ==
  /\ f.pc = "snap" =>
       /\ Planned(f.todo, f.new)
       /\ \A i \in DOMAIN f.todo : f.todo[i].do \notin {"manifest", "end"}
  /\ f.pc = "write" =>
       /\ Planned(f.todo, f.new) /\ Ending(f.todo)
       /\ \A l \in Leaves : Pending(f.todo, l) => l \in DOMAIN f.snap
       /\ man = IF Len(f.todo) > 1 THEN f.start.man ELSE f.new
  /\ f.pc \in Changing \cup {"told"} => Started(f)
  /\ f.pc \in {"unpublish", "undo"} => f.wrote \/ Back(f)
  /\ f.pc = "told" => (~f.wrote \/ f.rolled => Back(f))

\* The frame f of a command that has done its first step.
Further(c, f) ==
  /\ f \in SetupFrames /\ f.pc = "write" /\ f.todo = Tail(pr[c].todo)
  /\ f.snap = pr[c].snap /\ f.new = pr[c].new
  /\ f.start = pr[c].start /\ f.undo = pr[c].undo

\* What the step s of c does to the leaves.
StepWrites(c, s) ==
  /\ \A k \in Leaves : ~Writing(s) \/ k # s.leaf =>
                         disk'[k] = disk[k] /\ (k \in drift' <=> k \in drift)
  /\ Writing(s) =>
       /\ s.leaf \in Leaves /\ disk'[s.leaf].text = user[s.leaf].text
       /\ user[s.leaf].gens \subseteq disk'[s.leaf].gens
       /\ s.leaf \in drift \ drift' =>
            /\ s.leaf[2] # "config" => user[s.leaf].text = 0
            /\ broken = "no" => ~man[s.leaf[1]].has
       /\ broken = "no" =>
            /\ ExactAt(s.leaf, user[s.leaf], disk'[s.leaf].gens,
                       pr[c].new[s.leaf[1]], s.leaf \in drift')
            /\ ClaimedAt(s.leaf, user[s.leaf],
                         pr[c].new[s.leaf[1]], s.leaf \in drift')

HarnessInv == /\ SetupTypes /\ Users /\ Keeps(disk) /\ Sound(man) /\ Calm
            /\ \A c \in Procs : CommandInv(pr[c])

-----------------------------------------------------------------------------
\* A leaf is a part of a harness.
LEMMA LeafParts ==
  /\ \A l \in Leaves : /\ l[1] \in Harnesses /\ l[2] \in AllParts
                       /\ l[2] \in Parts(l[1]) /\ l = <<l[1], l[2]>>
  /\ \A h \in Harnesses : /\ Parts(h) \subseteq AllParts
                          /\ \A p \in Parts(h) : <<h, p>> \in Leaves
<1>1. \A h \in Harnesses : Parts(h) \subseteq AllParts
  BY SetupAssumption DEF Parts, AllParts
<1>2. \A h \in Harnesses : \A p \in Parts(h) : <<h, p>> \in Leaves
  BY <1>1 DEF Leaves, AllParts
<1>3. \A l \in Leaves : /\ l[1] \in Harnesses /\ l[2] \in AllParts
                        /\ l[2] \in Parts(l[1]) /\ l = <<l[1], l[2]>>
  BY DEF Leaves, AllParts
<1> QED
  BY <1>1, <1>2, <1>3

\* Which harness has which parts.
LEMMA PartNames ==
  /\ \A h \in Harnesses : "config" \in Parts(h) /\ "skill" \in Parts(h)
  /\ \A h \in Harnesses : "marker" \in Parts(h) \/ "plist" \in Parts(h)
                            => h = "codex"
  /\ Parts("codex") = {"config", "marker", "plist", "skill"}
  /\ Parts("claude") = {"config", "skill"}
  /\ Parts("hermes") = {"config", "plugin", "skill"}
BY SetupAssumption DEF Parts

\* The values a leaf or a record starts with have their types.
LEMMA Values ==
  /\ Empty \in Contents /\ NoRecord \in Records /\ NoManifest \in Manifests
  /\ Empty.text = 0 /\ Empty.gens = {}
BY SetupAssumption DEF Empty, Contents, NoRecord, Records, NoManifest,
   Manifests

\* A command that has not begun is a frame like the others.
LEMMA IdleFrame == Idle \in SetupFrames /\ Idle.pc = "idle"
<1>1. <<>> \in Seq(SetupSteps)
  OBVIOUS
<1> QED
  BY <1>1, Values DEF Idle, SetupFrames, SetupPlaces

\* The invariant holds before the first command.
LEMMA InitSetup == Init => HarnessInv
<1> SUFFICES ASSUME Init PROVE HarnessInv
  OBVIOUS
<1>1. /\ disk = [l \in Leaves |-> Empty] /\ user = [l \in Leaves |-> Empty]
      /\ man = NoManifest /\ pr = [c \in Procs |-> Idle] /\ lock = none
      /\ broken = "no" /\ drift = {} /\ release = 1 /\ edits = 0
      /\ joined = FALSE /\ loaded = FALSE
  BY DEF Init
<1>2. \A c \in Procs : pr[c] = Idle /\ pr[c].pc = "idle"
  BY <1>1, IdleFrame
<1>3. SetupTypes
  <2>1. disk \in Disks /\ user \in Disks /\ man \in Manifests
    BY <1>1, Values DEF Disks
  <2>2. pr \in [Procs -> SetupFrames]
    BY <1>1, IdleFrame
  <2>3. release \in Gens /\ edits \in 0..MaxEdits
    BY <1>1, SetupAssumption DEF Gens
  <2>4. \A c \in Procs : (lock = c) <=> pr[c].pc \notin {"idle", "ask"}
    BY <1>1, <1>2, SetupAssumption
  <2> QED
    BY <1>1, <2>1, <2>2, <2>3, <2>4 DEF SetupTypes
<1>4. Users /\ Keeps(disk)
  BY <1>1, Values DEF Users, Keeps
<1>5. \A h \in Harnesses : man[h].added = {} /\ ~man[h].has
  BY <1>1 DEF NoManifest, NoRecord
<1>6. Sound(man)
  BY <1>5, LeafParts DEF Sound
<1>7. Calm
  BY <1>1, <1>5, LeafParts, Values DEF Calm, Wholly, ExactAt, ClaimedAt
<1>8. \A c \in Procs : CommandInv(pr[c])
  BY <1>2 DEF CommandInv, Changing
<1> QED
  BY <1>3, <1>4, <1>6, <1>7, <1>8 DEF HarnessInv

\* With the lock free no command is past its first checks.
LEMMA NoCommand ==
  ASSUME SetupTypes, lock = none
  PROVE  \A c \in Procs : pr[c].pc \in {"idle", "ask"}
BY SetupAssumption DEF SetupTypes

\* A command that has not planned owes nothing.
LEMMA NothingToShow ==
  ASSUME NEW f, f.pc \in {"idle", "ask", "plan"}
  PROVE  CommandInv(f) /\ CommandInv(f)'
BY DEF CommandInv, Changing

\* One leaf changes while the lock is free.
LEMMA LeafChanges ==
  ASSUME HarnessInv, lock = none, NEW l \in Leaves,
         NEW dv \in Contents, NEW uv \in Contents,
         disk' = [disk EXCEPT ![l] = dv], user' = [user EXCEPT ![l] = uv],
         man' = man, release' = release, pr' = pr, lock' = lock,
         broken' = broken, edits' \in 0..MaxEdits, joined' = joined,
         loaded' \in BOOLEAN,
         drift' = drift \/ drift' = drift \cup {l} \/ drift' = drift \ {l},
         uv.text = dv.text, uv.gens \subseteq dv.gens,
         l[2] \in {"marker", "plist"} => uv = Empty,
         l[2] # "config" /\ l \notin drift' => uv.text = 0,
         l[2] = "marker" => drift' = drift,
         l[2] \in man[l[1]].added => GenOf(l, man[l[1]]) \notin uv.gens,
         broken = "no" =>
           /\ ExactAt(l, uv, dv.gens, man[l[1]], l \in drift')
           /\ ClaimedAt(l, uv, man[l[1]], l \in drift')
  PROVE  HarnessInv'
<1>0. /\ SetupTypes /\ Users /\ Keeps(disk) /\ Sound(man) /\ Calm
      /\ disk \in Disks /\ user \in Disks
  BY DEF HarnessInv, SetupTypes
<1>1. \A c \in Procs : pr[c].pc \in {"idle", "ask"}
  BY <1>0, NoCommand
<1>2. /\ disk'[l] = dv /\ user'[l] = uv
      /\ \A k \in Leaves \ {l} : disk'[k] = disk[k] /\ user'[k] = user[k]
      /\ disk' \in Disks /\ user' \in Disks
  BY <1>0 DEF Disks
<1>3. \A k \in Leaves \ {l} : k \in drift' <=> k \in drift
  OBVIOUS
<1>4. SetupTypes'
  BY <1>0, <1>2 DEF SetupTypes
<1>5. Users'
  BY <1>0, <1>2, <1>3 DEF Users
<1>6. Keeps(disk)'
  BY <1>0, <1>2 DEF Keeps
<1>7. Sound(man)'
  BY <1>0, <1>2 DEF Sound
<1>8. Calm'
  <2> SUFFICES ASSUME broken = "no" PROVE Wholly(disk, man)'
    BY DEF Calm
  <2>1. Wholly(disk, man)
    BY <1>0, <1>1 DEF Calm, Changing
  <2> QED
    BY <1>2, <1>3, <2>1 DEF Wholly
<1>9. \A c \in Procs : CommandInv(pr[c])'
  BY <1>1, NothingToShow
<1> QED
  BY <1>4, <1>5, <1>6, <1>7, <1>8, <1>9 DEF HarnessInv

\* The user's changes.  The definition of Codex is not one of the pieces that
\* he may put there himself.
LEMMA UserInv ==
  ASSUME "plist" \notin OwnParts, HarnessInv, NEW l \in Leaves,
         EditText(l) \/ Obstruct(l) \/ PutPiece(l) \/ TakePiece(l)
  PROVE  HarnessInv'
<1>0. /\ SetupTypes /\ Users /\ Keeps(disk) /\ Sound(man) /\ Calm
      /\ disk \in Disks /\ user \in Disks /\ man \in Manifests
      /\ edits \in 0..MaxEdits /\ release \in Gens
  BY DEF HarnessInv, SetupTypes
<1>1. /\ lock = none /\ edits < MaxEdits /\ edits' = edits + 1
      /\ man' = man /\ release' = release /\ pr' = pr /\ lock' = lock
      /\ broken' = broken /\ joined' = joined /\ loaded' = loaded
  BY DEF EditText, Obstruct, PutPiece, TakePiece, UserChange, UserMay
<1>2. edits + 1 \in 0..MaxEdits /\ edits' \in 0..MaxEdits
  BY <1>0, <1>1, SetupAssumption
<1>3. loaded' \in BOOLEAN
  BY <1>0, <1>1 DEF SetupTypes
<1>4. /\ disk[l] \in Contents /\ user[l] \in Contents
      /\ disk[l].text = user[l].text /\ user[l].gens \subseteq disk[l].gens
      /\ l[2] \in man[l[1]].added =>
           GenOf(l, man[l[1]]) \in Gens \ user[l].gens
      /\ man[l[1]] \in Records
  BY <1>0, LeafParts DEF Disks, Keeps, Sound, Manifests
<1>5. broken = "no" =>
        /\ ExactAt(l, user[l], disk[l].gens, man[l[1]], l \in drift)
        /\ ClaimedAt(l, user[l], man[l[1]], l \in drift)
  <2>1. \A c \in Procs : pr[c].pc \in {"idle", "ask"}
    BY <1>0, <1>1, NoCommand
  <2> QED
    BY <1>0, <2>1 DEF Calm, Wholly, Changing
<1>6. CASE EditText(l)
  <2> DEFINE dv == [disk[l] EXCEPT !.text = edits + 1]
             uv == [user[l] EXCEPT !.text = edits + 1]
  <2>1. l[2] = "config" /\ disk' = [disk EXCEPT ![l] = dv]
        /\ user' = [user EXCEPT ![l] = uv] /\ drift' = drift
    BY <1>6 DEF EditText
  <2>2. /\ dv \in Contents /\ uv \in Contents
        /\ dv.text = uv.text /\ dv.gens = disk[l].gens
        /\ uv.gens = user[l].gens
    BY <1>2, <1>4 DEF Contents
  <2>3. broken = "no" =>
          /\ ExactAt(l, uv, dv.gens, man[l[1]], l \in drift')
          /\ ClaimedAt(l, uv, man[l[1]], l \in drift')
    BY <1>5, <2>1, <2>2 DEF ExactAt, ClaimedAt
  <2> HIDE DEF dv, uv
  <2> QED
    BY <1>1, <1>2, <1>3, <1>4, <2>1, <2>2, <2>3, LeafChanges
<1>7. CASE Obstruct(l)
  <2>1. PICK t \in {0, edits + 1} :
          /\ disk' = [disk EXCEPT ![l] = [text |-> t, gens |-> {}]]
          /\ user' = [user EXCEPT ![l] = [text |-> t, gens |-> {}]]
    BY <1>7 DEF Obstruct
  <2> DEFINE dv == [text |-> t, gens |-> {}]
  <2>2. /\ l[2] \in {"plugin", "skill"} /\ drift' = drift \cup {l}
        /\ l[2] # "marker"
    BY <1>7 DEF Obstruct
  <2>3. dv \in Contents /\ dv.gens = {}
    BY <1>2, SetupAssumption DEF Contents
  <2>4. /\ ExactAt(l, dv, dv.gens, man[l[1]], l \in drift')
        /\ ClaimedAt(l, dv, man[l[1]], l \in drift')
    BY <2>2, <2>3 DEF ExactAt, ClaimedAt
  <2>5. disk' = [disk EXCEPT ![l] = dv] /\ user' = [user EXCEPT ![l] = dv]
    BY <2>1
  <2> HIDE DEF dv
  <2> QED
    BY <1>1, <1>2, <1>3, <2>2, <2>3, <2>4, <2>5, LeafChanges
<1>8. CASE PutPiece(l)
  <2> DEFINE listed == l[2] \in man[l[1]].added
             g == IF listed THEN Recorded(l) ELSE Want(l)
             dv == [disk[l] EXCEPT !.gens = {g}]
             uv == IF listed THEN user[l] ELSE [user[l] EXCEPT !.gens = {g}]
  <2>1. /\ l[2] \in OwnParts /\ disk[l].gens = {}
        /\ l[2] # "config" => disk[l].text = 0
        /\ drift' = drift \ {l}
        /\ disk' = [disk EXCEPT ![l] = dv]
    BY <1>8 DEF PutPiece
  <2>2. user' = [user EXCEPT ![l] = uv]
    BY <1>0, <1>8 DEF PutPiece, Disks
  <2>3. l[2] \notin {"marker", "plist"}
    BY <2>1, SetupAssumption
  <2>4. user[l].gens = {}
    BY <1>4, <2>1
  <2>5. g \in Gens
    <3>1. Want(l) \in Gens
      BY <1>0, SetupAssumption DEF Want, Gens
    <3>2. listed => Recorded(l) \in Gens
      BY <1>4 DEF Recorded, GenOf
    <3> QED
      BY <3>1, <3>2
  <2>6. /\ dv \in Contents /\ uv \in Contents /\ dv.gens = {g}
        /\ dv.text = disk[l].text /\ uv.text = user[l].text
        /\ uv.gens = IF listed THEN {} ELSE {g}
    BY <1>4, <2>4, <2>5 DEF Contents
  <2>7. l \notin drift'
    BY <2>1
  <2>8. listed => g = GenOf(l, man[l[1]])
    BY DEF Recorded, GenOf
  <2>9. /\ ExactAt(l, uv, dv.gens, man[l[1]], l \in drift')
        /\ ClaimedAt(l, uv, man[l[1]], l \in drift')
    <3> HIDE DEF g, dv, uv
    <3> QED
      BY <2>3, <2>6, <2>7, <2>8 DEF ExactAt, ClaimedAt
  <2> HIDE DEF g, dv, uv
  <2> QED
    BY <1>1, <1>2, <1>3, <1>4, <2>1, <2>2, <2>3, <2>6, <2>9, LeafChanges
<1>9. CASE TakePiece(l)
  <2> DEFINE dv == [disk[l] EXCEPT !.gens = {}]
             uv == [user[l] EXCEPT !.gens = {}]
  <2>1. /\ l[2] # "marker" /\ drift' = drift \cup {l}
        /\ disk' = [disk EXCEPT ![l] = dv]
        /\ user' = [user EXCEPT ![l] = uv]
    BY <1>0, <1>9 DEF TakePiece, Disks
  <2>2. /\ dv \in Contents /\ uv \in Contents /\ dv.text = uv.text
        /\ dv.gens = {} /\ uv.gens = {}
    BY <1>4 DEF Contents
  <2>3. l[2] \in {"marker", "plist"} => uv = Empty
    <3>1. [Empty EXCEPT !.gens = {}] = Empty
      BY DEF Empty
    <3> QED
      BY <1>0, <3>1 DEF Users
  <2>4. /\ ExactAt(l, uv, dv.gens, man[l[1]], l \in drift')
        /\ ClaimedAt(l, uv, man[l[1]], l \in drift')
    <3> HIDE DEF dv, uv
    <3> QED
      BY <2>1, <2>2 DEF ExactAt, ClaimedAt
  <2> HIDE DEF dv, uv
  <2> QED
    BY <1>1, <1>2, <1>3, <1>4, <2>1, <2>2, <2>3, <2>4, LeafChanges
<1> QED
  BY <1>6, <1>7, <1>8, <1>9

\* A new release changes no file and no record.
LEMMA UpgradeInv == ASSUME HarnessInv, Upgrade PROVE HarnessInv'
<1>0. /\ SetupTypes /\ Users /\ Keeps(disk) /\ Sound(man) /\ Calm
  BY DEF HarnessInv
<1>1. /\ lock = none /\ release < MaxGen /\ release' = release + 1
      /\ UNCHANGED <<disk, man, joined, loaded, lock, pr, faults, edits, user,
                     drift, broken>>
  BY DEF Upgrade
<1>2. release' \in Gens
  BY <1>0, <1>1, SetupAssumption DEF SetupTypes, Gens
<1>3. SetupTypes'
  BY <1>0, <1>1, <1>2 DEF SetupTypes
<1>4. (Users /\ Keeps(disk) /\ Sound(man) /\ Calm)'
  BY <1>0, <1>1 DEF Users, Keeps, Sound, Calm, Wholly
<1>5. \A c \in Procs : CommandInv(pr[c])'
  BY <1>0, <1>1, NoCommand, NothingToShow
<1> QED
  BY <1>3, <1>4, <1>5 DEF HarnessInv

\* A launch clears the marker and nothing else.
LEMMA LaunchInv == ASSUME HarnessInv, Launch PROVE HarnessInv'
<1>0. /\ SetupTypes /\ Users /\ Keeps(disk) /\ Sound(man)
      /\ edits \in 0..MaxEdits /\ user \in Disks
  BY DEF HarnessInv, SetupTypes
<1> DEFINE l == <<"codex", "marker">>
<1>1. /\ lock = none /\ loaded' = TRUE /\ "codex" \in Harnesses
      /\ disk' = [disk EXCEPT ![l] = Empty]
      /\ UNCHANGED <<man, joined, release, lock, pr, faults, edits, user,
                     drift, broken>>
  BY DEF Launch
<1>2. l \in Leaves /\ l[2] = "marker"
  BY <1>1, LeafParts, PartNames
<1>3. user[l] = Empty
  BY <1>0, <1>2 DEF Users
<1>4. user' = [user EXCEPT ![l] = Empty]
  BY <1>0, <1>1, <1>3 DEF Disks
<1>5. l[2] \notin man[l[1]].added
  BY <1>0, <1>2 DEF Sound
<1>6. /\ ExactAt(l, Empty, Empty.gens, man[l[1]], l \in drift')
      /\ ClaimedAt(l, Empty, man[l[1]], l \in drift')
  BY <1>2, Values DEF ExactAt, ClaimedAt
<1> HIDE DEF l
<1> QED
  BY <1>0, <1>1, <1>2, <1>4, <1>5, <1>6, Values, LeafChanges

\* What holds of a command's frame is about the files, the records, the
\* user's pieces and the reports.
LEMMA PlannedSame ==
  ASSUME NEW t, NEW m, Planned(t, m),
         UNCHANGED <<disk, man, user, drift, broken>>
  PROVE  Planned(t, m)'
<1>1. \A l : Recorded(l)' = Recorded(l)
  BY DEF Recorded
<1>2. /\ Sound(m)'
      /\ Once(t)
      /\ \A i \in DOMAIN t : /\ t[i].do = "put" => PutKeeps(t[i])'
                             /\ t[i].do = "take" => TakeKeeps(t[i])'
  BY <1>1 DEF Planned, Sound, PutKeeps, TakeKeeps
<1>3. broken' = "no" => LeadTo(t, m)'
  BY DEF Planned, LeadTo
<1>4. broken' = "no" => \A i \in DOMAIN t : t[i].do = "put"
                                              => PutExact(t[i], m)'
  BY DEF Planned, PutExact
<1>5. broken' = "no" => \A i \in DOMAIN t : t[i].do = "take"
                                              => TakeExact(t[i], m)'
  BY <1>1 DEF Planned, TakeExact
<1> QED
  BY <1>2, <1>3, <1>4, <1>5 DEF Planned

\* What a rollback is owed does not change with the report.
LEMMA StartedSame ==
  ASSUME NEW f, NEW g, Started(g), f.start = g.start, f.snap = g.snap,
         f.undo = g.undo, UNCHANGED <<disk, user, drift>>,
         broken' = "no" => broken = "no"
  PROVE  Started(f)'
<1>1. /\ f.start \in Starts /\ f.snap \in Snaps
      /\ \A l \in DOMAIN f.snap : f.snap[l] = f.start.disk[l]
      /\ \A l \in Leaves \ DOMAIN f.snap : disk'[l] = f.start.disk[l]
      /\ \A i \in DOMAIN f.undo : Writing(f.undo[i]) =>
                                    f.undo[i].leaf \in DOMAIN f.snap
      /\ Keeps(f.start.disk) /\ Sound(f.start.man)
      /\ broken' = "no" => Wholly(f.start.disk, f.start.man)
  BY DEF Started
<1>2. Keeps(f.start.disk)' /\ Sound(f.start.man)'
  BY <1>1 DEF Keeps, Sound
<1>3. broken' = "no" => Wholly(f.start.disk, f.start.man)'
  BY <1>1 DEF Wholly
<1> QED
  BY <1>1, <1>2, <1>3 DEF Started

\* So a command's account does not change when they do not.
LEMMA CommandSame ==
  ASSUME NEW f, CommandInv(f), UNCHANGED <<disk, man, user, drift, broken>>
  PROVE  CommandInv(f)'
<1>1. Planned(f.todo, f.new) => Planned(f.todo, f.new)'
  BY PlannedSame
<1>2. Started(f) => Started(f)'
  BY StartedSame
<1>3. Back(f) => Back(f)'
  BY DEF Back
<1>4. (f.pc = "snap" => /\ Planned(f.todo, f.new)
                       /\ \A i \in DOMAIN f.todo :
                            f.todo[i].do \notin {"manifest", "end"})'
  BY <1>1 DEF CommandInv
<1>5. f.pc = "write" =>
        /\ Planned(f.todo, f.new)' /\ Ending(f.todo)
        /\ \A l \in Leaves : Pending(f.todo, l) => l \in DOMAIN f.snap
        /\ man' = IF Len(f.todo) > 1 THEN f.start.man ELSE f.new
  BY <1>1 DEF CommandInv
<1>6. /\ f.pc \in Changing \cup {"told"} => Started(f)'
      /\ f.pc \in {"unpublish", "undo"} => f.wrote \/ Back(f)'
      /\ f.pc = "told" => (~f.wrote \/ f.rolled => Back(f)')
  BY <1>2, <1>3 DEF CommandInv
<1> QED
  BY <1>4, <1>5, <1>6 DEF CommandInv

\* One command moves and holds the lock, or it had it and lets it go.
LEMMA CommandFrame ==
  ASSUME HarnessInv, NEW c \in Procs, NEW f \in SetupFrames, lock = c,
         pr' = [pr EXCEPT ![c] = f],
         lock' = IF f.pc \in {"idle", "ask"} THEN none ELSE c,
         UNCHANGED <<release, edits, user>>,
         disk' \in Disks, man' \in Manifests, joined' \in BOOLEAN,
         loaded' \in BOOLEAN, broken' \in {"no", "reported", "killed"},
         drift' \subseteq drift,
         \A l \in drift \ drift' : l[2] # "config" => user[l].text = 0,
         Keeps(disk)', Sound(man)', CommandInv(f)',
         \/ f.pc \in Changing
         \/ broken' # "no"
         \/ Wholly(disk, man)'
  PROVE  HarnessInv'
<1>0. SetupTypes /\ Users
  BY DEF HarnessInv
<1>1. /\ pr' \in [Procs -> SetupFrames] /\ pr'[c] = f
      /\ \A d \in Procs \ {c} : pr'[d] = pr[d] /\ pr[d].pc \in {"idle", "ask"}
  BY <1>0 DEF SetupTypes
<1>2. \A d \in Procs : (lock' = d) <=> pr'[d].pc \notin {"idle", "ask"}
  BY <1>1, SetupAssumption
<1>3. SetupTypes'
  BY <1>0, <1>1, <1>2 DEF SetupTypes
<1>4. Users'
  BY <1>0 DEF Users
<1>5. Calm'
  BY <1>1 DEF Calm
<1>6. \A d \in Procs : CommandInv(pr[d])'
  <2>1. CommandInv(pr[c])'
    BY <1>1
  <2>2. ASSUME NEW d \in Procs \ {c} PROVE CommandInv(pr[d])'
    BY <1>1, NothingToShow
  <2> QED
    BY <2>1, <2>2
<1> QED
  BY <1>3, <1>4, <1>5, <1>6 DEF HarnessInv

\* A command that does not hold the lock asks or goes away.
LEMMA OutsideFrame ==
  ASSUME HarnessInv, NEW c \in Procs, NEW f \in SetupFrames, lock # c,
         pr' = [pr EXCEPT ![c] = f], f.pc \in {"idle", "ask"},
         UNCHANGED <<disk, man, joined, loaded, release, lock, edits, user,
                     drift, broken>>
  PROVE  HarnessInv'
<1>0. SetupTypes /\ Users /\ Keeps(disk) /\ Sound(man) /\ Calm
      /\ \A d \in Procs : CommandInv(pr[d])
  BY DEF HarnessInv
<1>1. /\ pr' \in [Procs -> SetupFrames] /\ pr'[c] = f
      /\ \A d \in Procs \ {c} : pr'[d] = pr[d]
      /\ pr[c].pc \in {"idle", "ask"}
  BY <1>0 DEF SetupTypes
<1>2. SetupTypes'
  BY <1>0, <1>1 DEF SetupTypes
<1>3. (Users /\ Keeps(disk) /\ Sound(man))'
  BY <1>0 DEF Users, Keeps, Sound
<1>4. Calm'
  BY <1>0, <1>1 DEF Calm, Wholly, Changing
<1>5. \A d \in Procs : CommandInv(pr[d])'
  <2>1. CommandInv(pr[c])'
    BY <1>1, NothingToShow
  <2>2. ASSUME NEW d \in Procs \ {c} PROVE CommandInv(pr[d])'
    BY <1>0, <1>1, CommandSame
  <2> QED
    BY <2>1, <2>2
<1> QED
  BY <1>2, <1>3, <1>4, <1>5 DEF HarnessInv

\* With nobody writing, and nothing left behind, the files are as the manifest
\* says.
LEMMA QuietWhole ==
  ASSUME HarnessInv, NEW c \in Procs, lock = c, pr[c].pc \notin Changing
  PROVE  broken # "no" \/ Wholly(disk, man)
BY DEF HarnessInv, SetupTypes, Calm, Changing

\* The checks before the lock change nothing.
LEMMA AskInv == ASSUME HarnessInv, NEW c \in Procs, Ask(c) PROVE HarnessInv'
<1>1. /\ pr[c].pc = "idle"
      /\ UNCHANGED <<disk, man, joined, loaded, lock, faults, drift, broken,
                     release, edits, user>>
  BY DEF Ask, Outside
<1>2. PICK cmd \in {"apply", "remove"}, hs \in SUBSET Harnesses :
        pr' = [pr EXCEPT ![c] = [Idle EXCEPT !.pc = "ask", !.cmd = cmd,
                                             !.hs = hs]]
  BY DEF Ask
<1> DEFINE f == [Idle EXCEPT !.pc = "ask", !.cmd = cmd, !.hs = hs]
<1>3. f \in SetupFrames /\ f.pc = "ask"
  BY IdleFrame DEF SetupFrames, SetupPlaces
<1>4. lock # c
  BY <1>1 DEF HarnessInv, SetupTypes
<1> HIDE DEF f
<1> QED
  BY <1>1, <1>2, <1>3, <1>4, OutsideFrame DEF f

\* Taking the lock changes nothing else.
LEMMA AcquireInv ==
  ASSUME HarnessInv, NEW c \in Procs, Acquire(c) PROVE HarnessInv'
<1>0. SetupTypes /\ Users /\ Keeps(disk) /\ Sound(man) /\ Calm
  BY DEF HarnessInv
<1> DEFINE f == [pr[c] EXCEPT !.pc = "plan"]
<1>1. /\ lock = none /\ lock' = c /\ pr' = [pr EXCEPT ![c] = f]
      /\ UNCHANGED <<disk, man, joined, loaded, faults, drift, broken,
                     release, edits, user>>
  BY <1>0 DEF Acquire, Outside, SetupTypes
<1>2. f \in SetupFrames /\ f.pc = "plan"
  <2>1. pr[c] \in SetupFrames
    BY <1>0 DEF SetupTypes
  <2> QED
    BY <2>1 DEF SetupFrames, SetupPlaces
<1> HIDE DEF f
<1>3. /\ pr' \in [Procs -> SetupFrames] /\ pr'[c] = f
      /\ \A d \in Procs : pr[d].pc \in {"idle", "ask"}
      /\ \A d \in Procs \ {c} : pr'[d] = pr[d]
  BY <1>0, <1>1, <1>2, NoCommand DEF SetupTypes
<1>4. SetupTypes'
  BY <1>0, <1>1, <1>2, <1>3 DEF SetupTypes
<1>5. (Users /\ Keeps(disk) /\ Sound(man))'
  BY <1>0, <1>1 DEF Users, Keeps, Sound
<1>6. Calm'
  BY <1>0, <1>1, <1>3 DEF Calm, Wholly, Changing
<1>7. \A d \in Procs : CommandInv(pr[d])'
  BY <1>2, <1>3, NothingToShow
<1> QED
  BY <1>4, <1>5, <1>6, <1>7 DEF HarnessInv

\* A command that lets the lock go leaves the files as the manifest says, or
\* leaves word.
LEMMA LetGo ==
  ASSUME HarnessInv, NEW c \in Procs, lock = c, Release(c),
         UNCHANGED <<disk, man, joined, loaded, drift, release, edits, user>>,
         broken' \in {"no", "reported", "killed"},
         broken' # "no" \/ Wholly(disk, man)
  PROVE  HarnessInv'
<1>0. SetupTypes /\ Keeps(disk) /\ Sound(man)
  BY DEF HarnessInv
<1>1. pr' = [pr EXCEPT ![c] = Idle] /\ lock' = none
  BY DEF Release
<1>2. Keeps(disk)' /\ Sound(man)' /\ (Wholly(disk, man) => Wholly(disk, man)')
  BY <1>0 DEF Keeps, Sound, Wholly
<1>3. CommandInv(Idle)'
  BY IdleFrame, NothingToShow
<1>4. /\ disk' \in Disks /\ man' \in Manifests /\ joined' \in BOOLEAN
      /\ loaded' \in BOOLEAN
  BY <1>0 DEF SetupTypes
<1> QED
  BY <1>1, <1>2, <1>3, <1>4, IdleFrame, CommandFrame

\* A command that is refused, or that has told its failure, lets go.
LEMMA RefuseInv ==
  ASSUME HarnessInv, NEW c \in Procs, Refuse(c) \/ GiveUp(c) PROVE HarnessInv'
<1>1. /\ lock = c /\ pr[c].pc \in {"plan", "told"} /\ Release(c)
      /\ UNCHANGED <<disk, man, joined, loaded, faults, drift, broken,
                     release, edits, user>>
  BY DEF Refuse, GiveUp, Holds, Outside
<1>2. broken # "no" \/ Wholly(disk, man)
  BY <1>1, QuietWhole DEF Changing
<1>3. broken' \in {"no", "reported", "killed"}
  BY <1>1 DEF HarnessInv, SetupTypes
<1> QED
  BY <1>1, <1>2, <1>3, LetGo

\* A command is killed: before it wrote, everything is as it was; while it
\* wrote, the report says so.
LEMMA KillInv == ASSUME HarnessInv, NEW c \in Procs, Kill(c) PROVE HarnessInv'
<1>1. /\ pr[c].pc \notin {"idle", "told"} /\ Release(c)
      /\ broken' = IF pr[c].pc \in Changing THEN "killed" ELSE broken
      /\ UNCHANGED <<disk, man, joined, loaded, drift, release, edits, user>>
  BY DEF Kill, Outside, Changing
<1>2. broken' \in {"no", "reported", "killed"}
  BY <1>1 DEF HarnessInv, SetupTypes
<1>3. CASE lock = c
  <2>1. broken' # "no" \/ Wholly(disk, man)
    BY <1>1, <1>3, QuietWhole
  <2> QED
    BY <1>1, <1>2, <1>3, <2>1, LetGo
<1>4. CASE lock # c
  <2>1. pr[c].pc = "ask"
    BY <1>1, <1>4 DEF HarnessInv, SetupTypes
  <2>2. broken' = broken /\ lock' = lock /\ pr' = [pr EXCEPT ![c] = Idle]
    BY <1>1, <1>4, <2>1 DEF Release, Changing
  <2> QED
    BY <1>1, <1>4, <2>2, IdleFrame, OutsideFrame
<1> QED
  BY <1>3, <1>4

\* A command past its plan, and what it will put back.
LEMMA Holder ==
  ASSUME HarnessInv, NEW c \in Procs, lock = c
  PROVE  /\ pr[c] \in SetupFrames /\ CommandInv(pr[c])
         /\ disk \in Disks /\ user \in Disks /\ man \in Manifests
         /\ joined \in BOOLEAN /\ loaded \in BOOLEAN
         /\ broken \in {"no", "reported", "killed"}
         /\ Keeps(disk) /\ Sound(man) /\ Users
BY DEF HarnessInv, SetupTypes

\* A rollback touches the files, the manifest and the report.
LEMMA RollbackFrame ==
  ASSUME HarnessInv, NEW c \in Procs, lock = c,
         NEW f \in SetupFrames, pr' = [pr EXCEPT ![c] = f],
         f.pc \in {"unpublish", "undo", "told"}, lock' = lock,
         UNCHANGED <<release, edits, user, drift, joined, loaded>>,
         disk' \in Disks, man' \in Manifests, Keeps(disk)', Sound(man)',
         broken' \in {"no", "reported", "killed"},
         Started(f)', f.wrote \/ Back(f)',
         f.pc = "told" =>
           /\ ~f.wrote \/ f.rolled => Back(f)'
           /\ broken' # "no" \/ Wholly(disk, man)'
  PROVE  HarnessInv'
<1>1. CommandInv(f)'
  BY DEF CommandInv, Changing
<1>2. lock' = IF f.pc \in {"idle", "ask"} THEN none ELSE c
  OBVIOUS
<1>3. f.pc \in Changing \/ broken' # "no" \/ Wholly(disk, man)'
  BY DEF Changing
<1>4. joined' \in BOOLEAN /\ loaded' \in BOOLEAN
  BY Holder
<1> QED
  BY <1>1, <1>2, <1>3, <1>4, CommandFrame

\* What is as the snapshots say is as it was.
LEMMA RestoredBack ==
  ASSUME NEW c \in Procs, disk \in Disks, Started(pr[c]), Restored(c)
  PROVE  Back(pr[c])
<1>1. pr[c].start.disk \in Disks
  BY DEF Started, Starts
<1>2. \A l \in Leaves : disk[l] = pr[c].start.disk[l]
  BY DEF Started, Restored, Same
<1> QED
  BY <1>1, <1>2 DEF Back, Restored, Disks

\* A step fails: what a rollback is owed is known from the snapshots.
LEMMA FailedInv == ASSUME HarnessInv, NEW c \in Procs, Fail(c) PROVE HarnessInv'
<1>1. /\ lock = c /\ pr[c].pc = "write" /\ lock' = lock
      /\ UNCHANGED <<disk, man, joined, loaded, drift, broken, release, edits,
                     user>>
  BY DEF Fail, Holds, Outside
<1>0. /\ pr[c] \in SetupFrames /\ Started(pr[c])
      /\ pr \in [Procs -> SetupFrames]
      /\ disk \in Disks /\ user \in Disks /\ man \in Manifests
      /\ broken \in {"no", "reported", "killed"} /\ Keeps(disk) /\ Sound(man)
  BY <1>1, Holder DEF CommandInv, Changing, HarnessInv, SetupTypes
<1> DEFINE w == ~Restored(c)
           e == pr[c].ext \/ (Doing(c, "unload") /\ loaded)
<1>f. PICK f : f = [pr[c] EXCEPT !.pc = "unpublish", !.wrote = w, !.ext = e]
  OBVIOUS
<1>2. pr' = [pr EXCEPT ![c] = f]
  BY <1>0, <1>f DEF Fail, SetupFrames
<1>3. w \in BOOLEAN /\ e \in BOOLEAN
  OBVIOUS
<1>4. /\ f \in SetupFrames /\ f.pc = "unpublish" /\ f.wrote = w
      /\ f.start = pr[c].start /\ f.snap = pr[c].snap /\ f.undo = pr[c].undo
  <2> HIDE DEF w, e
  <2> QED
    BY <1>0, <1>f, <1>3 DEF SetupFrames, SetupPlaces
<1>5. w \/ Back(pr[c])
  BY <1>0, RestoredBack
<1> HIDE DEF w, e
<1>6. Started(f)'
  BY <1>0, <1>1, <1>4, StartedSame
<1>7. f.wrote \/ Back(f)'
  BY <1>1, <1>4, <1>5 DEF Back
<1>8. Keeps(disk)' /\ Sound(man)'
  BY <1>0, <1>1 DEF Keeps, Sound
<1> QED
  BY <1>0, <1>1, <1>2, <1>4, <1>6, <1>7, <1>8, RollbackFrame

\* The manifest is restored first, or cannot be.
LEMMA UnpublishInv ==
  ASSUME HarnessInv, NEW c \in Procs, Restore(c), pr[c].pc = "unpublish"
  PROVE  HarnessInv'
<1>1. /\ lock = c /\ lock' = lock /\ man' \in {man, pr[c].start.man}
      /\ pr' = [pr EXCEPT ![c].pc = "undo"]
      /\ UNCHANGED <<disk, joined, loaded, drift, broken, release, edits,
                     user>>
  BY DEF Restore, Holds, Outside
<1>0. /\ pr[c] \in SetupFrames /\ Started(pr[c])
      /\ pr \in [Procs -> SetupFrames]
      /\ disk \in Disks /\ user \in Disks /\ man \in Manifests
      /\ broken \in {"no", "reported", "killed"} /\ Keeps(disk) /\ Sound(man)
      /\ pr[c].wrote \/ Back(pr[c])
  BY <1>1, Holder DEF CommandInv, Changing, HarnessInv, SetupTypes
<1>f. PICK f : f = [pr[c] EXCEPT !.pc = "undo"]
  OBVIOUS
<1>2. pr' = [pr EXCEPT ![c] = f]
  BY <1>0, <1>1, <1>f
<1>4. /\ f \in SetupFrames /\ f.pc = "undo" /\ f.wrote = pr[c].wrote
      /\ f.start = pr[c].start /\ f.snap = pr[c].snap /\ f.undo = pr[c].undo
  BY <1>0, <1>f DEF SetupFrames, SetupPlaces
<1>5. man' \in Manifests /\ Sound(man)'
  BY <1>0, <1>1 DEF Started, Starts, Sound
<1>6. Started(f)'
  BY <1>0, <1>1, <1>4, StartedSame
<1>7. f.wrote \/ Back(f)'
  BY <1>0, <1>1, <1>4 DEF Back
<1>8. Keeps(disk)'
  BY <1>0, <1>1 DEF Keeps
<1> QED
  BY <1>0, <1>1, <1>2, <1>4, <1>5, <1>6, <1>7, <1>8, RollbackFrame

\* One leaf is restored, or cannot be.
LEMMA UndoInv ==
  ASSUME HarnessInv, NEW c \in Procs, Restore(c), pr[c].pc = "undo"
  PROVE  HarnessInv'
<1> DEFINE s == Last(pr[c].undo)
<1>1. /\ lock = c /\ lock' = lock /\ pr[c].undo # <<>>
      /\ disk' = disk \/ (Writing(s)
             /\ disk' = [disk EXCEPT ![s.leaf] = pr[c].snap[s.leaf]])
      /\ pr' = [pr EXCEPT ![c].undo = Front(@)]
      /\ UNCHANGED <<man, joined, loaded, drift, broken, release, edits,
                     user>>
  BY DEF Restore, Holds, Outside
<1>0. /\ pr[c] \in SetupFrames /\ Started(pr[c])
      /\ pr \in [Procs -> SetupFrames]
      /\ disk \in Disks /\ user \in Disks /\ man \in Manifests
      /\ broken \in {"no", "reported", "killed"} /\ Keeps(disk) /\ Sound(man)
      /\ pr[c].wrote \/ Back(pr[c])
  BY <1>1, Holder DEF CommandInv, Changing, HarnessInv, SetupTypes
<1>u. /\ pr[c].undo \in Seq(SetupSteps) /\ Front(pr[c].undo) \in Seq(SetupSteps)
      /\ Len(pr[c].undo) \in DOMAIN pr[c].undo
      /\ s = pr[c].undo[Len(pr[c].undo)]
      /\ \A i \in DOMAIN Front(pr[c].undo) :
           i \in DOMAIN pr[c].undo /\ Front(pr[c].undo)[i] = pr[c].undo[i]
  <2>1. pr[c].undo \in Seq(SetupSteps)
    BY <1>0 DEF SetupFrames
  <2> QED
    BY <1>1, <2>1 DEF Front, Last
<1>f. PICK f : f = [pr[c] EXCEPT !.undo = Front(@)]
  OBVIOUS
<1>2. pr' = [pr EXCEPT ![c] = f]
  BY <1>0, <1>1, <1>f
<1>4. /\ f \in SetupFrames /\ f.pc = "undo" /\ f.wrote = pr[c].wrote
      /\ f.start = pr[c].start /\ f.snap = pr[c].snap
      /\ f.undo = Front(pr[c].undo)
  BY <1>0, <1>f, <1>u DEF SetupFrames, SetupPlaces
<1>5. /\ disk' \in Disks
      /\ \A l \in Leaves : disk'[l] \in {disk[l], pr[c].start.disk[l]}
      /\ \A l \in Leaves \ DOMAIN pr[c].snap : disk'[l] = disk[l]
  <2>1. Writing(s) => s.leaf \in DOMAIN pr[c].snap
    BY <1>0, <1>u DEF Started
  <2>2. /\ DOMAIN pr[c].snap \subseteq Leaves /\ pr[c].start.disk \in Disks
        /\ \A l \in DOMAIN pr[c].snap : pr[c].snap[l] = pr[c].start.disk[l]
    BY <1>0 DEF Started, Snaps, Starts
  <2> HIDE DEF s
  <2> QED
    BY <1>0, <1>1, <2>1, <2>2 DEF Disks
<1>6. Started(f)'
  <2>1. \A l \in Leaves \ DOMAIN f.snap : disk'[l] = f.start.disk[l]
    BY <1>0, <1>4, <1>5 DEF Started
  <2>2. \A i \in DOMAIN f.undo :
          Writing(f.undo[i]) => f.undo[i].leaf \in DOMAIN f.snap
    BY <1>0, <1>4, <1>u DEF Started
  <2>3. /\ Keeps(f.start.disk)' /\ Sound(f.start.man)'
        /\ broken = "no" => Wholly(f.start.disk, f.start.man)'
    <3>1. /\ Keeps(f.start.disk) /\ Sound(f.start.man)
          /\ broken = "no" => Wholly(f.start.disk, f.start.man)
      BY <1>0, <1>4 DEF Started
    <3> QED
      BY <1>1, <3>1 DEF Keeps, Sound, Wholly
  <2>4. /\ f.start \in Starts /\ f.snap \in Snaps
        /\ \A l \in DOMAIN f.snap : f.snap[l] = f.start.disk[l]
    BY <1>0, <1>4 DEF Started
  <2> QED
    BY <1>1, <2>1, <2>2, <2>3, <2>4 DEF Started
<1>7. f.wrote \/ Back(f)'
  <2>1. Back(pr[c]) => \A l \in Leaves : disk'[l] = disk[l]
    BY <1>5 DEF Back
  <2>2. Back(pr[c]) => disk' = disk
    BY <1>0, <1>5, <2>1 DEF Disks
  <2>3. Back(pr[c]) => Back(f)'
    BY <1>1, <1>4, <2>2 DEF Back
  <2> QED
    BY <1>0, <1>4, <2>3
<1>8. Keeps(disk)' /\ Sound(man)'
  <2>1. Keeps(pr[c].start.disk)
    BY <1>0 DEF Started
  <2>2. Keeps(disk)'
    BY <1>0, <1>1, <1>5, <2>1 DEF Keeps
  <2>3. Sound(man)'
    BY <1>0, <1>1 DEF Sound
  <2> QED
    BY <2>2, <2>3
<1> QED
  BY <1>0, <1>1, <1>2, <1>4, <1>5, <1>6, <1>7, <1>8, RollbackFrame

\* What a rollback says is what it has done.
LEMMA TellInv == ASSUME HarnessInv, NEW c \in Procs, Tell(c) PROVE HarnessInv'
<1>1. /\ lock = c /\ pr[c].pc = "undo" /\ lock' = lock
      /\ broken' = IF Restored(c) THEN broken ELSE "reported"
      /\ UNCHANGED <<disk, man, joined, loaded, drift, release, edits, user>>
  BY DEF Tell, Holds, Outside
<1>0. /\ pr[c] \in SetupFrames /\ Started(pr[c])
      /\ pr \in [Procs -> SetupFrames]
      /\ disk \in Disks /\ user \in Disks /\ man \in Manifests
      /\ broken \in {"no", "reported", "killed"} /\ Keeps(disk) /\ Sound(man)
      /\ pr[c].wrote \/ Back(pr[c])
  BY <1>1, Holder DEF CommandInv, Changing, HarnessInv, SetupTypes
<1> DEFINE w == pr[c].wrote \/ (pr[c].cmd = "remove" /\ pr[c].ext)
           r == /\ w /\ Restored(c)
                /\ ~(pr[c].cmd = "remove" /\ pr[c].ext)
<1>f. PICK f : f = [pr[c] EXCEPT !.pc = "told", !.wrote = w, !.rolled = r]
  OBVIOUS
<1>2. pr' = [pr EXCEPT ![c] = f]
  BY <1>0, <1>f DEF Tell, SetupFrames
<1>3. w \in BOOLEAN /\ r \in BOOLEAN
  OBVIOUS
<1>4. /\ f \in SetupFrames /\ f.pc = "told" /\ f.wrote = w /\ f.rolled = r
      /\ f.start = pr[c].start /\ f.snap = pr[c].snap /\ f.undo = pr[c].undo
  <2> HIDE DEF w, r
  <2> QED
    BY <1>0, <1>f, <1>3 DEF SetupFrames, SetupPlaces
<1>5. /\ Restored(c) => Back(pr[c])
      /\ w \/ Back(pr[c])
      /\ ~w \/ r => Back(pr[c])
      /\ broken' # "no" \/ (Back(pr[c]) /\ broken = "no")
  BY <1>0, <1>1, RestoredBack
<1> HIDE DEF w, r
<1>6. Started(f)'
  BY <1>0, <1>1, <1>4, StartedSame
<1>7. /\ f.wrote \/ Back(f)'
      /\ ~f.wrote \/ f.rolled => Back(f)'
  BY <1>1, <1>4, <1>5 DEF Back
<1>8. Keeps(disk)' /\ Sound(man)'
  BY <1>0, <1>1 DEF Keeps, Sound
<1>9. broken' # "no" \/ Wholly(disk, man)'
  BY <1>0, <1>1, <1>5 DEF Started, Back, Wholly
<1>10. broken' \in {"no", "reported", "killed"}
  BY <1>0, <1>1
<1> QED
  BY <1>0, <1>1, <1>2, <1>4, <1>6, <1>7, <1>8, <1>9, <1>10, RollbackFrame

\* The transaction ends with the manifest published and nothing left to write.
LEMMA SucceedInv ==
  ASSUME HarnessInv, NEW c \in Procs, Succeed(c) PROVE HarnessInv'
<1> DEFINE t == pr[c].todo
<1>1. /\ lock = c /\ pr[c].pc = "write" /\ t # <<>> /\ Release(c)
      /\ UNCHANGED <<disk, man, joined, loaded, drift, broken, release, edits,
                     user>>
  BY Holder DEF Succeed, Doing, Holds, Outside, CommandInv, Ending
<1>0. /\ pr[c] \in SetupFrames /\ CommandInv(pr[c])
      /\ broken \in {"no", "reported", "killed"}
  BY <1>1, Holder
<1>2. t \in Seq(SetupSteps) /\ Head(t).do = "end" /\ Head(t) = t[1]
      /\ 1 \in DOMAIN t
  BY <1>0, <1>1 DEF SetupFrames, Succeed, Doing, Next1
<1>3. Len(t) = 1
  BY <1>0, <1>1, <1>2 DEF CommandInv, Ending
<1>4. man = pr[c].new /\ Planned(t, pr[c].new)
  BY <1>0, <1>1, <1>3 DEF CommandInv
<1>5. \A l \in Leaves : ~Pending(t, l)
  BY <1>2, <1>3 DEF Pending, Writing
<1>6. broken # "no" \/ Wholly(disk, man)
  BY <1>4, <1>5 DEF Planned, LeadTo, Wholly
<1> QED
  BY <1>0, <1>1, <1>6, LetGo

\* The steps that are left when the first one is done.
LEMMA StepsLeft ==
  ASSUME NEW t \in Seq(SetupSteps), t # <<>>
  PROVE  /\ Tail(t) \in Seq(SetupSteps) /\ Len(Tail(t)) = Len(t) - 1
         /\ 1 \in DOMAIN t /\ Head(t) = t[1] /\ t[1] \in SetupSteps
         /\ DOMAIN t = 1..Len(t) /\ Len(t) \in Nat
         /\ DOMAIN Tail(t) = 1..(Len(t) - 1)
         /\ \A i \in DOMAIN Tail(t) : i + 1 \in DOMAIN t /\ i + 1 # 1
                                      /\ Tail(t)[i] = t[i + 1]
         /\ \A i \in DOMAIN t \ {1} : i - 1 \in DOMAIN Tail(t)
                                      /\ Tail(t)[i - 1] = t[i]
<1>1. /\ Tail(t) \in Seq(SetupSteps) /\ Len(Tail(t)) = Len(t) - 1
      /\ Len(t) \in Nat \ {0} /\ DOMAIN t = 1..Len(t)
      /\ DOMAIN Tail(t) = 1..(Len(t) - 1)
      /\ Head(t) = t[1] /\ t[1] \in SetupSteps
  OBVIOUS
<1>2. \A i \in 1..(Len(t) - 1) : Tail(t)[i] = t[i + 1]
  OBVIOUS
<1> QED
  BY <1>1, <1>2

\* What is pending after the first step was pending before it; and the leaf
\* that it writes is written once.
LEMMA PendingLeft ==
  ASSUME NEW t \in Seq(SetupSteps), t # <<>>
  PROVE  /\ \A l : Pending(t, l) <=> \/ Pending(Tail(t), l)
                                     \/ Writing(t[1]) /\ t[1].leaf = l
         /\ Once(t) => Once(Tail(t))
         /\ Once(t) /\ Writing(t[1]) => ~Pending(Tail(t), t[1].leaf)
<1>1. \A l : Pending(Tail(t), l) => Pending(t, l)
  BY StepsLeft DEF Pending
<1>2. \A l : Writing(t[1]) /\ t[1].leaf = l => Pending(t, l)
  BY StepsLeft DEF Pending
<1>3. ASSUME NEW l, Pending(t, l), ~(Writing(t[1]) /\ t[1].leaf = l)
      PROVE  Pending(Tail(t), l)
  <2>1. PICK i \in DOMAIN t \ {1} : Writing(t[i]) /\ t[i].leaf = l
    BY <1>3 DEF Pending
  <2> QED
    BY <2>1, StepsLeft DEF Pending
<1>4. ASSUME Once(t) PROVE Once(Tail(t))
  <2> SUFFICES ASSUME NEW i \in DOMAIN Tail(t), NEW j \in DOMAIN Tail(t),
                      Writing(Tail(t)[i]), Writing(Tail(t)[j]),
                      Tail(t)[i].leaf = Tail(t)[j].leaf
               PROVE  i = j
    BY DEF Once
  <2>1. i + 1 = j + 1
    BY <1>4, StepsLeft DEF Once
  <2>2. i \in Int /\ j \in Int
    BY StepsLeft
  <2> QED
    BY <2>1, <2>2
<1>5. ASSUME Once(t), Writing(t[1]), Pending(Tail(t), t[1].leaf)
      PROVE  FALSE
  <2>1. PICK i \in DOMAIN Tail(t) : Writing(Tail(t)[i])
                                    /\ Tail(t)[i].leaf = t[1].leaf
    BY <1>5 DEF Pending
  <2> QED
    BY <1>5, <2>1, StepsLeft DEF Once
<1> QED
  BY <1>1, <1>2, <1>3, <1>4, <1>5

\* The manifest comes next to last.
LEMMA EndingLeft ==
  ASSUME NEW t \in Seq(SetupSteps), Ending(t), t[1].do # "end"
  PROVE  /\ Tail(t) # <<>> /\ Ending(Tail(t)) /\ Len(t) > 1
         /\ t[1].do # "manifest" => Len(Tail(t)) > 1
         /\ t[1].do = "manifest" => Len(Tail(t)) = 1
<1>1. t # <<>>
  BY DEF Ending
<1>2. /\ Len(t) \in Nat /\ DOMAIN t = 1..Len(t) /\ 1 \in DOMAIN t
      /\ Len(Tail(t)) = Len(t) - 1 /\ DOMAIN Tail(t) = 1..(Len(t) - 1)
      /\ \A i \in DOMAIN Tail(t) : i + 1 \in DOMAIN t
                                   /\ Tail(t)[i] = t[i + 1]
  BY <1>1, StepsLeft
<1>3. /\ Len(t) # 1 /\ (t[1].do = "manifest" <=> Len(t) = 2)
  BY <1>2 DEF Ending
<1>4. /\ Len(Tail(t)) > 0 /\ Len(t) > 1
      /\ t[1].do # "manifest" => Len(Tail(t)) > 1
      /\ t[1].do = "manifest" => Len(Tail(t)) = 1
  BY <1>2, <1>3
<1>5. ASSUME NEW i \in DOMAIN Tail(t)
      PROVE  /\ Tail(t)[i].do = "end" <=> i = Len(Tail(t))
             /\ Tail(t)[i].do = "manifest" <=> i = Len(Tail(t)) - 1
  <2>1. /\ t[i + 1].do = "end" <=> i + 1 = Len(t)
        /\ t[i + 1].do = "manifest" <=> i + 1 = Len(t) - 1
    BY <1>2 DEF Ending
  <2> QED
    BY <1>2, <2>1
<1>6. Tail(t) # <<>>
  <2>1. \A u \in Seq(SetupSteps) : Len(u) > 0 => u # <<>>
    OBVIOUS
  <2> QED
    BY <1>1, <1>4, <2>1, StepsLeft
<1> QED
  BY <1>4, <1>5, <1>6 DEF Ending

\* A leaf whose recorded pieces the user took out comes back: nothing changes
\* for a manifest that has no record of its harness.
LEMMA NotGone ==
  ASSUME NEW l \in Leaves, NEW own, NEW gens, NEW rec \in Records,
         NEW g1 \in BOOLEAN, NEW g2 \in BOOLEAN,
         ~rec.has, l[2] \notin rec.added, ExactAt(l, own, gens, rec, g1)
  PROVE  ExactAt(l, own, gens, rec, g2) /\ ClaimedAt(l, own, rec, g2)
BY DEF ExactAt, ClaimedAt

\* A step before the manifest is published.
LEMMA WriteStep ==
  ASSUME HarnessInv, NEW c \in Procs, lock = c, pr[c].pc = "write",
         NEW s, s = Head(pr[c].todo), s.do \notin {"manifest", "end"},
         NEW f, Further(c, f), pr' = [pr EXCEPT ![c] = f],
         UNCHANGED <<man, lock, release, edits, user, broken>>,
         joined' \in BOOLEAN, loaded' \in BOOLEAN,
         disk' \in Disks, drift' \subseteq drift, StepWrites(c, s)
  PROVE  HarnessInv'
<1>a. /\ f \in SetupFrames /\ f.pc = "write" /\ f.todo = Tail(pr[c].todo)
      /\ f.snap = pr[c].snap /\ f.new = pr[c].new
      /\ f.start = pr[c].start /\ f.undo = pr[c].undo
  BY DEF Further
<1>b. \A k \in Leaves : ~Writing(s) \/ k # s.leaf =>
                          disk'[k] = disk[k] /\ (k \in drift' <=> k \in drift)
  BY DEF StepWrites
<1>c. Writing(s) =>
        /\ s.leaf \in Leaves /\ disk'[s.leaf].text = user[s.leaf].text
        /\ user[s.leaf].gens \subseteq disk'[s.leaf].gens
        /\ s.leaf \in drift \ drift' =>
             /\ s.leaf[2] # "config" => user[s.leaf].text = 0
             /\ broken = "no" => ~man[s.leaf[1]].has
        /\ broken = "no" =>
             /\ ExactAt(s.leaf, user[s.leaf], disk'[s.leaf].gens,
                        pr[c].new[s.leaf[1]], s.leaf \in drift')
             /\ ClaimedAt(s.leaf, user[s.leaf],
                          pr[c].new[s.leaf[1]], s.leaf \in drift')
  BY DEF StepWrites
<1>0. /\ pr[c] \in SetupFrames /\ CommandInv(pr[c])
      /\ disk \in Disks /\ user \in Disks /\ man \in Manifests
      /\ broken \in {"no", "reported", "killed"}
      /\ Keeps(disk) /\ Sound(man) /\ Users
  BY Holder
<1>1. PICK t \in Seq(SetupSteps) : t = pr[c].todo
  BY <1>0 DEF SetupFrames
<1>2. PICK m \in Manifests : m = pr[c].new
  BY <1>0 DEF SetupFrames
<1>3. /\ Planned(t, m) /\ Ending(t) /\ t # <<>>
      /\ \A l \in Leaves : Pending(t, l) => l \in DOMAIN pr[c].snap
      /\ man = IF Len(t) > 1 THEN pr[c].start.man ELSE m
      /\ Started(pr[c])
  BY <1>0, <1>1, <1>2 DEF CommandInv, Ending, Changing
<1>4. /\ s = t[1] /\ Tail(t) \in Seq(SetupSteps)
      /\ \A i \in DOMAIN Tail(t) : i + 1 \in DOMAIN t
                                   /\ Tail(t)[i] = t[i + 1]
  BY <1>1, <1>3, StepsLeft
<1>5. /\ Tail(t) # <<>> /\ Ending(Tail(t)) /\ Len(t) > 1
      /\ Len(Tail(t)) > 1
  BY <1>3, <1>4, EndingLeft
<1>6. /\ \A l : Pending(t, l) <=> \/ Pending(Tail(t), l)
                                  \/ Writing(s) /\ s.leaf = l
      /\ Once(Tail(t)) /\ (Writing(s) => ~Pending(Tail(t), s.leaf))
  <2>1. Once(t)
    BY <1>3 DEF Planned
  <2>2. s = t[1]
    BY <1>4
  <2> QED
    BY <1>3, <2>1, <2>2, PendingLeft
<1>7. \A l : Recorded(l)' = Recorded(l)
  BY DEF Recorded
<1>8. Planned(Tail(t), m)'
  <2>1. Sound(m)'
    BY <1>3 DEF Sound, Planned
  <2>2. ASSUME NEW i \in DOMAIN Tail(t)
        PROVE  /\ Tail(t)[i].do = "put" => PutKeeps(Tail(t)[i])'
               /\ Tail(t)[i].do = "take" => TakeKeeps(Tail(t)[i])'
    <3>1. PICK j \in DOMAIN t : Tail(t)[i] = t[j]
      BY <1>4
    <3>2. /\ t[j].do = "put" => PutKeeps(t[j])
          /\ t[j].do = "take" => TakeKeeps(t[j])
      BY <1>3 DEF Planned
    <3> QED
      BY <1>7, <3>1, <3>2 DEF PutKeeps, TakeKeeps
  <2>3. ASSUME broken = "no", NEW i \in DOMAIN Tail(t)
        PROVE  /\ Tail(t)[i].do = "put" => PutExact(Tail(t)[i], m)'
               /\ Tail(t)[i].do = "take" => TakeExact(Tail(t)[i], m)'
    <3>1. PICK j \in DOMAIN t : Tail(t)[i] = t[j]
      BY <1>4
    <3>2. /\ t[j].do = "put" => PutExact(t[j], m)
          /\ t[j].do = "take" => TakeExact(t[j], m) /\ TakeKeeps(t[j])
      BY <1>3, <2>3 DEF Planned
    <3>3. t[j].do = "take" => t[j].leaf # s.leaf \/ ~Writing(s)
      <4>1. t[j].do = "take" => Pending(Tail(t), t[j].leaf)
        BY <3>1 DEF Pending, Writing
      <4> QED
        BY <1>6, <4>1
    <3>4. t[j].do = "take" =>
            /\ disk'[t[j].leaf] = disk[t[j].leaf]
            /\ t[j].leaf \in drift' <=> t[j].leaf \in drift
      BY <1>b, <3>2, <3>3 DEF TakeKeeps
    <3>5. t[j].do = "put" => PutExact(t[j], m)'
      BY <3>2 DEF PutExact
    <3>6. t[j].do = "take" => TakeExact(t[j], m)'
      BY <1>7, <3>2, <3>4 DEF TakeExact, ExactAt
    <3> QED
      BY <3>1, <3>5, <3>6
  <2>4. ASSUME broken = "no" PROVE LeadTo(Tail(t), m)'
    <3> SUFFICES ASSUME NEW l \in Leaves
                 PROVE  /\ \/ Pending(Tail(t), l)
                           \/ ExactAt(l, user[l], disk'[l].gens, m[l[1]],
                                      l \in drift')
                        /\ ClaimedAt(l, user[l], m[l[1]], l \in drift')
      BY DEF LeadTo
    <3>1. /\ \/ Pending(t, l)
             \/ ExactAt(l, user[l], disk[l].gens, m[l[1]], l \in drift)
          /\ ClaimedAt(l, user[l], m[l[1]], l \in drift)
      BY <1>3, <2>4 DEF Planned, LeadTo
    <3>2. CASE Writing(s) /\ l = s.leaf
      BY <1>2, <1>c, <2>4, <3>2
    <3>3. CASE ~(Writing(s) /\ l = s.leaf)
      <4>1. disk'[l] = disk[l] /\ (l \in drift' <=> l \in drift)
        BY <1>b, <3>3
      <4>2. Pending(t, l) => Pending(Tail(t), l)
        BY <1>6, <3>3
      <4> QED
        BY <3>1, <4>1, <4>2 DEF ExactAt, ClaimedAt
    <3> QED
      BY <3>2, <3>3
  <2> QED
    BY <1>6, <2>1, <2>2, <2>3, <2>4 DEF Planned
<1>9. Started(f)'
  <2>1. \A l \in Leaves \ DOMAIN f.snap : disk'[l] = f.start.disk[l]
    <3> TAKE l \in Leaves \ DOMAIN f.snap
    <3>1. ~Pending(t, l)
      BY <1>3, <1>a
    <3>2. ~(Writing(s) /\ l = s.leaf)
      BY <1>6, <3>1
    <3>3. disk[l] = f.start.disk[l]
      BY <1>3, <1>a DEF Started
    <3> QED
      BY <1>b, <3>2, <3>3
  <2>2. ASSUME broken = "no" PROVE Wholly(f.start.disk, f.start.man)'
    <3> SUFFICES ASSUME NEW l \in Leaves
                 PROVE  /\ ExactAt(l, user[l], f.start.disk[l].gens,
                                   f.start.man[l[1]], l \in drift')
                        /\ ClaimedAt(l, user[l], f.start.man[l[1]],
                                     l \in drift')
      BY DEF Wholly
    <3>1. /\ ExactAt(l, user[l], f.start.disk[l].gens,
                     f.start.man[l[1]], l \in drift)
          /\ ClaimedAt(l, user[l], f.start.man[l[1]], l \in drift)
      BY <1>a, <1>3, <2>2 DEF Started, Wholly
    <3>2. CASE l \in drift' <=> l \in drift
      BY <3>1, <3>2 DEF ExactAt, ClaimedAt
    <3>3. CASE l \in drift \ drift'
      <4>1. f.start.man = man
        BY <1>a, <1>3, <1>5
      <4>2. ~man[l[1]].has
        BY <1>b, <1>c, <2>2, <3>3
      <4>3. man[l[1]] \in Records /\ l[2] \notin man[l[1]].added
        BY <1>0, <4>2, LeafParts DEF Sound, Manifests
      <4> QED
        BY <3>1, <4>1, <4>2, <4>3, NotGone DEF ExactAt, ClaimedAt
    <3> QED
      BY <3>2, <3>3
  <2>3. /\ f.start \in Starts /\ f.snap \in Snaps
        /\ \A l \in DOMAIN f.snap : f.snap[l] = f.start.disk[l]
        /\ \A i \in DOMAIN f.undo : Writing(f.undo[i]) =>
                                     f.undo[i].leaf \in DOMAIN f.snap
    BY <1>a, <1>3 DEF Started
  <2>4. Keeps(f.start.disk)' /\ Sound(f.start.man)'
    <3>1. Keeps(f.start.disk) /\ Sound(f.start.man)
      BY <1>a, <1>3 DEF Started
    <3> QED
      BY <3>1 DEF Keeps, Sound
  <2> QED
    BY <2>1, <2>2, <2>3, <2>4 DEF Started
<1>10. CommandInv(f)'
  <2>1. man' = IF Len(f.todo) > 1 THEN f.start.man ELSE f.new
    BY <1>a, <1>1, <1>3, <1>5
  <2>2. \A l \in Leaves : Pending(f.todo, l) => l \in DOMAIN f.snap
    BY <1>a, <1>1, <1>3, <1>6
  <2>3. Planned(f.todo, f.new)' /\ Ending(f.todo)
    BY <1>a, <1>1, <1>2, <1>5, <1>8
  <2> QED
    BY <1>a, <1>9, <2>1, <2>2, <2>3 DEF CommandInv, Ending, Pending
<1>11. Keeps(disk)' /\ Sound(man)'
  <2>1. ASSUME NEW l \in Leaves
        PROVE  /\ disk'[l].text = user[l].text
               /\ user[l].gens \subseteq disk'[l].gens
    <3>1. CASE Writing(s) /\ l = s.leaf
      BY <1>c, <3>1
    <3>2. CASE ~(Writing(s) /\ l = s.leaf)
      BY <1>0, <1>b, <3>2 DEF Keeps
    <3> QED
      BY <3>1, <3>2
  <2>2. Keeps(disk)'
    BY <2>1 DEF Keeps
  <2>3. Sound(man)'
    BY <1>0 DEF Sound
  <2> QED
    BY <2>2, <2>3
<1>12. \A l \in drift \ drift' : l[2] # "config" => user[l].text = 0
  <2>1. drift \subseteq Leaves
    BY DEF HarnessInv, SetupTypes
  <2> QED
    BY <1>b, <1>c, <2>1
<1>13. man' \in Manifests /\ broken' \in {"no", "reported", "killed"}
  BY <1>0
<1>14. lock' = IF f.pc \in {"idle", "ask"} THEN none ELSE c
  BY <1>a
<1>15. f.pc \in Changing
  BY <1>a DEF Changing
<1> QED
  BY <1>a, <1>9, <1>10, <1>11, <1>12, <1>13, <1>14, <1>15, CommandFrame

\* The step a writing command is at, and its frame after it.
LEMMA AtStep ==
  ASSUME HarnessInv, NEW c \in Procs, Holds(c, "write")
  PROVE  /\ pr[c].todo \in Seq(SetupSteps) /\ pr[c].todo # <<>>
         /\ Next1(c) = pr[c].todo[1] /\ 1 \in DOMAIN pr[c].todo
         /\ Next1(c) \in SetupSteps /\ lock = c /\ pr[c].pc = "write"
         /\ Planned(pr[c].todo, pr[c].new) /\ Ending(pr[c].todo)
         /\ pr[c] \in SetupFrames
<1>1. lock = c /\ pr[c].pc = "write"
  BY DEF Holds
<1>2. pr[c] \in SetupFrames /\ CommandInv(pr[c])
  BY <1>1, Holder
<1>3. /\ Planned(pr[c].todo, pr[c].new) /\ Ending(pr[c].todo)
      /\ pr[c].todo # <<>>
  BY <1>1, <1>2 DEF CommandInv, Ending
<1>4. pr[c].todo \in Seq(SetupSteps)
  BY <1>2 DEF SetupFrames
<1>5. /\ Next1(c) = pr[c].todo[1] /\ Next1(c) \in SetupSteps
      /\ 1 \in DOMAIN pr[c].todo
  BY <1>3, <1>4, StepsLeft DEF Next1
<1> QED
  BY <1>1, <1>2, <1>3, <1>4, <1>5

\* Its frame after it.
LEMMA AfterStep ==
  ASSUME HarnessInv, NEW c \in Procs, Holds(c, "write"), NEW e \in BOOLEAN,
         NEW f, f = [pr[c] EXCEPT !.todo = Tail(@), !.ext = e]
  PROVE  Further(c, f)
<1>1. /\ pr[c] \in SetupFrames /\ pr[c].pc = "write"
      /\ pr[c].todo \in Seq(SetupSteps) /\ pr[c].todo # <<>>
  BY AtStep
<1>2. Tail(pr[c].todo) \in Seq(SetupSteps)
  BY <1>1, StepsLeft
<1> QED
  BY <1>1, <1>2 DEF SetupFrames, Further

\* A step that does not touch launchd leaves that account as it is.
LEMMA SameExt ==
  ASSUME HarnessInv, NEW c \in Procs, Holds(c, "write"), Done(c)
  PROVE  /\ pr[c].ext \in BOOLEAN
         /\ pr' = [pr EXCEPT ![c] = [pr[c] EXCEPT !.todo = Tail(@),
                                                  !.ext = pr[c].ext]]
<1>1. pr[c] \in SetupFrames /\ pr \in [Procs -> SetupFrames]
  BY Holder DEF Holds, HarnessInv, SetupTypes
<1> QED
  BY <1>1 DEF SetupFrames, Done

\* A piece is written as it was planned.
LEMMA PutInv == ASSUME HarnessInv, NEW c \in Procs, Put(c) PROVE HarnessInv'
<1>1. /\ Holds(c, "write") /\ Done(c) /\ Next1(c).do = "put"
      /\ disk' = [disk EXCEPT ![Next1(c).leaf] = Next1(c).val]
      /\ drift' = drift \ {Next1(c).leaf}
      /\ UNCHANGED <<man, joined, loaded, lock, faults, broken, release,
                     edits, user>>
  BY DEF Put, Doing, Outside
<1>f. PICK f : f = [pr[c] EXCEPT !.todo = Tail(@), !.ext = pr[c].ext]
  OBVIOUS
<1>s. PICK s : s = Next1(c)
  OBVIOUS
<1>2. pr[c].ext \in BOOLEAN /\ pr' = [pr EXCEPT ![c] = f]
  BY <1>1, <1>f, SameExt
<1>3. /\ s = pr[c].todo[1] /\ 1 \in DOMAIN pr[c].todo
      /\ s \in SetupSteps /\ lock = c /\ s = Head(pr[c].todo)
      /\ Planned(pr[c].todo, pr[c].new)
  BY <1>1, <1>s, AtStep DEF Next1
<1>a. Further(c, f)
  BY <1>1, <1>f, <1>2, AfterStep
<1>4. /\ PutKeeps(s) /\ s.do = "put" /\ s.leaf \in Leaves
      /\ broken = "no" => PutExact(s, pr[c].new)
      /\ s.val \in Contents
  BY <1>1, <1>s, <1>3 DEF Planned, PutKeeps, SetupSteps
<1>5. /\ disk \in Disks /\ joined \in BOOLEAN /\ loaded \in BOOLEAN
      /\ pr[c].pc = "write"
  BY <1>1, <1>3, Holder DEF Holds
<1>6. /\ disk' \in Disks /\ disk'[s.leaf] = s.val
      /\ \A k \in Leaves : k # s.leaf => disk'[k] = disk[k]
  BY <1>1, <1>s, <1>4, <1>5 DEF Disks
<1>7. /\ drift' \subseteq drift /\ s.leaf \notin drift'
      /\ \A k \in Leaves : k # s.leaf => (k \in drift' <=> k \in drift)
  BY <1>1, <1>s
<1>8. broken = "no" =>
         /\ ExactAt(s.leaf, user[s.leaf], disk'[s.leaf].gens,
                    pr[c].new[s.leaf[1]], s.leaf \in drift')
         /\ ClaimedAt(s.leaf, user[s.leaf],
                      pr[c].new[s.leaf[1]], s.leaf \in drift')
  BY <1>4, <1>6, <1>7 DEF PutExact, ExactAt, ClaimedAt
<1>9. /\ s.leaf \in drift => (broken = "no" => ~man[s.leaf[1]].has)
      /\ s.leaf[2] # "config" => user[s.leaf].text = 0
      /\ disk'[s.leaf].text = user[s.leaf].text
      /\ user[s.leaf].gens \subseteq disk'[s.leaf].gens
  BY <1>4, <1>6 DEF PutExact, PutKeeps
<1>10. Writing(s) /\ s.do \notin {"manifest", "end"}
  BY <1>4 DEF Writing
<1>11. StepWrites(c, s)
  BY <1>4, <1>6, <1>7, <1>8, <1>9, <1>10 DEF StepWrites
<1>12. joined' \in BOOLEAN /\ loaded' \in BOOLEAN
  BY <1>1, <1>5
<1> QED
  BY <1>1, <1>2, <1>3, <1>a, <1>5, <1>6, <1>7, <1>10, <1>11, <1>12, WriteStep

\* A piece is taken out of the leaf as it is now.
LEMMA TakeInv == ASSUME HarnessInv, NEW c \in Procs, Take(c) PROVE HarnessInv'
<1>1. /\ Holds(c, "write") /\ Done(c) /\ Next1(c).do = "take"
      /\ disk' = IF Next1(c).leaf[2] = "config"
                 THEN [disk EXCEPT ![Next1(c).leaf].gens =
                                     @ \ {Recorded(Next1(c).leaf)}]
                 ELSE [disk EXCEPT ![Next1(c).leaf] = Empty]
      /\ UNCHANGED <<man, joined, loaded, lock, faults, drift, broken,
                     release, edits, user>>
  BY DEF Take, Doing, Outside
<1>f. PICK f : f = [pr[c] EXCEPT !.todo = Tail(@), !.ext = pr[c].ext]
  OBVIOUS
<1>s. PICK s : s = Next1(c)
  OBVIOUS
<1>2. pr[c].ext \in BOOLEAN /\ pr' = [pr EXCEPT ![c] = f]
  BY <1>1, <1>f, SameExt
<1>3. /\ s = pr[c].todo[1] /\ 1 \in DOMAIN pr[c].todo
      /\ s \in SetupSteps /\ lock = c /\ s = Head(pr[c].todo)
      /\ Planned(pr[c].todo, pr[c].new)
  BY <1>1, <1>s, AtStep DEF Next1
<1>a. Further(c, f)
  BY <1>1, <1>f, <1>2, AfterStep
<1>4. /\ TakeKeeps(s) /\ s.do = "take" /\ s.leaf \in Leaves
      /\ broken = "no" => TakeExact(s, pr[c].new) /\ LeadTo(pr[c].todo,
                                                            pr[c].new)
  BY <1>1, <1>s, <1>3 DEF Planned, TakeKeeps
<1>5. /\ disk \in Disks /\ joined \in BOOLEAN /\ loaded \in BOOLEAN
      /\ pr[c].pc = "write" /\ Keeps(disk) /\ user \in Disks
  BY <1>1, <1>3, Holder DEF Holds
<1>d. PICK v : v = IF s.leaf[2] = "config"
                   THEN [disk[s.leaf] EXCEPT !.gens = @ \ {Recorded(s.leaf)}]
                   ELSE Empty
  OBVIOUS
<1>v. /\ v \in Contents
      /\ s.leaf[2] = "config" => /\ v.text = disk[s.leaf].text
                                 /\ v.gens = disk[s.leaf].gens
                                               \ {Recorded(s.leaf)}
      /\ s.leaf[2] # "config" => v = Empty
  <2>1. disk[s.leaf] \in Contents
    BY <1>4, <1>5 DEF Disks
  <2> QED
    BY <1>d, <2>1, Values DEF Contents
<1>6. /\ disk' \in Disks /\ disk'[s.leaf] = v
      /\ \A k \in Leaves : k # s.leaf => disk'[k] = disk[k]
  <2>1. disk' = [disk EXCEPT ![s.leaf] = v]
    BY <1>1, <1>s, <1>d, <1>4, <1>5 DEF Disks
  <2> QED
    BY <1>4, <1>5, <1>v, <2>1 DEF Disks
<1>7. /\ drift' \subseteq drift /\ drift' = drift
      /\ \A k \in Leaves : k # s.leaf => (k \in drift' <=> k \in drift)
  BY <1>1
<1>8. broken = "no" =>
         /\ ExactAt(s.leaf, user[s.leaf], disk'[s.leaf].gens,
                    pr[c].new[s.leaf[1]], s.leaf \in drift')
         /\ ClaimedAt(s.leaf, user[s.leaf],
                      pr[c].new[s.leaf[1]], s.leaf \in drift')
  <2> SUFFICES ASSUME broken = "no"
               PROVE  /\ ExactAt(s.leaf, user[s.leaf], v.gens,
                                 pr[c].new[s.leaf[1]], s.leaf \in drift)
                      /\ ClaimedAt(s.leaf, user[s.leaf],
                                   pr[c].new[s.leaf[1]], s.leaf \in drift)
    BY <1>6, <1>7
  <2>1. v.gens = IF s.leaf[2] = "config"
                 THEN disk[s.leaf].gens \ {Recorded(s.leaf)} ELSE {}
    BY <1>v, Values
  <2>2. ExactAt(s.leaf, user[s.leaf], v.gens, pr[c].new[s.leaf[1]],
                s.leaf \in drift)
    BY <1>4, <2>1 DEF TakeExact
  <2> QED
    BY <1>4, <2>2 DEF LeadTo
<1>9. /\ disk'[s.leaf].text = user[s.leaf].text
      /\ user[s.leaf].gens \subseteq disk'[s.leaf].gens
  <2>1. /\ disk[s.leaf].text = user[s.leaf].text
        /\ user[s.leaf].gens \subseteq disk[s.leaf].gens
    BY <1>4, <1>5 DEF Keeps
  <2> QED
    BY <1>4, <1>6, <1>v, <2>1, Values DEF TakeKeeps
<1>10. Writing(s) /\ s.do \notin {"manifest", "end"}
  BY <1>4 DEF Writing
<1>11. StepWrites(c, s)
  BY <1>4, <1>6, <1>7, <1>8, <1>9, <1>10 DEF StepWrites
<1>12. joined' \in BOOLEAN /\ loaded' \in BOOLEAN
  BY <1>1, <1>5
<1> QED
  BY <1>1, <1>2, <1>3, <1>a, <1>5, <1>6, <1>7, <1>10, <1>11, <1>12, WriteStep

\* The steps on launchd change no file.
LEMMA LaunchdInv ==
  ASSUME HarnessInv, NEW c \in Procs, Join(c) \/ Unjoin(c) \/ Unload(c)
  PROVE  HarnessInv'
<1>1. /\ Holds(c, "write") /\ Next1(c).do \in {"join", "unjoin", "unload"}
      /\ UNCHANGED <<disk, man, lock, faults, drift, broken, release, edits,
                     user>>
  BY DEF Join, Unjoin, Unload, Doing, Outside
<1>2. /\ lock = c /\ disk \in Disks /\ joined \in BOOLEAN
      /\ loaded \in BOOLEAN /\ pr[c].pc = "write"
      /\ pr[c] \in SetupFrames /\ pr \in [Procs -> SetupFrames]
  BY <1>1, Holder DEF Holds, HarnessInv, SetupTypes
<1>3. joined' \in BOOLEAN /\ loaded' \in BOOLEAN
  BY <1>2 DEF Join, Unjoin, Unload
<1>4. \E e \in BOOLEAN :
        pr' = [pr EXCEPT ![c] = [pr[c] EXCEPT !.todo = Tail(@), !.ext = e]]
  <2>1. CASE Join(c)
    BY <1>1, <2>1, SameExt DEF Join
  <2>2. CASE Unjoin(c)
    BY <1>2, <2>2 DEF Unjoin, SetupFrames
  <2>3. CASE Unload(c)
    <3> DEFINE e == pr[c].ext \/ loaded
    <3>1. e \in BOOLEAN
      OBVIOUS
    <3>2. pr' = [pr EXCEPT ![c] = [pr[c] EXCEPT !.todo = Tail(@), !.ext = e]]
      BY <1>2, <2>3 DEF Unload, SetupFrames
    <3> HIDE DEF e
    <3> QED
      BY <3>1, <3>2
  <2> QED
    BY <2>1, <2>2, <2>3
<1>5. PICK e \in BOOLEAN :
        pr' = [pr EXCEPT ![c] = [pr[c] EXCEPT !.todo = Tail(@), !.ext = e]]
  BY <1>4
<1>f. PICK f : f = [pr[c] EXCEPT !.todo = Tail(@), !.ext = e]
  OBVIOUS
<1>s. PICK s : s = Next1(c)
  OBVIOUS
<1>6. Further(c, f) /\ s = Head(pr[c].todo)
  BY <1>1, <1>f, <1>s, AfterStep DEF Next1
<1>7. ~Writing(s) /\ s.do \notin {"manifest", "end"}
  BY <1>1, <1>s DEF Writing
<1>8. /\ pr' = [pr EXCEPT ![c] = f] /\ disk' \in Disks
      /\ drift' \subseteq drift /\ drift' = drift
      /\ \A k \in Leaves : disk'[k] = disk[k] /\ (k \in drift' <=> k \in drift)
  BY <1>1, <1>2, <1>5, <1>f
<1>9. StepWrites(c, s)
  BY <1>7, <1>8 DEF StepWrites
<1> QED
  BY <1>1, <1>2, <1>3, <1>6, <1>7, <1>8, <1>9, WriteStep

\* Nothing is left to write when the manifest is published.
LEMMA PublishInv ==
  ASSUME HarnessInv, NEW c \in Procs, Publish(c) PROVE HarnessInv'
<1>1. /\ Holds(c, "write") /\ Done(c) /\ Next1(c).do = "manifest"
      /\ man' = pr[c].new
      /\ UNCHANGED <<disk, joined, loaded, lock, faults, drift, broken,
                     release, edits, user>>
  BY DEF Publish, Doing, Outside
<1>f. PICK f : f = [pr[c] EXCEPT !.todo = Tail(@), !.ext = pr[c].ext]
  OBVIOUS
<1>2. pr[c].ext \in BOOLEAN /\ pr' = [pr EXCEPT ![c] = f]
  BY <1>1, <1>f, SameExt
<1>t. PICK t : t = pr[c].todo
  OBVIOUS
<1>m. PICK m : m = pr[c].new
  OBVIOUS
<1>3. /\ f \in SetupFrames /\ f.pc = "write" /\ f.todo = Tail(t)
      /\ f.snap = pr[c].snap /\ f.new = m /\ pr[c] \in SetupFrames
      /\ f.start = pr[c].start /\ f.undo = pr[c].undo
      /\ t[1].do = "manifest" /\ 1 \in DOMAIN t /\ t \in Seq(SetupSteps)
      /\ t # <<>> /\ lock = c /\ Planned(t, m) /\ Ending(t)
  <2>1. /\ f \in SetupFrames /\ f.pc = "write" /\ f.todo = Tail(t)
        /\ f.snap = pr[c].snap /\ f.new = m
        /\ f.start = pr[c].start /\ f.undo = pr[c].undo
        /\ t[1].do = "manifest" /\ 1 \in DOMAIN t /\ t \in Seq(SetupSteps)
        /\ t # <<>> /\ lock = c /\ Planned(t, m) /\ Ending(t)
    <3>1. /\ Next1(c) = pr[c].todo[1] /\ 1 \in DOMAIN pr[c].todo
          /\ pr[c].todo \in Seq(SetupSteps) /\ pr[c].todo # <<>>
          /\ lock = c /\ Planned(pr[c].todo, pr[c].new)
          /\ Ending(pr[c].todo)
      BY <1>1, AtStep
    <3>2. Further(c, f)
      BY <1>1, <1>f, <1>2, AfterStep
    <3> QED
      BY <1>1, <1>m, <1>t, <3>1, <3>2 DEF Further
  <2> QED
    BY <2>1, Holder
<1>4. /\ disk \in Disks /\ joined \in BOOLEAN /\ loaded \in BOOLEAN
      /\ CommandInv(pr[c]) /\ Keeps(disk) /\ m \in Manifests
      /\ broken \in {"no", "reported", "killed"} /\ pr[c].pc = "write"
  BY <1>1, <1>m, <1>3, Holder DEF Holds, SetupFrames
<1>5. /\ Tail(t) # <<>> /\ Ending(Tail(t)) /\ Len(Tail(t)) = 1
      /\ DOMAIN Tail(t) = {1} /\ Tail(t)[1].do = "end"
  <2>1. /\ Tail(t) # <<>> /\ Ending(Tail(t)) /\ Len(Tail(t)) = 1
    BY <1>3, EndingLeft
  <2>2. DOMAIN Tail(t) = {1}
    BY <1>3, <2>1, StepsLeft
  <2> QED
    BY <2>1, <2>2 DEF Ending
<1>6. \A l : ~Pending(Tail(t), l) /\ ~Pending(t, l)
  <2>1. \A l : ~Pending(Tail(t), l)
    BY <1>5 DEF Pending, Writing
  <2> QED
    BY <1>3, <2>1, PendingLeft DEF Writing
<1>7. Planned(Tail(t), m)'
  <2>1. Sound(m)'
    BY <1>1, <1>3 DEF Sound, Planned
  <2>2. broken = "no" => LeadTo(Tail(t), m)'
    BY <1>1, <1>3, <1>6 DEF Planned, LeadTo
  <2>3. Once(Tail(t))
    BY <1>5 DEF Once
  <2> QED
    BY <1>1, <1>5, <2>1, <2>2, <2>3 DEF Planned
<1>8. Started(f)'
  <2>1. Started(pr[c])
    BY <1>4 DEF CommandInv, Changing
  <2> QED
    BY <1>1, <1>3, <2>1, StartedSame
<1>9. CommandInv(f)'
  <2>1. man' = IF Len(f.todo) > 1 THEN f.start.man ELSE f.new
    BY <1>1, <1>3, <1>5, <1>m
  <2>2. \A l \in Leaves : ~Pending(f.todo, l)
    BY <1>3, <1>6
  <2>3. Planned(f.todo, f.new)' /\ Ending(f.todo)
    BY <1>3, <1>5, <1>7
  <2> QED
    BY <1>3, <1>8, <2>1, <2>2, <2>3 DEF CommandInv, Ending, Pending
<1>10. Keeps(disk)' /\ Sound(man)'
  BY <1>1, <1>3, <1>4, <1>m DEF Keeps, Sound, Planned
<1>11. /\ lock' = IF f.pc \in {"idle", "ask"} THEN none ELSE c
       /\ f.pc \in Changing /\ disk' \in Disks /\ man' \in Manifests
       /\ joined' \in BOOLEAN /\ loaded' \in BOOLEAN
       /\ broken' \in {"no", "reported", "killed"} /\ drift' = drift
       /\ drift \ drift' = {}
  BY <1>1, <1>3, <1>4, <1>m DEF Changing
<1> QED
  BY <1>1, <1>2, <1>3, <1>9, <1>10, <1>11, CommandFrame

\* The command cmd at a leaf that it writes.
PieceStep(cmd, l) == IF cmd = "apply"
                     THEN [do |-> "put", leaf |-> l, val |-> After(l)]
                     ELSE [do |-> "take", leaf |-> l, val |-> Empty]

\* The steps t write the leaves L, each once and as cmd writes it.
Lists(t, L, cmd) ==
  /\ t \in Seq(SetupSteps) /\ Once(t)
  /\ \A l : Pending(t, l) <=> l \in L
  /\ \A i \in DOMAIN t : /\ t[i].do \notin {"manifest", "end"}
                         /\ Writing(t[i]) => t[i] = PieceStep(cmd, t[i].leaf)

\* The steps of two lists.
LEMMA BothLists ==
  ASSUME NEW s \in Seq(SetupSteps), NEW t \in Seq(SetupSteps)
  PROVE  /\ s \o t \in Seq(SetupSteps)
         /\ DOMAIN s = 1..Len(s) /\ DOMAIN t = 1..Len(t)
         /\ DOMAIN (s \o t) = 1..(Len(s) + Len(t))
         /\ Len(s) \in Nat /\ Len(t) \in Nat
         /\ Len(s \o t) = Len(s) + Len(t)
         /\ \A i \in DOMAIN s : i \in DOMAIN (s \o t) /\ (s \o t)[i] = s[i]
         /\ \A i \in DOMAIN t : /\ Len(s) + i \in DOMAIN (s \o t)
                                /\ (s \o t)[Len(s) + i] = t[i]
         /\ \A i \in DOMAIN (s \o t) :
              \/ i \in DOMAIN s /\ (s \o t)[i] = s[i]
              \/ /\ i - Len(s) \in DOMAIN t /\ i > Len(s)
                 /\ (s \o t)[i] = t[i - Len(s)]
<1>1. /\ s \o t \in Seq(SetupSteps)
      /\ DOMAIN s = 1..Len(s) /\ DOMAIN t = 1..Len(t)
      /\ Len(s) \in Nat /\ Len(t) \in Nat
      /\ Len(s \o t) = Len(s) + Len(t)
      /\ DOMAIN (s \o t) = 1..(Len(s) + Len(t))
  OBVIOUS
<1>2. \A i \in 1..(Len(s) + Len(t)) :
        (s \o t)[i] = IF i <= Len(s) THEN s[i] ELSE t[i - Len(s)]
  OBVIOUS
<1>3. \A i \in DOMAIN s : i \in DOMAIN (s \o t) /\ (s \o t)[i] = s[i]
  BY <1>1, <1>2
<1>4. ASSUME NEW i \in DOMAIN t
      PROVE  /\ Len(s) + i \in DOMAIN (s \o t)
             /\ (s \o t)[Len(s) + i] = t[i]
  <2>1. /\ i \in 1..Len(t) /\ Len(s) + i \in 1..(Len(s) + Len(t))
        /\ ~(Len(s) + i <= Len(s)) /\ (Len(s) + i) - Len(s) = i
    BY <1>1
  <2> QED
    BY <1>1, <1>2, <2>1
<1>5. ASSUME NEW i \in DOMAIN (s \o t)
      PROVE  \/ i \in DOMAIN s /\ (s \o t)[i] = s[i]
             \/ /\ i - Len(s) \in DOMAIN t /\ i > Len(s)
                /\ (s \o t)[i] = t[i - Len(s)]
  BY <1>1, <1>2
<1> QED
  BY <1>1, <1>3, <1>4, <1>5

\* What is pending in two lists is pending in one of them.
LEMMA PendingBoth ==
  ASSUME NEW s \in Seq(SetupSteps), NEW t \in Seq(SetupSteps)
  PROVE  /\ \A l : Pending(s \o t, l) <=> Pending(s, l) \/ Pending(t, l)
         /\ Once(s) /\ Once(t) /\ (\A l : ~(Pending(s, l) /\ Pending(t, l)))
              => Once(s \o t)
<1>1. ASSUME NEW l, Pending(s \o t, l) PROVE Pending(s, l) \/ Pending(t, l)
  BY <1>1, BothLists DEF Pending
<1>2. ASSUME NEW l, Pending(s, l) \/ Pending(t, l) PROVE Pending(s \o t, l)
  <2>1. CASE Pending(s, l)
    BY <2>1, BothLists DEF Pending
  <2>2. CASE Pending(t, l)
    <3>1. PICK i \in DOMAIN t : Writing(t[i]) /\ t[i].leaf = l
      BY <2>2 DEF Pending
    <3>2. Len(s) + i \in DOMAIN (s \o t) /\ (s \o t)[Len(s) + i] = t[i]
      BY BothLists
    <3>3. PICK k \in DOMAIN (s \o t) : (s \o t)[k] = t[i]
      BY <3>2
    <3> QED
      BY <3>1, <3>3 DEF Pending
  <2> QED
    BY <1>2, <2>1, <2>2
<1>3. ASSUME Once(s), Once(t), \A l : ~(Pending(s, l) /\ Pending(t, l))
      PROVE  Once(s \o t)
  <2> DEFINE u == s \o t
  <2> SUFFICES ASSUME NEW i \in DOMAIN u, NEW j \in DOMAIN u,
                      Writing(u[i]), Writing(u[j]), u[i].leaf = u[j].leaf
               PROVE  i = j
    BY DEF Once
  <2>1. CASE i \in DOMAIN s /\ u[i] = s[i] /\ j \in DOMAIN s /\ u[j] = s[j]
    BY <1>3, <2>1 DEF Once
  <2>2. CASE /\ i - Len(s) \in DOMAIN t /\ u[i] = t[i - Len(s)]
             /\ j - Len(s) \in DOMAIN t /\ u[j] = t[j - Len(s)]
    <3>1. i - Len(s) = j - Len(s)
      BY <1>3, <2>2 DEF Once
    <3>2. i \in Int /\ j \in Int /\ Len(s) \in Int
      BY BothLists
    <3> QED
      BY <3>1, <3>2
  <2>3. CASE /\ i \in DOMAIN s /\ u[i] = s[i]
             /\ j - Len(s) \in DOMAIN t /\ u[j] = t[j - Len(s)]
    <3>1. Pending(s, u[i].leaf) /\ Pending(t, u[i].leaf)
      BY <2>3 DEF Pending
    <3> QED
      BY <1>3, <3>1
  <2>4. CASE /\ i - Len(s) \in DOMAIN t /\ u[i] = t[i - Len(s)]
             /\ j \in DOMAIN s /\ u[j] = s[j]
    <3>1. Pending(s, u[i].leaf) /\ Pending(t, u[i].leaf)
      BY <2>4 DEF Pending
    <3> QED
      BY <1>3, <3>1
  <2>5. /\ \/ i \in DOMAIN s /\ u[i] = s[i]
           \/ i - Len(s) \in DOMAIN t /\ u[i] = t[i - Len(s)]
        /\ \/ j \in DOMAIN s /\ u[j] = s[j]
           \/ j - Len(s) \in DOMAIN t /\ u[j] = t[j - Len(s)]
    BY BothLists
  <2> HIDE DEF u
  <2> QED
    BY <2>1, <2>2, <2>3, <2>4, <2>5
<1> QED
  BY <1>1, <1>2, <1>3

\* Two lists of different leaves are one list.
LEMMA ListsBoth ==
  ASSUME NEW s, NEW t, NEW L, NEW M, NEW cmd,
         Lists(s, L, cmd), Lists(t, M, cmd), L \cap M = {}
  PROVE  Lists(s \o t, L \cup M, cmd)
<1>1. s \in Seq(SetupSteps) /\ t \in Seq(SetupSteps)
  BY DEF Lists
<1>2. s \o t \in Seq(SetupSteps)
  BY <1>1
<1>3. \A l : Pending(s \o t, l) <=> l \in L \cup M
  BY <1>1, PendingBoth DEF Lists
<1>4. Once(s \o t)
  BY <1>1, PendingBoth DEF Lists
<1>5. \A i \in DOMAIN (s \o t) :
        \/ i \in DOMAIN s /\ (s \o t)[i] = s[i]
        \/ i - Len(s) \in DOMAIN t /\ (s \o t)[i] = t[i - Len(s)]
  BY <1>1, BothLists
<1>6. ASSUME NEW i \in DOMAIN (s \o t)
      PROVE  LET r == (s \o t)[i]
             IN /\ r.do \notin {"manifest", "end"}
                /\ Writing(r) => r = PieceStep(cmd, r.leaf)
  <2>1. CASE i \in DOMAIN s /\ (s \o t)[i] = s[i]
    BY <2>1 DEF Lists
  <2>2. CASE i - Len(s) \in DOMAIN t /\ (s \o t)[i] = t[i - Len(s)]
    BY <2>2 DEF Lists
  <2> QED
    BY <1>5, <2>1, <2>2
<1> QED
  BY <1>2, <1>3, <1>4, <1>6 DEF Lists

\* An empty list writes nothing.
LEMMA ListsNothing == ASSUME NEW cmd PROVE Lists(<<>>, {}, cmd)
BY DEF Lists, Once, Pending

\* One step writes its leaf, or nothing.
LEMMA ListsStep ==
  ASSUME NEW cmd, NEW s \in SetupSteps, s.do \notin {"manifest", "end"},
         Writing(s) => s = PieceStep(cmd, s.leaf)
  PROVE  Lists(<<s>>, IF Writing(s) THEN {s.leaf} ELSE {}, cmd)
<1>1. <<s>> \in Seq(SetupSteps) /\ DOMAIN <<s>> = {1} /\ <<s>>[1] = s
  OBVIOUS
<1> QED
  BY <1>1 DEF Lists, Once, Pending

\* A step that is taken on a condition.
LEMMA ListsWhen ==
  ASSUME NEW cmd, NEW s, NEW ok \in BOOLEAN,
         ok => /\ s \in SetupSteps /\ s.do \notin {"manifest", "end"}
               /\ Writing(s) => s = PieceStep(cmd, s.leaf)
  PROVE  Lists(When(ok, s), IF ok /\ Writing(s) THEN {s.leaf} ELSE {}, cmd)
BY ListsNothing, ListsStep DEF When

\* Types of what a plan is made of.
LEMMA PlanValues ==
  ASSUME SetupTypes, NEW l \in Leaves
  PROVE  /\ Want(l) \in Gens /\ After(l) \in Contents
         /\ PieceStep("apply", l) \in SetupSteps
         /\ PieceStep("remove", l) \in SetupSteps
<1>1. Want(l) \in Gens
  BY SetupAssumption DEF SetupTypes, Want, Gens
<1>2. disk[l] \in Contents
  BY DEF SetupTypes, Disks
<1>3. After(l) \in Contents
  BY <1>1, <1>2 DEF After, Contents
<1> QED
  BY <1>1, <1>3, Values DEF PieceStep, SetupSteps, SetupWords

\* What apply writes of a harness, and what remove takes.
LEMMA WrittenParts ==
  ASSUME SetupTypes, Sound(man), NEW h \in Harnesses
  PROVE  /\ Missing(h) \subseteq Parts(h) \ {"marker"}
         /\ Writes(h) \subseteq Parts(h) /\ Taken(h) \subseteq Parts(h)
         /\ Parts(h) \subseteq AllParts
         /\ \A p \in Parts(h) : <<h, p>> \in Leaves
<1>1. /\ Parts(h) \subseteq AllParts
      /\ \A p \in Parts(h) : <<h, p>> \in Leaves
  BY LeafParts
<1>2. Missing(h) \subseteq Parts(h) \ {"marker"}
  BY DEF Missing
<1>3. /\ h = "codex" => "marker" \in Parts(h) /\ "plist" \in Parts(h)
      /\ "config" \in Parts(h)
  BY PartNames
<1>4. Writes(h) \subseteq Parts(h)
  BY <1>2, <1>3 DEF Writes
<1>6. man[h].added \subseteq Parts(h)
  BY DEF Sound
<1> QED
  BY <1>1, <1>2, <1>3, <1>4, <1>6 DEF Taken

\* The leaves that cmd writes.
WrittenBy(cmd, h) == IF cmd = "apply" THEN Writes(h) ELSE Taken(h)
At(h, S) == {<<h, p>> : p \in S}
WrittenIn(cmd, hs) == {l \in Leaves : l[1] \in hs
                                      /\ l[2] \in WrittenBy(cmd, l[1])}

\* One part after another.
LEMMA ListsParts ==
  ASSUME NEW cmd, NEW h, NEW S, NEW P, NEW Q, NEW s, NEW t,
         Lists(s, At(h, S \cap P), cmd), Lists(t, At(h, S \cap Q), cmd),
         P \cap Q = {}
  PROVE  Lists(s \o t, At(h, S \cap (P \cup Q)), cmd)
<1>1. At(h, S \cap P) \cap At(h, S \cap Q) = {}
  BY DEF At
<1>2. At(h, S \cap P) \cup At(h, S \cap Q) = At(h, S \cap (P \cup Q))
  BY DEF At
<1> QED
  BY <1>1, <1>2, ListsBoth

\* The step for one part.
LEMMA ListsPut ==
  ASSUME SetupTypes, Sound(man), NEW h \in Harnesses, NEW p
  PROVE  /\ Lists(PutStep(h, p), At(h, Writes(h) \cap {p}), "apply")
         /\ Lists(TakeStep(h, p), At(h, Taken(h) \cap {p}), "remove")
<1> DEFINE l == <<h, p>>
           sp == PieceStep("apply", l)
           st == PieceStep("remove", l)
<1>1. /\ sp = [do |-> "put", leaf |-> l, val |-> After(l)]
      /\ st = [do |-> "take", leaf |-> l, val |-> Empty]
  BY DEF PieceStep
<1>2. /\ Writing(sp) /\ Writing(st) /\ sp.leaf = l /\ st.leaf = l
      /\ sp.do \notin {"manifest", "end"} /\ st.do \notin {"manifest", "end"}
  BY <1>1 DEF Writing
<1>3. /\ PutStep(h, p) = When(p \in Writes(h), sp)
      /\ TakeStep(h, p) = When(p \in Taken(h), st)
  BY <1>1 DEF PutStep, TakeStep
<1>4. /\ p \in Writes(h) => sp \in SetupSteps
      /\ p \in Taken(h) => st \in SetupSteps
  BY WrittenParts, PlanValues
<1>5. sp = PieceStep("apply", sp.leaf) /\ st = PieceStep("remove", st.leaf)
  BY <1>2
<1> HIDE DEF sp, st
<1>6. Lists(PutStep(h, p), At(h, Writes(h) \cap {p}), "apply")
  <2>1. CASE p \in Writes(h)
    <3>1. Lists(<<sp>>, {l}, "apply")
      BY <1>2, <1>4, <1>5, <2>1, ListsStep
    <3>2. At(h, Writes(h) \cap {p}) = {l}
      BY <2>1 DEF At
    <3> QED
      BY <1>3, <2>1, <3>1, <3>2 DEF When
  <2>2. CASE p \notin Writes(h)
    <3>1. At(h, Writes(h) \cap {p}) = {}
      BY <2>2 DEF At
    <3> QED
      BY <1>3, <2>2, <3>1, ListsNothing DEF When
  <2> QED
    BY <2>1, <2>2
<1>7. Lists(TakeStep(h, p), At(h, Taken(h) \cap {p}), "remove")
  <2>1. CASE p \in Taken(h)
    <3>1. Lists(<<st>>, {l}, "remove")
      BY <1>2, <1>4, <1>5, <2>1, ListsStep
    <3>2. At(h, Taken(h) \cap {p}) = {l}
      BY <2>1 DEF At
    <3> QED
      BY <1>3, <2>1, <3>1, <3>2 DEF When
  <2>2. CASE p \notin Taken(h)
    <3>1. At(h, Taken(h) \cap {p}) = {}
      BY <2>2 DEF At
    <3> QED
      BY <1>3, <2>2, <3>1, ListsNothing DEF When
  <2> QED
    BY <2>1, <2>2
<1> QED
  BY <1>6, <1>7

\* A step on launchd writes nothing.
LEMMA ListsLaunchd ==
  ASSUME NEW cmd, NEW ok \in BOOLEAN, NEW do \in {"join", "unjoin", "unload"},
         ok => "codex" \in Harnesses
  PROVE  Lists(When(ok, [do |-> do, leaf |-> <<"codex", "plist">>,
                         val |-> Empty]), {}, cmd)
<1> DEFINE s == [do |-> do, leaf |-> <<"codex", "plist">>, val |-> Empty]
<1>1. ~Writing(s) /\ s.do \notin {"manifest", "end"}
  BY DEF Writing
<1>2. ok => s \in SetupSteps
  <2>1. ok => <<"codex", "plist">> \in Leaves
    BY LeafParts, PartNames
  <2> QED
    BY <2>1, Values DEF SetupSteps, SetupWords
<1> HIDE DEF s
<1>3. Lists(When(ok, s), IF ok /\ Writing(s) THEN {s.leaf} ELSE {}, cmd)
  BY <1>1, <1>2, ListsWhen
<1> QED
  BY <1>1, <1>3 DEF s

\* The steps for one harness.
LEMMA ListsApply ==
  ASSUME SetupTypes, Sound(man), NEW h \in Harnesses
  PROVE  Lists(ApplySteps(h), At(h, Writes(h)), "apply")
<1> DEFINE W == Writes(h)
           J == When(h = "codex" /\ ~man[h].has,
                     [do |-> "join", leaf |-> <<h, "plist">>, val |-> Empty])
           s2 == PutStep(h, "config") \o PutStep(h, "plugin")
           s3 == s2 \o PutStep(h, "marker")
           s4 == s3 \o PutStep(h, "plist")
           s5 == s4 \o J
           s6 == s5 \o PutStep(h, "skill")
<1>1. \A p : Lists(PutStep(h, p), At(h, W \cap {p}), "apply")
  BY ListsPut
<1>2. Lists(J, At(h, W \cap {}), "apply")
  <2>1. At(h, W \cap {}) = {}
    BY DEF At
  <2>2. CASE h = "codex"
    <3>1. J = When(~man[h].has, [do |-> "join", leaf |-> <<"codex", "plist">>,
                                 val |-> Empty])
      BY <2>2
    <3>2. (~man[h].has) \in BOOLEAN
      OBVIOUS
    <3> QED
      BY <2>1, <2>2, <3>1, <3>2, ListsLaunchd
  <2>3. CASE h # "codex"
    BY <2>1, <2>3, ListsNothing DEF When
  <2> QED
    BY <2>2, <2>3
<1>w. PICK w : w = W
  OBVIOUS
<1> HIDE DEF J, W
<1>3. Lists(s2, At(h, w \cap ({"config"} \cup {"plugin"})), "apply")
  BY <1>1, <1>w, ListsParts
<1> HIDE DEF s2
<1>4. Lists(s3, At(h, w \cap (({"config"} \cup {"plugin"}) \cup {"marker"})),
            "apply")
  BY <1>1, <1>w, <1>3, ListsParts
<1> HIDE DEF s3
<1>5. Lists(s4, At(h, w \cap ((({"config"} \cup {"plugin"}) \cup {"marker"})
                               \cup {"plist"})), "apply")
  BY <1>1, <1>w, <1>4, ListsParts
<1> HIDE DEF s4
<1>6. Lists(s5, At(h, w \cap (((({"config"} \cup {"plugin"}) \cup {"marker"})
                               \cup {"plist"}) \cup {})), "apply")
  BY <1>2, <1>w, <1>5, ListsParts
<1> HIDE DEF s5
<1>7. Lists(s6, At(h, w \cap ((((({"config"} \cup {"plugin"})
                 \cup {"marker"}) \cup {"plist"}) \cup {}) \cup {"skill"})),
            "apply")
  BY <1>1, <1>w, <1>6, ListsParts
<1>8. w \subseteq AllParts
  BY <1>w, WrittenParts DEF W
<1>9. w \cap ((((({"config"} \cup {"plugin"}) \cup {"marker"}) \cup {"plist"})
                 \cup {}) \cup {"skill"}) = w
  BY <1>8 DEF AllParts
<1>10. ApplySteps(h) = s6
  BY DEF ApplySteps, s5, s4, s3, s2, J
<1> QED
  BY <1>7, <1>9, <1>10, <1>w DEF W

\* The steps that take a harness out.
LEMMA ListsRemove ==
  ASSUME SetupTypes, Sound(man), NEW h \in Harnesses
  PROVE  Lists(RemoveSteps(h), At(h, Taken(h)), "remove")
<1> DEFINE s2 == TakeStep(h, "config") \o TakeStep(h, "plugin")
           s3 == s2 \o TakeStep(h, "plist")
           s4 == s3 \o TakeStep(h, "skill")
           s5 == s4 \o TakeStep(h, "marker")
<1>w. PICK w : w = Taken(h)
  OBVIOUS
<1>1. \A p : Lists(TakeStep(h, p), At(h, w \cap {p}), "remove")
  BY <1>w, ListsPut
<1>3. Lists(s2, At(h, w \cap ({"config"} \cup {"plugin"})), "remove")
  BY <1>1, ListsParts
<1> HIDE DEF s2
<1>4. Lists(s3, At(h, w \cap (({"config"} \cup {"plugin"}) \cup {"plist"})),
            "remove")
  BY <1>1, <1>3, ListsParts
<1> HIDE DEF s3
<1>5. Lists(s4, At(h, w \cap ((({"config"} \cup {"plugin"}) \cup {"plist"})
                               \cup {"skill"})), "remove")
  BY <1>1, <1>4, ListsParts
<1> HIDE DEF s4
<1>6. Lists(s5, At(h, w \cap (((({"config"} \cup {"plugin"}) \cup {"plist"})
                               \cup {"skill"}) \cup {"marker"})), "remove")
  BY <1>1, <1>5, ListsParts
<1>8. w \subseteq AllParts
  BY <1>w, WrittenParts
<1>9. w \cap (((({"config"} \cup {"plugin"}) \cup {"plist"})
                               \cup {"skill"}) \cup {"marker"}) = w
  BY <1>8 DEF AllParts
<1>10. RemoveSteps(h) = s5
  BY DEF RemoveSteps, s4, s3, s2
<1> QED
  BY <1>6, <1>9, <1>10, <1>w

\* The whole plan.
LEMMA ListsPlan ==
  ASSUME SetupTypes, Sound(man), NEW cmd \in {"apply", "remove"},
         NEW hs \in SUBSET Harnesses
  PROVE  Lists(PlanSteps(cmd, hs), WrittenIn(cmd, hs), cmd)
<1> DEFINE T == IF cmd = "apply" THEN <<>> ELSE Teardown(hs)
           L(h) == {l \in WrittenIn(cmd, hs) : l[1] = h}
           s1 == T \o StepsOf(cmd, hs, "claude")
           s2 == s1 \o StepsOf(cmd, hs, "hermes")
           s3 == s2 \o StepsOf(cmd, hs, "codex")
<1>1. Lists(T, {}, cmd)
  <2> DEFINE u == [do |-> "unjoin", leaf |-> <<"codex", "plist">>,
                   val |-> Empty]
             v == [do |-> "unload", leaf |-> <<"codex", "plist">>,
                   val |-> Empty]
  <2>1. Lists(When("codex" \in hs, u), {}, cmd)
    <3>1. /\ ("codex" \in hs) \in BOOLEAN
          /\ "codex" \in hs => "codex" \in Harnesses
      OBVIOUS
    <3> QED
      BY <3>1, ListsLaunchd
  <2>2. /\ NeedsUnload(hs) \in BOOLEAN
        /\ NeedsUnload(hs) => "codex" \in Harnesses
    BY DEF NeedsUnload
  <2>3. Lists(When(NeedsUnload(hs), v), {}, cmd)
    BY <2>2, ListsLaunchd
  <2> HIDE DEF u, v
  <2>4. Lists(When("codex" \in hs, u) \o When(NeedsUnload(hs), v),
              {} \cup {}, cmd)
    BY <2>1, <2>3, ListsBoth
  <2>5. Teardown(hs) = When("codex" \in hs, u) \o When(NeedsUnload(hs), v)
    BY DEF Teardown, u, v
  <2> QED
    BY <2>4, <2>5, ListsNothing
<1>2. ASSUME NEW h PROVE Lists(StepsOf(cmd, hs, h), L(h), cmd)
  <2>1. CASE h \notin hs
    <3>1. L(h) = {}
      BY <2>1 DEF WrittenIn
    <3> QED
      BY <2>1, <3>1, ListsNothing DEF StepsOf
  <2>2. CASE h \in hs
    <3>1. L(h) = At(h, WrittenBy(cmd, h))
      <4>1. /\ WrittenBy(cmd, h) \subseteq Parts(h)
            /\ \A p \in Parts(h) : <<h, p>> \in Leaves
        BY <2>2, WrittenParts DEF WrittenBy
      <4>2. \A l \in Leaves : l = <<l[1], l[2]>>
        BY LeafParts
      <4> QED
        BY <2>2, <4>1, <4>2 DEF WrittenIn, At
    <3>2. h \in Harnesses
      BY <2>2
    <3> QED
      BY <2>2, <3>1, <3>2, ListsApply, ListsRemove DEF StepsOf, WrittenBy
  <2> QED
    BY <2>1, <2>2
<1>3. /\ \A h, k : h # k => L(h) \cap L(k) = {}
      /\ WrittenIn(cmd, hs) = {} \cup L("claude") \cup L("hermes")
                              \cup L("codex")
  BY SetupAssumption DEF WrittenIn
<1>4. PlanSteps(cmd, hs) = s3
  BY DEF PlanSteps
<1> HIDE DEF T, L
<1>5. Lists(s1, {} \cup L("claude"), cmd)
  BY <1>1, <1>2, ListsBoth
<1> HIDE DEF s1
<1>6. Lists(s2, {} \cup L("claude") \cup L("hermes"), cmd)
  <2>1. ({} \cup L("claude")) \cap L("hermes") = {}
    BY <1>3
  <2> QED
    BY <1>2, <1>5, <2>1, ListsBoth
<1> HIDE DEF s2
<1>7. Lists(s3, {} \cup L("claude") \cup L("hermes") \cup L("codex"), cmd)
  <2>1. ({} \cup L("claude") \cup L("hermes")) \cap L("codex") = {}
    BY <1>3
  <2> QED
    BY <1>2, <1>6, <2>1, ListsBoth
<1> QED
  BY <1>3, <1>4, <1>7

\* What a plan may rely on at a leaf.
LEMMA LeafFacts ==
  ASSUME HarnessInv, NEW l \in Leaves
  PROVE  /\ disk[l] \in Contents /\ user[l] \in Contents
         /\ disk[l].text = user[l].text /\ user[l].gens \subseteq disk[l].gens
         /\ l[1] \in Harnesses /\ l[2] \in Parts(l[1]) /\ l = <<l[1], l[2]>>
         /\ man[l[1]] \in Records /\ Want(l) \in Gens /\ release \in Gens
         /\ l[2] \in man[l[1]].added =>
              /\ man[l[1]].has /\ l[2] # "marker"
              /\ GenOf(l, man[l[1]]) \in Gens \ user[l].gens
         /\ l[2] \in {"marker", "plist"} => user[l] = Empty
         /\ l[2] = "marker" => l \notin drift
         /\ Recorded(l) = GenOf(l, man[l[1]])
         /\ SetupTypes /\ Sound(man)
         /\ man[l[1]].gen \in Nat
<1>1. SetupTypes /\ Users /\ Keeps(disk) /\ Sound(man)
  BY DEF HarnessInv
<1>2. l[1] \in Harnesses /\ l[2] \in Parts(l[1]) /\ l = <<l[1], l[2]>>
  BY LeafParts
<1>3. disk[l] \in Contents /\ user[l] \in Contents /\ man[l[1]] \in Records
  BY <1>1, <1>2 DEF SetupTypes, Disks, Manifests
<1>4. Want(l) \in Gens /\ release \in Gens
  BY <1>1, PlanValues DEF SetupTypes
<1>5. man[l[1]].gen \in Nat
  BY <1>3, SetupAssumption DEF Records
<1> QED
  BY <1>1, <1>2, <1>3, <1>4, <1>5 DEF Keeps, Users, Sound, Recorded, GenOf

\* A harness without a record is onboarded where there is room.
LEMMA OnboardLeaf ==
  ASSUME HarnessInv, NEW m, NEW l \in Leaves, ~man[l[1]].has, CanAdd(l[1]),
         m[l[1]] = ApplyRecord(l[1])
  PROVE  /\ l[2] \in m[l[1]].added =>
              /\ m[l[1]].has /\ l[2] # "marker"
              /\ GenOf(l, m[l[1]]) \in Gens \ user[l].gens
         /\ l[2] \in Writes(l[1]) => PutKeeps(PieceStep("apply", l))
         /\ Wholly(disk, man) =>
              /\ l[2] \in Writes(l[1]) => PutExact(PieceStep("apply", l), m)
              /\ l[2] \notin Writes(l[1]) =>
                   ExactAt(l, user[l], disk[l].gens, m[l[1]], l \in drift)
              /\ ClaimedAt(l, user[l], m[l[1]], l \in drift)
<1> DEFINE h == l[1]
           p == l[2]
<1>1. /\ disk[l] \in Contents /\ user[l] \in Contents
      /\ disk[l].text = user[l].text /\ user[l].gens \subseteq disk[l].gens
      /\ h \in Harnesses /\ p \in Parts(h) /\ l = <<h, p>>
      /\ Want(l) \in Gens /\ p \notin man[h].added
      /\ p \in {"marker", "plist"} => user[l] = Empty
  BY LeafFacts
<1>2. m[h] = [has |-> TRUE, added |-> Missing(h), gen |-> release]
  BY DEF ApplyRecord, Prepared
<1>3. GenOf(l, m[h]) = Want(l)
  BY <1>2 DEF GenOf, Want
<1>4. p \in Missing(h) => p # "marker" /\ Want(l) \notin disk[l].gens
  BY <1>1 DEF Missing
<1>5. p # "marker" => (p \in Missing(h) <=> Want(l) \notin disk[l].gens)
  BY <1>1 DEF Missing
<1>6. p # "marker" => (p \in Writes(h) <=> p \in Missing(h))
  BY DEF Writes
<1>7. p = "marker" => h = "codex" /\ disk[l] = Empty
  BY <1>1, PartNames DEF CanAdd
<1>8. p \notin {"config", "marker"} => Free(l)
  BY <1>1 DEF CanAdd
<1>9. p \in Missing(h) /\ p # "config" => disk[l] = Empty
  BY <1>4, <1>8 DEF Free
<1>10. p \in Writes(h) /\ p # "config" => disk[l] = Empty
  BY <1>6, <1>7, <1>9
<1>11. /\ PieceStep("apply", l).val.text = disk[l].text
       /\ PieceStep("apply", l).leaf = l
       /\ PieceStep("apply", l).val.gens =
            IF p = "config" THEN disk[l].gens \cup {Want(l)} ELSE {Want(l)}
  BY DEF PieceStep, After
<1>12. p = "marker" => Want(l) = release
  BY <1>1, <1>7 DEF Want, Follows
<1>13. PutKeeps(PieceStep("apply", l)) \/ p \notin Writes(h)
  BY <1>1, <1>10, <1>11, Values DEF PutKeeps
<1>14. p \in m[h].added =>
         /\ m[h].has /\ p # "marker" /\ GenOf(l, m[h]) \in Gens \ user[l].gens
  BY <1>1, <1>2, <1>3, <1>4
<1>15. ASSUME Wholly(disk, man)
       PROVE  p # "marker" => disk[l].gens = user[l].gens
  BY <1>1, <1>15 DEF Wholly, ExactAt
<1>16. ASSUME Wholly(disk, man)
       PROVE  ClaimedAt(l, user[l], m[h], l \in drift)
  BY <1>2, <1>5, <1>15, <1>16 DEF ClaimedAt
<1>17. ASSUME Wholly(disk, man), p \notin Writes(h)
       PROVE  ExactAt(l, user[l], disk[l].gens, m[h], l \in drift)
  BY <1>2, <1>6, <1>7, <1>15, <1>17, Values DEF ExactAt
<1>18. ASSUME Wholly(disk, man), p \in Writes(h)
       PROVE  PutExact(PieceStep("apply", l), m)
  <2>1. ExactAt(l, user[l], PieceStep("apply", l).val.gens, m[h], FALSE)
    <3>1. CASE p = "marker"
      BY <1>2, <1>11, <1>12, <3>1 DEF ExactAt
    <3>2. CASE p = "config"
      BY <1>2, <1>3, <1>6, <1>11, <1>15, <1>18, <3>2 DEF ExactAt
    <3>3. CASE p \notin {"config", "marker"}
      <4>1. user[l].gens = {}
        BY <1>1, <1>10, <1>18, <3>3, Values
      <4>2. p \in m[h].added /\ p # "marker"
        BY <1>2, <1>6, <1>18, <3>3
      <4>3. PieceStep("apply", l).val.gens = {GenOf(l, m[h])}
        BY <1>3, <1>11, <3>3
      <4> QED
        BY <4>1, <4>2, <4>3 DEF ExactAt
    <3> QED
      BY <3>1, <3>2, <3>3
  <2>2. ClaimedAt(l, user[l], m[h], FALSE)
    BY <1>2, <1>6, <1>18 DEF ClaimedAt
  <2> QED
    BY <1>11, <2>1, <2>2 DEF PutExact
<1> QED
  BY <1>13, <1>14, <1>16, <1>17, <1>18

\* A fragment or a definition that setup put there is replaced by the one of
\* the new release.
LEMMA UpgradeLeaf ==
  ASSUME HarnessInv, NEW m, NEW l \in Leaves, man[l[1]].has, Prepared(l[1]),
         CanUpgrade(l[1]), m[l[1]] = ApplyRecord(l[1])
  PROVE  /\ l[2] \in m[l[1]].added =>
              /\ m[l[1]].has /\ l[2] # "marker"
              /\ GenOf(l, m[l[1]]) \in Gens \ user[l].gens
         /\ l[2] \in Writes(l[1]) => PutKeeps(PieceStep("apply", l))
         /\ Wholly(disk, man) =>
              /\ l[2] \in Writes(l[1]) => PutExact(PieceStep("apply", l), m)
              /\ l[2] \notin Writes(l[1]) =>
                   ExactAt(l, user[l], disk[l].gens, m[l[1]], l \in drift)
              /\ ClaimedAt(l, user[l], m[l[1]], l \in drift)
<1> DEFINE h == l[1]
           p == l[2]
<1>1. /\ disk[l] \in Contents /\ user[l] \in Contents
      /\ disk[l].text = user[l].text /\ user[l].gens \subseteq disk[l].gens
      /\ h \in Harnesses /\ p \in Parts(h) /\ l = <<h, p>>
      /\ Want(l) \in Gens /\ man[h] \in Records
      /\ p \in man[h].added => /\ p # "marker"
                               /\ GenOf(l, man[h]) \in Gens \ user[l].gens
      /\ p \in {"marker", "plist"} => user[l] = Empty
      /\ p = "marker" => l \notin drift
      /\ Recorded(l) = GenOf(l, man[h]) /\ release \in Gens
  BY LeafFacts
<1>2. h \in {"claude", "codex"} /\ man[h].gen # release
  BY <1>1, SetupAssumption DEF Prepared
<1>3. /\ m[h].has /\ m[h].added = man[h].added /\ m[h].gen = release
  BY <1>1 DEF ApplyRecord, Records
<1>4. Follows(l) <=> p \in Writes(h)
  <2>1. Writes(h) = IF h = "claude" THEN {"config"} ELSE {"plist", "marker"}
    BY <1>2 DEF Writes
  <2>2. CASE h = "claude"
    <3>1. Follows(l) <=> p = "config"
      BY <1>1, <2>2 DEF Follows
    <3> QED
      BY <2>1, <2>2, <3>1
  <2>3. CASE h = "codex"
    <3>1. Follows(l) <=> p \in {"plist", "marker"}
      BY <1>1, <2>3 DEF Follows
    <3> QED
      BY <2>1, <2>3, <3>1
  <2> QED
    BY <1>2, <2>2, <2>3
<1>5. /\ Follows(l) => /\ GenOf(l, m[h]) = release /\ Want(l) = release
                       /\ GenOf(l, man[h]) = man[h].gen
      /\ ~Follows(l) => GenOf(l, m[h]) = GenOf(l, man[h])
  BY <1>3 DEF GenOf, Want
<1>6. p # "marker" => Present(l)
  BY <1>1 DEF CanUpgrade, Valid
<1>7. Follows(l) /\ p = "config" => /\ p \in man[h].added
                                    /\ release \notin disk[l].gens
                                    /\ man[h].gen \in disk[l].gens
  <2>1. Follows(l) /\ p = "config" => h = "claude"
    BY <1>1 DEF Follows
  <2> QED
    BY <1>1, <1>2, <1>5, <1>6, <2>1 DEF CanUpgrade, Present
<1>8. Follows(l) /\ p # "config" => user[l] = Empty /\ disk[l].text = 0
  <2>1. Follows(l) /\ p # "config" => p \in {"plist", "marker"}
    BY <1>1 DEF Follows
  <2> QED
    BY <1>1, <2>1, Values
<1>9. /\ PieceStep("apply", l).val.text = disk[l].text
      /\ PieceStep("apply", l).leaf = l
      /\ PieceStep("apply", l).val.gens =
           IF p = "config" THEN (disk[l].gens \ {Recorded(l)}) \cup {Want(l)}
           ELSE {Want(l)}
  BY DEF PieceStep, After
<1>10. p \in m[h].added =>
         /\ m[h].has /\ p # "marker" /\ GenOf(l, m[h]) \in Gens \ user[l].gens
  BY <1>1, <1>3, <1>5, <1>7, <1>8, Values
<1>11. p \in Writes(h) => PutKeeps(PieceStep("apply", l))
  <2>1. CASE p = "config"
    BY <1>1, <1>4, <1>5, <1>7, <1>9, <2>1 DEF PutKeeps
  <2>2. CASE p # "config"
    BY <1>1, <1>4, <1>8, <1>9, <2>2, Values DEF PutKeeps
  <2> QED
    BY <2>1, <2>2
<1>12. ASSUME Wholly(disk, man)
       PROVE  /\ ExactAt(l, user[l], disk[l].gens, man[h], l \in drift)
              /\ ClaimedAt(l, user[l], man[h], l \in drift)
  BY <1>12 DEF Wholly
<1>13. ASSUME Wholly(disk, man), p \notin Writes(h)
       PROVE  ExactAt(l, user[l], disk[l].gens, m[h], l \in drift)
  <2>1. p # "marker"
    BY <1>1, <1>4, <1>13, PartNames DEF Follows
  <2> QED
    BY <1>3, <1>4, <1>5, <1>12, <1>13, <2>1 DEF ExactAt
<1>14. ASSUME Wholly(disk, man)
       PROVE  ClaimedAt(l, user[l], m[h], l \in drift)
  BY <1>3, <1>12, <1>14 DEF ClaimedAt
<1>15. ASSUME Wholly(disk, man), p \in Writes(h)
       PROVE  PutExact(PieceStep("apply", l), m)
  <2>1. Follows(l)
    BY <1>4, <1>15
  <2>2. l \notin drift /\ (p # "marker" => p \in man[h].added)
    <3>1. CASE p = "marker"
      BY <1>1, <3>1
    <3>2. CASE p = "config"
      BY <1>1, <1>5, <1>7, <1>12, <1>15, <2>1, <3>2 DEF ExactAt
    <3>3. CASE p \notin {"config", "marker"}
      <4>1. disk[l].gens = {man[h].gen}
        BY <1>1, <1>5, <1>6, <2>1, <3>3 DEF Present
      <4>2. user[l].gens = {}
        BY <1>8, <2>1, <3>3, Values
      <4> QED
        BY <1>12, <1>15, <3>3, <4>1, <4>2 DEF ExactAt
    <3> QED
      BY <3>1, <3>2, <3>3
  <2>3. ExactAt(l, user[l], PieceStep("apply", l).val.gens, m[h], FALSE)
    <3>1. CASE p = "marker"
      BY <1>3, <1>5, <1>9, <2>1, <3>1 DEF ExactAt
    <3>2. CASE p = "config"
      <4>1. disk[l].gens = user[l].gens \cup {man[h].gen}
        BY <1>5, <1>12, <1>15, <2>1, <2>2, <3>2 DEF ExactAt
      <4>2. PieceStep("apply", l).val.gens = user[l].gens \cup {release}
        BY <1>1, <1>5, <1>9, <2>1, <2>2, <3>2, <4>1
      <4> QED
        BY <1>3, <1>5, <2>1, <2>2, <3>2, <4>2 DEF ExactAt
    <3>3. CASE p \notin {"config", "marker"}
      <4>1. user[l].gens = {}
        BY <1>8, <2>1, <3>3, Values
      <4> QED
        BY <1>3, <1>5, <1>9, <2>1, <2>2, <3>3, <4>1 DEF ExactAt
    <3> QED
      BY <3>1, <3>2, <3>3
  <2>4. ClaimedAt(l, user[l], m[h], FALSE)
    BY <1>3, <2>2 DEF ClaimedAt
  <2> QED
    BY <1>9, <2>2, <2>3, <2>4 DEF PutExact
<1> QED
  BY <1>10, <1>11, <1>13, <1>14, <1>15

\* What a removal takes is what setup added.
LEMMA RemoveLeaf ==
  ASSUME HarnessInv, NEW m, NEW l \in Leaves, CanRemove(l[1]),
         m[l[1]] = NoRecord
  PROVE  /\ l[2] \in Taken(l[1]) => TakeKeeps(PieceStep("remove", l))
         /\ Wholly(disk, man) =>
              /\ l[2] \in Taken(l[1]) => TakeExact(PieceStep("remove", l), m)
              /\ l[2] \notin Taken(l[1]) =>
                   ExactAt(l, user[l], disk[l].gens, m[l[1]], l \in drift)
              /\ ClaimedAt(l, user[l], m[l[1]], l \in drift)
<1> DEFINE h == l[1]
           p == l[2]
<1>1. /\ disk[l] \in Contents /\ user[l] \in Contents
      /\ disk[l].text = user[l].text /\ user[l].gens \subseteq disk[l].gens
      /\ h \in Harnesses /\ p \in Parts(h) /\ l = <<h, p>>
      /\ p \in man[h].added => /\ p # "marker"
                               /\ GenOf(l, man[h]) \in Gens \ user[l].gens
      /\ p \in {"marker", "plist"} => user[l] = Empty
      /\ Recorded(l) = GenOf(l, man[h])
  BY LeafFacts
<1>2. ~m[h].has /\ m[h].added = {}
  BY DEF NoRecord
<1>3. /\ p = "marker" => p \in Taken(h)
      /\ p # "marker" => (p \in Taken(h) <=> p \in man[h].added)
  BY <1>1, PartNames DEF Taken
<1>4. p \in man[h].added => Present(l)
  BY <1>1 DEF CanRemove, Valid
<1>5. p \in Taken(h) /\ p # "config" => user[l] = Empty
  <2>1. CASE p = "marker"
    BY <1>1, <2>1
  <2>2. CASE p \in man[h].added /\ p # "config"
    <3>1. disk[l] = [text |-> 0, gens |-> {Recorded(l)}]
      BY <1>4, <2>2 DEF Present
    <3>2. user[l].text = 0 /\ user[l].gens = {}
      BY <1>1, <2>2, <3>1
    <3> QED
      BY <1>1, <3>2 DEF Contents, Empty
  <2> QED
    BY <1>3, <2>1, <2>2
<1>6. PieceStep("remove", l).leaf = l
  BY DEF PieceStep
<1>7. p \in Taken(h) => TakeKeeps(PieceStep("remove", l))
  BY <1>1, <1>3, <1>5, <1>6 DEF TakeKeeps
<1>8. ClaimedAt(l, user[l], m[h], l \in drift)
  BY <1>2 DEF ClaimedAt
<1>9. ASSUME Wholly(disk, man)
      PROVE  ExactAt(l, user[l], disk[l].gens, man[h], l \in drift)
  BY <1>9 DEF Wholly
<1>10. ASSUME Wholly(disk, man), p \notin Taken(h)
       PROVE  ExactAt(l, user[l], disk[l].gens, m[h], l \in drift)
  BY <1>2, <1>3, <1>9, <1>10 DEF ExactAt
<1>11. ASSUME Wholly(disk, man), p \in Taken(h)
       PROVE  TakeExact(PieceStep("remove", l), m)
  <2>1. CASE p = "config"
    <3>1. disk[l].gens \ {Recorded(l)} = user[l].gens
      BY <1>1, <1>3, <1>9, <1>11, <2>1 DEF ExactAt
    <3> QED
      BY <1>2, <1>6, <2>1, <3>1 DEF TakeExact, ExactAt
  <2>2. CASE p # "config"
    BY <1>2, <1>5, <1>6, <1>11, <2>2, Values DEF TakeExact, ExactAt
  <2> QED
    BY <2>1, <2>2
<1> QED
  BY <1>7, <1>8, <1>10, <1>11

\* What is planned keeps the user's pieces and leads to the manifest to publish.
LEMMA PlanPlanned ==
  ASSUME HarnessInv, NEW cmd \in {"apply", "remove"},
         NEW hs \in SUBSET Harnesses,
         broken = "no" => Wholly(disk, man),
         \A h \in hs : IF cmd = "apply" THEN Prepared(h) /\ CanApply(h)
                       ELSE man[h].has /\ CanRemove(h)
  PROVE  /\ PlanRecord(cmd, hs) \in Manifests
         /\ PlanSteps(cmd, hs) \in Seq(SetupSteps)
         /\ Planned(PlanSteps(cmd, hs), PlanRecord(cmd, hs))
         /\ \A i \in DOMAIN PlanSteps(cmd, hs) :
              PlanSteps(cmd, hs)[i].do \notin {"manifest", "end"}
<1>0. SetupTypes /\ Sound(man)
  BY DEF HarnessInv
<1> DEFINE t == PlanSteps(cmd, hs)
           m == PlanRecord(cmd, hs)
<1>1. Lists(t, WrittenIn(cmd, hs), cmd)
  BY <1>0, ListsPlan
<1>2. \A h \in Harnesses :
        m[h] = IF h \notin hs THEN man[h]
               ELSE IF cmd = "apply" THEN ApplyRecord(h) ELSE NoRecord
  BY DEF PlanRecord
<1>3. \A h \in Harnesses : m[h] \in Records /\ m[h].added \subseteq Parts(h)
  <2> TAKE h \in Harnesses
  <2>1. man[h] \in Records /\ man[h].added \subseteq Parts(h)
    BY <1>0 DEF SetupTypes, Manifests, Sound
  <2>2. release \in 0..MaxGen
    BY <1>0, SetupAssumption DEF SetupTypes, Gens
  <2>3. Missing(h) \subseteq Parts(h) /\ Missing(h) \subseteq AllParts
    BY <1>0, WrittenParts
  <2>4. ApplyRecord(h) \in Records /\ ApplyRecord(h).added \subseteq Parts(h)
    <3>1. CASE ~Prepared(h)
      BY <2>1, <3>1 DEF ApplyRecord
    <3>2. CASE Prepared(h) /\ man[h].has
      BY <2>1, <2>2, <3>2 DEF ApplyRecord, Records
    <3>3. CASE Prepared(h) /\ ~man[h].has
      BY <2>2, <2>3, <3>3 DEF ApplyRecord, Records
    <3> QED
      BY <3>1, <3>2, <3>3
  <2>5. NoRecord \in Records /\ NoRecord.added \subseteq Parts(h)
    BY Values DEF NoRecord
  <2> QED
    BY <1>2, <2>1, <2>4, <2>5
<1>4. m \in Manifests
  BY <1>3 DEF PlanRecord, Manifests
<1> HIDE DEF t, m
<1>5. ASSUME NEW l \in Leaves
      PROVE  /\ l[2] \in m[l[1]].added =>
                  /\ m[l[1]].has /\ l[2] # "marker"
                  /\ GenOf(l, m[l[1]]) \in Gens \ user[l].gens
             /\ l \in WrittenIn(cmd, hs) =>
                  IF cmd = "apply" THEN PutKeeps(PieceStep(cmd, l))
                  ELSE TakeKeeps(PieceStep(cmd, l))
             /\ broken = "no" =>
                  /\ l \in WrittenIn(cmd, hs) =>
                       IF cmd = "apply" THEN PutExact(PieceStep(cmd, l), m)
                       ELSE TakeExact(PieceStep(cmd, l), m)
                  /\ l \notin WrittenIn(cmd, hs) =>
                       ExactAt(l, user[l], disk[l].gens, m[l[1]], l \in drift)
                  /\ ClaimedAt(l, user[l], m[l[1]], l \in drift)
  <2>1. l[1] \in Harnesses
    BY LeafParts
  <2>2. CASE l[1] \notin hs
    <3>1. m[l[1]] = man[l[1]] /\ l \notin WrittenIn(cmd, hs)
      BY <1>2, <2>1, <2>2 DEF WrittenIn
    <3> QED
      BY <1>0, <3>1 DEF Wholly, Sound
  <2>3. CASE l[1] \in hs /\ cmd = "apply"
    <3>1. /\ m[l[1]] = ApplyRecord(l[1]) /\ CanApply(l[1]) /\ Prepared(l[1])
          /\ l \in WrittenIn(cmd, hs) <=> l[2] \in Writes(l[1])
      BY <1>2, <2>1, <2>3 DEF WrittenIn, WrittenBy
    <3>2. CASE man[l[1]].has
      <4>1. CanUpgrade(l[1])
        BY <3>1, <3>2 DEF CanApply
      <4> QED
        BY <2>3, <3>1, <3>2, <4>1, UpgradeLeaf
    <3>3. CASE ~man[l[1]].has
      <4>1. CanAdd(l[1])
        BY <3>1, <3>3 DEF CanApply
      <4> QED
        BY <2>3, <3>1, <3>3, <4>1, OnboardLeaf
    <3> QED
      BY <3>2, <3>3
  <2>4. CASE l[1] \in hs /\ cmd = "remove"
    <3>1. /\ m[l[1]] = NoRecord /\ CanRemove(l[1])
          /\ l \in WrittenIn(cmd, hs) <=> l[2] \in Taken(l[1])
      BY <1>2, <2>1, <2>4 DEF WrittenIn, WrittenBy
    <3>2. m[l[1]].added = {}
      BY <3>1 DEF NoRecord
    <3> QED
      BY <2>4, <3>1, <3>2, RemoveLeaf
  <2> QED
    BY <2>2, <2>3, <2>4
<1>6. \A i \in DOMAIN t : Writing(t[i]) =>
        /\ t[i].leaf \in WrittenIn(cmd, hs) /\ t[i].leaf \in Leaves
        /\ t[i] = PieceStep(cmd, t[i].leaf)
        /\ t[i].do = IF cmd = "apply" THEN "put" ELSE "take"
  <2> SUFFICES ASSUME NEW i \in DOMAIN t, Writing(t[i])
               PROVE  /\ t[i].leaf \in WrittenIn(cmd, hs)
                      /\ t[i].leaf \in Leaves
                      /\ t[i] = PieceStep(cmd, t[i].leaf)
                      /\ t[i].do = IF cmd = "apply" THEN "put" ELSE "take"
    OBVIOUS
  <2>1. Pending(t, t[i].leaf)
    BY DEF Pending
  <2>2. t[i].leaf \in WrittenIn(cmd, hs) /\ t[i] = PieceStep(cmd, t[i].leaf)
    BY <1>1, <2>1 DEF Lists
  <2>3. PieceStep(cmd, t[i].leaf).do = IF cmd = "apply" THEN "put" ELSE "take"
    BY DEF PieceStep
  <2> QED
    BY <2>2, <2>3 DEF WrittenIn
<1>7. Sound(m)
  BY <1>3, <1>5 DEF Sound
<1>8. \A i \in DOMAIN t : /\ t[i].do = "put" => PutKeeps(t[i])
                          /\ t[i].do = "take" => TakeKeeps(t[i])
  <2> SUFFICES ASSUME NEW i \in DOMAIN t, Writing(t[i])
               PROVE  /\ t[i].do = "put" => PutKeeps(t[i])
                      /\ t[i].do = "take" => TakeKeeps(t[i])
    BY DEF Writing
  <2> QED
    BY <1>5, <1>6
<1>9. broken = "no" =>
        \A i \in DOMAIN t : /\ t[i].do = "put" => PutExact(t[i], m)
                            /\ t[i].do = "take" => TakeExact(t[i], m)
  <2> SUFFICES ASSUME broken = "no", NEW i \in DOMAIN t, Writing(t[i])
               PROVE  /\ t[i].do = "put" => PutExact(t[i], m)
                      /\ t[i].do = "take" => TakeExact(t[i], m)
    BY DEF Writing
  <2> QED
    BY <1>5, <1>6
<1>10. broken = "no" => LeadTo(t, m)
  BY <1>1, <1>5 DEF LeadTo, Lists
<1>11. Planned(t, m)
  BY <1>1, <1>7, <1>8, <1>9, <1>10 DEF Planned, Lists
<1> QED
  BY <1>1, <1>4, <1>11 DEF Lists, t, m

\* A plan is made of what is there, and is known to lead to its manifest.
LEMMA PlannedInv ==
  ASSUME HarnessInv, NEW c \in Procs, Plan(c) PROVE HarnessInv'
<1>1. /\ lock = c /\ pr[c].pc = "plan" /\ Admitted(c)
      /\ UNCHANGED <<disk, man, joined, loaded, lock, faults, drift, broken,
                     release, edits, user>>
  BY DEF Plan, Holds, Outside
<1>2. /\ pr[c] \in SetupFrames /\ pr \in [Procs -> SetupFrames]
      /\ disk \in Disks /\ man \in Manifests
      /\ joined \in BOOLEAN /\ loaded \in BOOLEAN
      /\ broken \in {"no", "reported", "killed"}
      /\ Keeps(disk) /\ Sound(man)
  BY <1>1, Holder DEF HarnessInv, SetupTypes
<1>3. PICK cmd \in {"apply", "remove"} :
        cmd = IF pr[c].cmd = "apply" THEN "apply" ELSE "remove"
  OBVIOUS
<1>4. PICK hs \in SUBSET Harnesses : hs = Selected(c)
  BY <1>2 DEF Selected, SetupFrames
<1>5. /\ PlanSteps(pr[c].cmd, hs) = PlanSteps(cmd, hs)
      /\ PlanRecord(pr[c].cmd, hs) = PlanRecord(cmd, hs)
  <2>1. \A h : StepsOf(pr[c].cmd, hs, h) = StepsOf(cmd, hs, h)
    BY <1>3 DEF StepsOf
  <2>2. PlanSteps(pr[c].cmd, hs) = PlanSteps(cmd, hs)
    BY <1>3, <2>1 DEF PlanSteps
  <2>3. PlanRecord(pr[c].cmd, hs) = PlanRecord(cmd, hs)
    BY <1>3 DEF PlanRecord
  <2> QED
    BY <2>2, <2>3
<1>6. \A h \in hs : IF cmd = "apply" THEN Prepared(h) /\ CanApply(h)
                    ELSE man[h].has /\ CanRemove(h)
  BY <1>1, <1>3, <1>4 DEF Selected, Admitted
<1>7. broken # "no" \/ Wholly(disk, man)
  BY <1>1, QuietWhole DEF Changing
<1>t. PICK t : t = PlanSteps(cmd, hs)
  OBVIOUS
<1>m. PICK m : m = PlanRecord(cmd, hs)
  OBVIOUS
<1>8. /\ m \in Manifests /\ t \in Seq(SetupSteps) /\ Planned(t, m)
      /\ \A i \in DOMAIN t : t[i].do \notin {"manifest", "end"}
  BY <1>6, <1>7, <1>t, <1>m, PlanPlanned
<1>f. PICK f : f = [pr[c] EXCEPT !.pc = "snap", !.hs = hs, !.new = m,
                                 !.todo = t]
  OBVIOUS
<1>9. pr' = [pr EXCEPT ![c] = f]
  BY <1>2, <1>4, <1>5, <1>f, <1>m, <1>t DEF Plan
<1>10. f \in SetupFrames /\ f.pc = "snap" /\ f.todo = t /\ f.new = m
  BY <1>2, <1>8, <1>f DEF SetupFrames, SetupPlaces
<1>11. CommandInv(f)
  BY <1>8, <1>10 DEF CommandInv, Changing
<1>12. CommandInv(f)'
  BY <1>1, <1>11, CommandSame
<1>13. Keeps(disk)' /\ Sound(man)' /\ (Wholly(disk, man) => Wholly(disk, man)')
  BY <1>1, <1>2 DEF Keeps, Sound, Wholly
<1>14. lock' = IF f.pc \in {"idle", "ask"} THEN none ELSE c
  BY <1>1, <1>10
<1> QED
  BY <1>1, <1>2, <1>7, <1>9, <1>10, <1>12, <1>13, <1>14, CommandFrame

\* The manifest is put after the steps.
LEMMA FinalSteps ==
  ASSUME NEW s \in Seq(SetupSteps), NEW m, Planned(s, m),
         \A i \in DOMAIN s : s[i].do \notin {"manifest", "end"},
         NEW t, t = s \o <<[do |-> "manifest", leaf |-> none, val |-> Empty],
                           [do |-> "end", leaf |-> none, val |-> Empty]>>
  PROVE  /\ t \in Seq(SetupSteps) /\ Planned(t, m) /\ Ending(t)
         /\ Len(t) > 1
         /\ \A l : Pending(t, l) <=> Pending(s, l)
<1> DEFINE u == <<[do |-> "manifest", leaf |-> none, val |-> Empty],
                  [do |-> "end", leaf |-> none, val |-> Empty]>>
<1>1. /\ u \in Seq(SetupSteps) /\ Len(u) = 2 /\ DOMAIN u = {1, 2}
      /\ u[1].do = "manifest" /\ u[2].do = "end"
  <2>1. /\ [do |-> "manifest", leaf |-> none, val |-> Empty] \in SetupSteps
        /\ [do |-> "end", leaf |-> none, val |-> Empty] \in SetupSteps
    BY Values DEF SetupSteps, SetupWords
  <2>2. Len(u) = 2 /\ u[1].do = "manifest" /\ u[2].do = "end"
    OBVIOUS
  <2>3. u \in Seq(SetupSteps)
    BY <2>1
  <2>4. DOMAIN u = {1, 2}
    BY <2>2, <2>3
  <2> QED
    BY <2>2, <2>3, <2>4
<1>2. t = s \o u
  OBVIOUS
<1> HIDE DEF u
<1>3. \A l : ~Pending(u, l)
  BY <1>1 DEF Pending, Writing
<1>4. Once(u)
  BY <1>1 DEF Once, Writing
<1>5. /\ \A l : Pending(t, l) <=> Pending(s, l)
      /\ Once(t)
  <2>1. /\ \A l : Pending(s \o u, l) <=> Pending(s, l) \/ Pending(u, l)
        /\ Once(s) /\ Once(u) /\ (\A l : ~(Pending(s, l) /\ Pending(u, l)))
             => Once(s \o u)
    BY <1>1, PendingBoth
  <2>2. Once(s)
    BY DEF Planned
  <2> QED
    BY <1>2, <1>3, <1>4, <2>1, <2>2
<1>6. /\ t \in Seq(SetupSteps) /\ Len(t) = Len(s) + 2 /\ Len(s) \in Nat
      /\ DOMAIN t = 1..(Len(s) + 2) /\ DOMAIN s = 1..Len(s)
      /\ \A i \in DOMAIN s : t[i] = s[i]
      /\ t[Len(s) + 1] = u[1] /\ t[Len(s) + 2] = u[2]
  BY <1>1, <1>2, BothLists
<1>7. \A i \in DOMAIN t : i \in DOMAIN s \/ i = Len(s) + 1 \/ i = Len(s) + 2
  BY <1>6
<1>8. t # <<>>
  BY <1>6
<1>9. Ending(t)
  BY <1>1, <1>6, <1>7, <1>8 DEF Ending
<1>10. \A i \in DOMAIN t : Writing(t[i]) => i \in DOMAIN s /\ t[i] = s[i]
  BY <1>1, <1>6, <1>7 DEF Writing
<1>11. Planned(t, m)
  <2>1. \A i \in DOMAIN t : /\ t[i].do = "put" => PutKeeps(t[i])
                            /\ t[i].do = "take" => TakeKeeps(t[i])
    BY <1>10 DEF Planned, Writing
  <2>2. broken = "no" =>
          \A i \in DOMAIN t : /\ t[i].do = "put" => PutExact(t[i], m)
                              /\ t[i].do = "take" => TakeExact(t[i], m)
    BY <1>10 DEF Planned, Writing
  <2>3. broken = "no" => LeadTo(t, m)
    BY <1>5 DEF Planned, LeadTo
  <2> QED
    BY <1>5, <2>1, <2>2, <2>3 DEF Planned
<1>12. Len(t) > 1
  BY <1>6
<1> QED
  BY <1>5, <1>6, <1>9, <1>11, <1>12

\* Everything a plan writes is in the snapshots, as it was.
LEMMA SnapshotInv ==
  ASSUME HarnessInv, NEW c \in Procs, Snapshot(c) PROVE HarnessInv'
<1>1. /\ lock = c /\ pr[c].pc = "snap"
      /\ UNCHANGED <<disk, man, joined, loaded, lock, faults, drift, broken,
                     release, edits, user>>
  BY DEF Snapshot, Holds, Outside
<1>2. /\ pr[c] \in SetupFrames /\ pr \in [Procs -> SetupFrames]
      /\ disk \in Disks /\ man \in Manifests
      /\ joined \in BOOLEAN /\ loaded \in BOOLEAN
      /\ broken \in {"no", "reported", "killed"}
      /\ Keeps(disk) /\ Sound(man) /\ CommandInv(pr[c])
  BY <1>1, Holder DEF HarnessInv, SetupTypes
<1>s. PICK s : s = pr[c].todo
  OBVIOUS
<1>m. PICK m : m = pr[c].new
  OBVIOUS
<1>3. /\ s \in Seq(SetupSteps) /\ m \in Manifests /\ Planned(s, m)
      /\ \A i \in DOMAIN s : s[i].do \notin {"manifest", "end"}
  BY <1>1, <1>2, <1>s, <1>m DEF CommandInv, SetupFrames
<1>t. PICK t : t = s \o
                     <<[do |-> "manifest", leaf |-> none, val |-> Empty],
                       [do |-> "end", leaf |-> none, val |-> Empty]>>
  OBVIOUS
<1>4. /\ t \in Seq(SetupSteps) /\ Planned(t, m) /\ Ending(t) /\ Len(t) > 1
      /\ \A l : Pending(t, l) <=> Pending(s, l)
  BY <1>3, <1>t, FinalSteps
<1>5. /\ \A l : l \in Written(s) <=> Pending(s, l)
      /\ Written(s) \subseteq Leaves
  <2>1. \A l : l \in Written(s) <=> Pending(s, l)
    BY DEF Written, Pending, ToSet
  <2>2. \A l : Pending(s, l) => l \in Leaves
    BY <1>3 DEF Pending, Planned, PutKeeps, TakeKeeps, Writing
  <2> QED
    BY <2>1, <2>2
<1>x. PICK x : x = [l \in Written(s) |-> disk[l]]
  OBVIOUS
<1>y. PICK y : y = [disk |-> disk, man |-> man, joined |-> joined,
                    loaded |-> loaded]
  OBVIOUS
<1>6. /\ x \in Snaps /\ DOMAIN x = Written(s)
      /\ \A l \in Written(s) : x[l] = disk[l]
  <2>1. x \in [Written(s) -> Contents]
    BY <1>2, <1>5, <1>x DEF Disks
  <2> QED
    BY <1>5, <1>x, <2>1 DEF Snaps
<1>7. y \in Starts /\ y.disk = disk /\ y.man = man
  BY <1>2, <1>y DEF Starts
<1>f. PICK f : f = [pr[c] EXCEPT !.pc = "write", !.undo = s, !.todo = t,
                                 !.snap = x, !.start = y]
  OBVIOUS
<1>8. pr' = [pr EXCEPT ![c] = f]
  BY <1>2, <1>f, <1>s, <1>t, <1>x, <1>y DEF Snapshot
<1>9. /\ f \in SetupFrames /\ f.pc = "write" /\ f.todo = t /\ f.new = m
      /\ f.undo = s /\ f.snap = x /\ f.start = y
  BY <1>2, <1>3, <1>4, <1>6, <1>7, <1>f, <1>m DEF SetupFrames, SetupPlaces
<1>10. broken # "no" \/ Wholly(disk, man)
  BY <1>1, QuietWhole DEF Changing
<1>11. Started(f)
  <2>1. \A i \in DOMAIN s : Writing(s[i]) => s[i].leaf \in Written(s)
    BY <1>5 DEF Pending
  <2> QED
    BY <1>2, <1>6, <1>7, <1>9, <1>10, <2>1 DEF Started
<1>12. CommandInv(f)
  BY <1>4, <1>5, <1>6, <1>7, <1>9, <1>11 DEF CommandInv, Changing
<1>13. CommandInv(f)'
  BY <1>1, <1>12, CommandSame
<1>14. Keeps(disk)' /\ Sound(man)'
  BY <1>1, <1>2 DEF Keeps, Sound
<1>15. /\ lock' = IF f.pc \in {"idle", "ask"} THEN none ELSE c
       /\ f.pc \in Changing
  BY <1>1, <1>9 DEF Changing
<1> QED
  BY <1>1, <1>2, <1>8, <1>9, <1>13, <1>14, <1>15, CommandFrame

\* Every step of a command keeps the invariant.
LEMMA CommandStep ==
  ASSUME HarnessInv, NEW c \in Procs, Command(c) PROVE HarnessInv'
<1>1. CASE Ask(c) \/ Acquire(c) \/ Plan(c) \/ Refuse(c) \/ Snapshot(c)
  BY <1>1, AskInv, AcquireInv, PlannedInv, RefuseInv, SnapshotInv
<1>2. CASE Put(c) \/ Take(c) \/ Join(c) \/ Unjoin(c) \/ Unload(c)
  BY <1>2, PutInv, TakeInv, LaunchdInv
<1>3. CASE Publish(c) \/ Succeed(c) \/ Fail(c) \/ Tell(c) \/ GiveUp(c)
           \/ Kill(c)
  BY <1>3, PublishInv, SucceedInv, FailedInv, TellInv, RefuseInv, KillInv
<1>4. CASE Restore(c)
  <2>1. pr[c].pc \in {"unpublish", "undo"}
    BY <1>4 DEF Restore, Holds
  <2> QED
    BY <1>4, <2>1, UnpublishInv, UndoInv
<1> QED
  BY <1>1, <1>2, <1>3, <1>4 DEF Command

\* And so does every step of the user, the package and the launcher.
LEMMA SetupStep ==
  ASSUME "plist" \notin OwnParts, HarnessInv, [Next]_vars PROVE HarnessInv'
<1>1. CASE UNCHANGED vars
  <2>1. UNCHANGED <<disk, man, joined, loaded, release, lock, pr, edits, user,
                    drift, broken>>
    BY <1>1 DEF vars
  <2>2. /\ SetupTypes /\ Users /\ Keeps(disk) /\ Sound(man) /\ Calm
        /\ \A c \in Procs : CommandInv(pr[c])
    BY DEF HarnessInv
  <2>3. SetupTypes'
    BY <2>1, <2>2 DEF SetupTypes
  <2>4. (Users /\ Keeps(disk) /\ Sound(man) /\ Calm)'
    BY <2>1, <2>2 DEF Users, Keeps, Sound, Calm, Wholly
  <2>5. \A c \in Procs : CommandInv(pr[c])'
    <3> TAKE c \in Procs
    <3>1. CommandInv(pr[c]) /\ pr'[c] = pr[c]
      BY <2>1, <2>2
    <3> QED
      BY <2>1, <3>1, CommandSame
  <2> QED
    BY <2>3, <2>4, <2>5 DEF HarnessInv
<1>2. CASE \E c \in Procs : Command(c)
  BY <1>2, CommandStep
<1>3. CASE \E l \in Leaves : EditText(l) \/ Obstruct(l) \/ PutPiece(l)
                             \/ TakePiece(l)
  BY <1>3, UserInv
<1>4. CASE Upgrade \/ Launch
  BY <1>4, UpgradeInv, LaunchInv
<1> QED
  BY <1>1, <1>2, <1>3, <1>4 DEF Next

\* The invariant holds in every state.
LEMMA SetupInvariance == "plist" \notin OwnParts => (Spec => []HarnessInv)
<1> SUFFICES ASSUME "plist" \notin OwnParts PROVE Spec => []HarnessInv
  OBVIOUS
<1>1. Init => HarnessInv
  BY InitSetup
<1>2. HarnessInv /\ [Next]_vars => HarnessInv'
  BY SetupStep
<1> QED
  BY <1>1, <1>2, PTL DEF Spec

\* With the lock free, and nothing left behind, the files are as the manifest
\* says.
LEMMA FreeWhole ==
  ASSUME HarnessInv, lock = none, broken = "no" PROVE Wholly(disk, man)
BY NoCommand DEF HarnessInv, Calm, Changing

\* Leaves, records and the lock are well-formed.
LEMMA TypesHold == ASSUME HarnessInv PROVE TypeOK
<1>1. SetupTypes /\ Sound(man)
  BY DEF HarnessInv
<1>2. \A h \in Harnesses : man[h] \in [has: BOOLEAN, added: SUBSET Parts(h),
                                       gen: 0..MaxGen]
  BY <1>1 DEF SetupTypes, Manifests, Records, Sound
<1> QED
  BY <1>1, <1>2 DEF TypeOK, SetupTypes, Disks

\* Between two commands the manifest is exact.
LEMMA OwnedHold == ASSUME HarnessInv PROVE OwnedExactly
<1> SUFFICES ASSUME lock = none, broken = "no", NEW l \in Leaves
             PROVE  IF l[2] = "marker"
                    THEN disk[l].gens # {} =>
                           man[l[1]].has /\ disk[l].gens = {man[l[1]].gen}
                    ELSE disk[l].gens = user[l].gens \cup Owned(l)
  BY DEF OwnedExactly
<1>1. ExactAt(l, user[l], disk[l].gens, man[l[1]], l \in drift)
  BY FreeWhole DEF Wholly
<1> QED
  BY <1>1 DEF ExactAt, Owned, Recorded, GenOf

\* A report of nothing written or everything restored is true.
LEMMA ReportsHold == ASSUME HarnessInv PROVE ReportedFiles
BY DEF HarnessInv, CommandInv, ReportedFiles, Back

\* Nothing of setup's having been changed, a further apply or a removal is
\* accepted.
LEMMA RerunHold == ASSUME HarnessInv PROVE RerunAccepted
<1> SUFFICES ASSUME lock = none, broken = "no", drift = {},
                    \A l \in Leaves : user[l].gens = {},
                    NEW h \in Harnesses
             PROVE  CanApply(h) /\ (man[h].has => CanRemove(h))
  BY DEF RerunAccepted
<1>1. \A p \in Parts(h) : <<h, p>> \in Leaves
  BY LeafParts
<1>2. ASSUME NEW p \in Parts(h)
      PROVE  LET l == <<h, p>>
             IN /\ ExactAt(l, user[l], disk[l].gens, man[h], FALSE)
                /\ ClaimedAt(l, user[l], man[h], FALSE)
                /\ p # "config" => disk[l].text = 0
                /\ disk[l] \in Contents /\ user[l].gens = {}
                /\ p \in man[h].added => man[h].has /\ p # "marker"
                /\ Recorded(l) = GenOf(l, man[h])
  <2> DEFINE l == <<h, p>>
  <2>1. l \in Leaves /\ l[1] = h /\ l[2] = p
    BY <1>1
  <2>2. Wholly(disk, man)
    BY FreeWhole
  <2>3. /\ ExactAt(l, user[l], disk[l].gens, man[h], FALSE)
        /\ ClaimedAt(l, user[l], man[h], FALSE)
    BY <2>1, <2>2 DEF Wholly, ExactAt, ClaimedAt
  <2>4. p # "config" => user[l].text = 0
    BY <2>1 DEF HarnessInv, Users
  <2>5. /\ disk[l].text = user[l].text /\ disk[l] \in Contents
        /\ l[2] \in man[l[1]].added => man[l[1]].has /\ l[2] # "marker"
        /\ Recorded(l) = GenOf(l, man[l[1]])
    BY <2>1, LeafFacts
  <2> QED
    BY <2>1, <2>3, <2>4, <2>5
<1>3. \A p \in Parts(h) \ {"config", "marker"} : ~man[h].has => Free(<<h, p>>)
  <2> TAKE p \in Parts(h) \ {"config", "marker"}
  <2>1. ~man[h].has => disk[<<h, p>>].gens = {} /\ disk[<<h, p>>].text = 0
    BY <1>2 DEF ExactAt
  <2>2. disk[<<h, p>>] \in Contents
    BY <1>2
  <2> QED
    BY <2>1, <2>2 DEF Contents, Free, Empty
<1>4. h = "codex" => LET l == <<h, "marker">>
                     IN /\ disk[l].gens \in {{}, {man[h].gen}}
                        /\ ~man[h].has => disk[l] = Empty
  <2> SUFFICES ASSUME h = "codex"
               PROVE  LET l == <<h, "marker">>
                      IN /\ disk[l].gens \in {{}, {man[h].gen}}
                         /\ ~man[h].has => disk[l] = Empty
    OBVIOUS
  <2>1. "marker" \in Parts(h)
    BY PartNames
  <2>2. /\ disk[<<h, "marker">>].gens # {} =>
             man[h].has /\ disk[<<h, "marker">>].gens = {man[h].gen}
        /\ disk[<<h, "marker">>].text = 0
        /\ disk[<<h, "marker">>] \in Contents
    BY <1>2, <2>1 DEF ExactAt
  <2> QED
    BY <2>2 DEF Contents, Empty
<1>5. ASSUME man[h].has, NEW p \in Parts(h) \ {"marker"}
      PROVE  /\ p \in man[h].added /\ Present(<<h, p>>)
             /\ disk[<<h, p>>].gens = {GenOf(<<h, p>>, man[h])}
  <2>1. p \in man[h].added
    BY <1>2, <1>5 DEF ClaimedAt
  <2>2. disk[<<h, p>>].gens = {GenOf(<<h, p>>, man[h])}
    BY <1>2, <2>1 DEF ExactAt
  <2>3. /\ disk[<<h, p>>] \in Contents
        /\ Recorded(<<h, p>>) = GenOf(<<h, p>>, man[h])
        /\ p # "config" => disk[<<h, p>>].text = 0
    BY <1>2
  <2>4. Present(<<h, p>>)
    BY <2>2, <2>3 DEF Present, Contents
  <2> QED
    BY <2>1, <2>2, <2>4
<1>6. ~man[h].has => CanAdd(h)
  BY <1>3, <1>4 DEF CanAdd
<1>7. MarkerValid(h)
  BY <1>4 DEF MarkerValid
<1>8. ASSUME man[h].has PROVE CanUpgrade(h)
  <2>1. Valid(h, Parts(h))
    BY <1>5, <1>7, <1>8 DEF Valid
  <2>2. h = "claude" => /\ "config" \in man[h].added
                        /\ disk[<<h, "config">>].gens = {man[h].gen}
    BY <1>5, <1>8, PartNames DEF GenOf, Follows
  <2> QED
    BY <2>1, <2>2 DEF CanUpgrade
<1>9. ASSUME man[h].has PROVE CanRemove(h)
  <2>1. man[h].added \subseteq Parts(h)
    BY DEF HarnessInv, Sound
  <2> QED
    BY <1>5, <1>7, <1>9, <2>1 DEF CanRemove, Valid
<1> QED
  BY <1>6, <1>8, <1>9 DEF CanApply

\* The user's text and pieces are where he put them.
LEMMA UsersHold == ASSUME HarnessInv PROVE UsersKept
BY DEF HarnessInv, Keeps, UsersKept

-----------------------------------------------------------------------------
(* The theorems, of the specification the run checks.                      *)

\* The run's specification behaves as setup does.
LEMMA SetupPart == MCSpec => Spec
<1>1. MCInit => Init
  BY DEF MCInit
<1>2. [MCNext]_<<part, vars, hostVars, serviceVars>> => [Next]_vars
  BY DEF MCNext, vars
<1> QED
  BY <1>1, <1>2, PTL DEF MCSpec, Spec

\* The run's specification behaves as the phone host does.
LEMMA HostPart == MCSpec => Host!Spec
<1>1. MCInit => Host!Init
  BY DEF MCInit
<1>2. [MCNext]_<<part, vars, hostVars, serviceVars>> => [Host!Next]_(Host!vars)
  BY DEF MCNext, hostVars, Host!vars
<1> QED
  BY <1>1, <1>2, PTL DEF MCSpec, Host!Spec

\* The run's specification behaves as the preflight does.
LEMMA ServicePart == MCSpec => Service!Spec
<1>1. MCInit => Service!Init
  BY DEF MCInit
<1>2. [MCNext]_<<part, vars, hostVars, serviceVars>>
        => [Service!Next]_(Service!vars)
  BY DEF MCNext, serviceVars, Service!vars
<1> QED
  BY <1>1, <1>2, PTL DEF MCSpec, Service!Spec

\* Where no user installs the launchd definitions of Codex himself: whatever
\* commands do, fail at or are killed in, the user's own text and pieces stay
\* in his files; between two commands the manifest says exactly what setup
\* added to them; a report that nothing was written, or that everything was
\* rolled back, is true of every file and of the manifest; and a rerun or a
\* removal is accepted where nothing of setup's was changed or left behind.
THEOREM SetupIsExact == "plist" \notin OwnParts => (MCSpec => []SetupExact)
<1> SUFFICES ASSUME "plist" \notin OwnParts PROVE MCSpec => []SetupExact
  OBVIOUS
<1>1. MCSpec => []HarnessInv
  BY SetupInvariance, SetupPart
<1>2. HarnessInv => SetupExact
  BY TypesHold, UsersHold, OwnedHold, RerunHold, ReportsHold DEF SetupExact
<1> QED
  BY <1>1, <1>2, PTL

\* The hooks, the definition and the state of a phone host come and go
\* together unless a command was killed or its rollback cut short; a loaded job
\* can always be disabled; the user's text and the last registration survive
\* every command and every rollback; and the package is not removed under an
\* enabled host, except where an enable overlapped the removal.
THEOREM HostIsWhole == MCSpec => []HostWhole
<1>1. Host!RCHostAssumption => (MCSpec => []HostInv)
  BY HostInvariance, HostPart
<1>2. Host!RCHostAssumption /\ HostInv => HostWhole
  BY HostWhollySafe DEF HostWhole
<1> QED
  BY <1>1, <1>2, MCHarnessesAssumption, PTL

\* No launcher unloads the shared app-server under a published seat, the locks
\* are held exactly where the preflight and setup hold them, a definition that
\* is not loaded yet is marked as long as it is not, whoever fails or is killed
\* when, unless the rollback of setup could not take it back, and a preflight
\* gives up only when something came in its way three times, however many
\* launchers there are.
THEOREM ServicesAreSafe == MCSpec => []ServicesSafe
<1>1. MCSpec => []ConvergeInv
  BY ConvergeInvariance, ServicePart, MCHarnessesAssumption
<1>2. ConvergeInv => ServicesSafe
  BY ServiceWhollySafe, AtLeastThree DEF ConvergeInv, ServicesSafe
<1> QED
  BY <1>1, <1>2, PTL

\* In every step: a live app-server is unloaded only after its user was asked,
\* and a seat is published only on the definition that is on disk, owned and
\* loaded, or on one that a failed setup left behind with its manifest.
THEOREM ServicesAreAsked == MCSpec => ServicesAsked
BY ServiceAsking, ServicePart, MCHarnessesAssumption DEF ServicesAsked
=============================================================================
