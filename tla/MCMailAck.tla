----------------------------- MODULE MCMailAck -----------------------------
(* Acknowledging mail (MailAck: two messages of a local sender and one of  *)
(* another project's sender), and the alarms of a seat that waits for      *)
(* acknowledgements (ReplyAlarm).  They share no state; Init chooses.      *)
EXTENDS MailAck, FiniteSets, TLC

CONSTANTS m1, m2, m3, claude, remote, a1, a2,
          Asked, Watchers, Drains, MaxGen, MaxFaults, None    \* ReplyAlarm

MCSenderOf == [r \in {m1, m2, m3} |-> IF r = m3 THEN remote ELSE claude]

VARIABLES
  part,
  gen, slot, say, quietNew, quietCur, expects, due, watch, drain, faults,
  recorded, raised, lost, answered

alarmVars == <<gen, slot, say, quietNew, quietCur, expects, due, watch, drain,
               faults, recorded, raised, lost, answered>>

Alarm == INSTANCE ReplyAlarm

ASSUME MCMailAckAssumption == Alarm!ReplyAlarmAssumption

MCInit == part \in {"receiver", "sender"} /\ Init /\ Alarm!Init

MCNext ==
  \/ part = "receiver" /\ Next /\ UNCHANGED <<part, alarmVars>>
  \/ part = "sender" /\ Alarm!Next /\ UNCHANGED <<part, vars>>

MCSpec == MCInit /\ [][MCNext]_<<part, vars, alarmVars>>

MailSymmetry == UNION {Permutations(s) :
  s \in {{m1, m2}, {a1, a2}, Asked, Watchers}}

\* Two messages with an alarm meet one drain, within one generation and
\* without a fault.
Bounded ==
  (\A q \in Asked : say[q].pc # "none") =>
    /\ gen = 1 /\ faults = 0
    /\ Cardinality({d \in Drains : drain[d].pc # "none"}) <= 1

\* No alarm is taken for a message that was answered before the look at it.
AlarmTrue == Alarm!TypeOK /\ Alarm!AlarmTrue

\* Every expectation ends in exactly one way: a receipt, an alarm, or the death
\* of the watcher that had taken it.
AlarmKept == Alarm!AlarmOnce /\ Alarm!AlarmKept
=============================================================================
