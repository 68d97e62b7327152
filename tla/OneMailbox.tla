---------------------------- MODULE OneMailbox ----------------------------
(***************************************************************************)
(* What a project's mailbox promises its users whatever store it is in:    *)
(* mail is delivered, then read, and nothing else ever happens to it.      *)
(***************************************************************************)
CONSTANT Messages

VARIABLE mail    \* mail[m]: "absent", "new" or "cur"

\* Mail arrives, one message or several at a time.
Deliver(arrived) ==
  /\ \A m \in arrived : mail[m] = "absent"
  /\ mail' = [m \in Messages |-> IF m \in arrived THEN "new" ELSE mail[m]]

Read(m) == mail[m] = "new" /\ mail' = [mail EXCEPT ![m] = "cur"]

Init == mail \in [Messages -> {"absent", "new", "cur"}]

Next ==
  \/ \E arrived \in SUBSET Messages : Deliver(arrived)
  \/ \E m \in Messages : Read(m)

Spec == Init /\ [][Next]_mail
===========================================================================
