--------------------------- MODULE AckedDelivery ---------------------------
(***************************************************************************)
(* What the mailbox promises about one seat's inbound mail: a delivered    *)
(* message stays visible in new/ until a receipt naming it is durable in   *)
(* its sender's mailbox, and only then is it archived, for good.           *)
(***************************************************************************)
CONSTANT Refs

VARIABLE stage   \* stage[r]: how far message r has come

Init == stage = [r \in Refs |-> "unsent"]

Deliver(r) ==
  /\ stage[r] = "unsent"
  /\ stage' = [stage EXCEPT ![r] = "delivered"]

\* One receipt may name several messages, some of them receipted before.
Acknowledge(named) ==
  /\ \A r \in named : stage[r] # "unsent"
  /\ stage' = [r \in Refs |-> IF r \in named /\ stage[r] = "delivered"
                              THEN "receipted" ELSE stage[r]]

Archive(r) ==
  /\ stage[r] = "receipted"
  /\ stage' = [stage EXCEPT ![r] = "archived"]

Next ==
  \/ \E r \in Refs : Deliver(r) \/ Archive(r)
  \/ \E named \in SUBSET Refs : Acknowledge(named)

Spec == Init /\ [][Next]_stage
=============================================================================
