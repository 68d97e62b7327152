--------------------------- MODULE SeatOwnership ---------------------------
(***************************************************************************)
(* What the seat leases of one project promise: each harness family has    *)
(* zero or one living holder.  A holder is a seat and the birth of the     *)
(* process that leased it.                                                 *)
(***************************************************************************)
CONSTANTS Agents, Harnesses, Births

VARIABLE holders   \* holders[h]: the living holders of family h

Init == holders = [h \in Harnesses |-> {}]

\* A process takes a seat of a family that has no living holder.
Acquire(h) ==
  /\ holders[h] = {}
  /\ \E a \in Agents, n \in Births :
       holders' = [holders EXCEPT ![h] = {<<a, n>>}]

\* A takeover replaces the living holder on the same seat.
Displace(h) ==
  \E a \in Agents, n, m \in Births :
    /\ holders[h] = {<<a, n>>}
    /\ holders' = [holders EXCEPT ![h] = {<<a, m>>}]

\* Families lose their holder: it released the seat, or ended.  One process
\* may have held several families.
Vacate ==
  \E lost \in SUBSET Harnesses :
    holders' = [h \in Harnesses |-> IF h \in lost THEN {} ELSE holders[h]]

Next == Vacate \/ \E h \in Harnesses : Acquire(h) \/ Displace(h)

Spec == Init /\ [][Next]_holders
=============================================================================
