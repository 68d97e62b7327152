-------------------------- MODULE MCProjectAddress --------------------------
(* Two registered projects, and a third directory, not registered yet,     *)
(* that has the name of the first.                                         *)
EXTENDS ProjectAddress, TLC

CONSTANTS p1, p2, p3, d1, d2, d3, g1, g2, n1, n2

VARIABLE start  \* which of the three states below a behaviour starts from

MCGroups == (d1 :> g1 @@ d2 :> g1 @@ d3 :> g2)
MCNameOf == (p1 :> n1 @@ p2 :> n1 @@ p3 :> n2)

Row(p, d) == [st |-> "active", path |-> p, group |-> GroupOf[d]]

\* The state after two registrations.
Registered ==
  /\ reg = <<Row(p1, d1), Row(p3, d3), NoRow>>
  /\ at = (p1 :> d1 @@ p2 :> d2 @@ p3 :> d3)
  /\ mark = (d1 :> 1 @@ d2 :> 0 @@ d3 :> 2)
  /\ minted = 2 /\ moves = 2 /\ owner = <<d1, d3, none>>

\* Later: the third directory was registered, removed and deleted, and the
\* user's move has taken the second project to its place.
Moved ==
  /\ reg = <<Row(p1, d1), Row(p3, d3), [Row(p2, d2) EXCEPT !.st = "tomb"]>>
  /\ at = (p1 :> d1 @@ p2 :> d3 @@ p3 :> none)
  /\ mark = (d1 :> 1 @@ d2 :> 3 @@ d3 :> 2)
  /\ minted = 3 /\ moves = 2 /\ owner = <<d1, d3, d2>>

\* Or the second project was moved to p2, looked up there, and taken away.
Away ==
  /\ reg = <<Row(p1, d1), Row(p2, d3), NoRow>>
  /\ at = (p1 :> d1 @@ p2 :> none @@ p3 :> none)
  /\ mark = (d1 :> 1 @@ d2 :> 0 @@ d3 :> 2)
  /\ minted = 2 /\ moves = 0 /\ owner = <<d1, d3, none>>

MCInit ==
  /\ \/ start = "registered" /\ Registered
     \/ start = "moved" /\ Moved
     \/ start = "away" /\ Away
  /\ lock = none
  /\ pr = [c \in Procs |-> Idle]
  /\ served = [u \in Uuids |-> none]
  /\ raced = TRUE
  /\ snd = [s \in Senders |-> NoSend]
  /\ lastTo = [k \in Sought \X Groups |-> 0]

MCSpec == MCInit /\ [][ANext /\ UNCHANGED start]_<<avars, start>>

\* The registry commands beside the sender add and remove; the resolver runs in
\* the sender.  With three changes to come, the user makes them between a
\* selection and the end of its send.
Bounded ==
  /\ \A c \in Procs \ Senders: pr[c].op # "resolve"
  /\ start = "away" /\ moves > 0 =>
       \E s \in Senders: snd[s].pc \in {"deliver", "publish"}
=============================================================================
