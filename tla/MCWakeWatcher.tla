--------------------------- MODULE MCWakeWatcher ---------------------------
(* WakeWatcher with interchangeable messages and hook processes.           *)
EXTENDS WakeWatcher, TLC

CONSTANTS m1, m2, w1, w2

MCMail == {m1, m2}
MCWatchers == {w1, w2}
OneMail == {m1}
Symmetry == Permutations(MCMail) \cup Permutations(MCWatchers)
=============================================================================
