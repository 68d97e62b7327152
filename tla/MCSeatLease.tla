--------------------------- MODULE MCSeatLease ---------------------------
(* Two Codex instances of one project on a host with two pids.             *)
EXTENDS SeatLease, TLC

CONSTANTS codex, codex2, p1, p2

MCAgents == {codex, codex2}
MCHarnessOf == [a \in MCAgents |-> "codex"]
MCPids == {p1, p2}

\* A wake record is written only while no capability is recorded: the two
\* files share nothing but the fence.
Bounded ==
  \A a \in Agents : writing[a] # NoWrite =>
    \A b \in Agents : capability[b] = NoCapability

SeatSymmetry == Permutations(MCPids) \cup Permutations(MCAgents)
=============================================================================
