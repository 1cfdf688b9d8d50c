---------------------------- MODULE MCAgentTasks ----------------------------
(* AgentTasks instantiated for TLC. *)
EXTENDS AgentTasks, TLC

CONSTANTS t1, t2, p1, p2, i1, o1, f1, x1

TwoTasks == {t1, t2}
TwoPolls == {p1, p2}
\* Task ids, request slots: never compared but for equality.
TaskSymmetry == Permutations(TwoTasks) \cup Permutations(TwoPolls)

=============================================================================
