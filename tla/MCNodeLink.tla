----------------------------- MODULE MCNodeLink -----------------------------
(* NodeLink instantiated for TLC. *)
EXTENDS NodeLink, TLC

CONSTANTS a1, a2, n1, n2, d1, c1

OneCollector == d1 :> c1

Id(name, host) == [name |-> name, host |-> host]
Apart == a1 :> Id("n1", "h1") @@ a2 :> Id("n2", "h2")
SameName == a1 :> Id("n1", "h1") @@ a2 :> Id("n1", "h2")

\* Two agents that register, with the same name on different hosts.
Registering(faulty) ==
  [agents |-> {a1, a2}, ident |-> SameName, faults |-> faulty, saves |-> 0,
   changes |-> 0, seconds |-> 0, root |-> FALSE, tasks |-> FALSE]

\* Policies, for one agent.
Saving(faulty, saved, polls) ==
  [agents |-> {a1}, ident |-> Apart, faults |-> faulty, saves |-> saved,
   changes |-> 0, seconds |-> 0, root |-> FALSE, tasks |-> polls]

\* Devices and collectors of one agent.
Collecting(faulty, changed, time) ==
  [agents |-> {a1}, ident |-> Apart, faults |-> faulty, saves |-> 0,
   changes |-> changed, seconds |-> time, root |-> TRUE, tasks |-> FALSE]

LinkScopes ==
  {Registering(1),
   Saving(0, 3, FALSE), Saving(0, 2, TRUE), Saving(1, 1, TRUE),
   Collecting(1, 1, 1), Collecting(0, 2, 2)}

=============================================================================
