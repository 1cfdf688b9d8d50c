---------------------------- MODULE MCCatalogue ----------------------------
(* Catalogue instantiated for TLC. *)
EXTENDS Catalogue, TLC

CONSTANTS m1, m2, f1, f2, x1, x2, x3, e1, e2, i1, i2, o1, o2, o3, n1, n2

TwoModels == {m1, m2}
TwoFiles == {f1, f2}
ThreeItems == {x1, x2, x3}
TwoRuntimes == {e1, e2}
TwoInstances == {i1, i2}
ThreeOps == {o1, o2, o3}
\* A path on two nodes, and a second one on the first.
ThreePlaces == {<<n1, 1>>, <<n1, 2>>, <<n2, 1>>}
CustomPath == {<<n1, 2>>}

\* Requests are only compared for equality.
OpSymmetry == Permutations(ThreeOps)

\* Files and trash; files that instances use; runtimes; instances; and those
\* of external services.
KindSets ==
  {FileKinds,
   {"update_model_file", "verify_model_file", "create_local", "start",
    "create_runtime"},
   RuntimeKinds \cup {"create_local", "create_external", "start"},
   {"start", "stop", "test", "update_runtime", "update_model",
    "update_instance", "delete_instance", "check_instance"},
   {"create_external", "update_instance", "check_instance",
    "delete_instance"}}

=============================================================================
