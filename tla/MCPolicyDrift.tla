--------------------------- MODULE MCPolicyDrift ---------------------------
(* PolicyDrift for TLC; the model values and bounds are in the cfgs.       *)
EXTENDS PolicyDrift

(* Namespace 1 belongs to the system.                                      *)
MCSystemNamespaces == {1}

Report(version, namespaces, workloads, pods, others) ==
    [version |-> version, namespaces |-> namespaces, workloads |-> workloads, pods |-> pods,
     others |-> others]
Deployed(hash, available) ==
    {[namespace |-> 2, name |-> 1, hash |-> hash, available |-> available]}
Running(namespace, known, violates) ==
    {[namespace |-> namespace, name |-> 1, known |-> known, violates |-> violates]}
Named(name, enforces) == [name |-> name, enforces |-> enforces]

(* Two clusters that differ in everything, and one of another patch level  *)
(* whose agent predates configuration hashes, security contexts and        *)
(* namespace configurations.                                               *)
MCSnapshots == {
    Report(<<1, 2, 0>>, {Named(1, FALSE), Named(2, TRUE)}, Deployed(<<1>>, TRUE), Running(2, TRUE, FALSE), {2}),
    Report(<<1, 1, 0>>, {Named(2, FALSE), Named(3, TRUE)}, Deployed(<<2>>, FALSE), Running(3, TRUE, TRUE), {}),
    Report(<<1, 2, 5>>, {}, Deployed(<<>>, TRUE), Running(2, FALSE, FALSE), {3})}

(* Clusters registered with the same labels are interchangeable.           *)
Symmetry == Permutations(Clusters \ Labelled)
=============================================================================
