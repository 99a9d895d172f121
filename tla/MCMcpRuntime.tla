---------------------------- MODULE MCMcpRuntime ----------------------------
(* One server with two definitions to its name, one launch of it or as many *)
(* as two operations can make, and lists of tools whose second one pushes   *)
(* the first name on.                                                       *)
EXTENDS McpRuntime, TLC
CONSTANTS t1, t2, v1, v2
OneServer == {"alpha"}
TwoPrints == {v1, v2}
Launch1 == {1}
Launches2 == 1 .. 2
Lists == {<<t1>>, <<t2, t1>>}
AllApproved == {[s \in Servers |-> [p \in Prints |-> "approved"]]}
OneList == {<<t1>>}
Symmetry == Permutations(Ops) \cup Permutations(TwoPrints)
DecideKinds == {"open", "reload", "approve", "deny", "restart", "stop"}
UseKinds == {"reload", "refresh", "call", "shutdown"}
=============================================================================
