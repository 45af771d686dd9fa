---------------------------- MODULE MCPolicyTree ----------------------------
(***************************************************************************)
(* PolicyTree for TLC: a path, one that extends it, and one apart.         *)
(***************************************************************************)
EXTENDS PolicyTree, TLC

CONSTANTS t1, t2, a, ab, c

Extends == a :> {a, ab} @@ ab :> {ab} @@ c :> {c}
Order == a :> 1 @@ ab :> 2 @@ c :> 3
TasksSymmetry == Permutations({t1, t2})
=============================================================================
