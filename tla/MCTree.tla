------------------------------- MODULE MCTree -------------------------------
(***************************************************************************)
(* Instances for model-checking ProcTree: pids are model values, so that   *)
(* they are interchangeable but for the root's.                            *)
(***************************************************************************)
EXTENDS ProcTree, TLC

CONSTANTS pm, p1, p2, p3, n1, n2, init

MCPid == {pm, p1, p2, p3}
MCName == {n1, n2}
Symmetric == Permutations(Addr) \union Permutations({p1, p2, p3})
=============================================================================
