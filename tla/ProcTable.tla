------------------------------ MODULE ProcTable ------------------------------
(***************************************************************************)
(* What the process tree promises the rest of the shell, whatever          *)
(* represents it: a process not yet in the tree can be added below one     *)
(* that is, and a leaf can be removed.  The nested nodes of proc_tree.c    *)
(* implement it (module ProcTree), and so does what pmanager does to its   *)
(* tree while it serves messages (module Requests).                        *)
(***************************************************************************)
EXTENDS ProcList, ProcParameters

VARIABLE tree

Init == tree = RootOnly(RootPid, RootPpid, RootName)

\* Mutant: a process is added again.
AddNode_again(pid, ppid, name) ==
  /\ CanAdd(tree, ppid)
  /\ tree' = proc_node_add(tree, pid, ppid, name)

AddNode(pid, ppid, name) ==
  /\ pid \notin Pids(tree)
  /\ CanAdd(tree, ppid)
  /\ tree' = proc_node_add(tree, pid, ppid, name)

RemoveNode(pid) ==
  /\ CanRemove(tree, pid)
  /\ tree' = proc_node_remove(tree, pid)

Next ==
  \/ \E pid, ppid \in Pid, name \in Name : AddNode(pid, ppid, name)
  \/ \E pid \in Pid : RemoveNode(pid)

Spec == Init /\ [][Next]_tree

-----------------------------------------------------------------------------
\* The tree is a list of nodes.
NodeType ==
  [pid : Pid, ppid : Pid \union {RootPpid}, name : Name \union {RootName}, depth : Nat]

TypeOK == tree \in Seq(NodeType)

\* A pid stands for one node.
PidsUnique == \A i, j \in 1..Len(tree) : tree[i].pid = tree[j].pid => i = j

\* The root comes first and is the only node without a parent in the tree: it
\* is never removed.
RootFirst ==
  /\ Len(tree) > 0
  /\ tree[1] = Node(RootPid, RootPpid, RootName, 0)

\* Every other node lies in the subtree of the node its ppid names, one level
\* below it: the list is a walk of the tree the ppids describe.
UnderParent(t, i, j) ==
  /\ t[j].pid = t[i].ppid
  /\ t[i].depth = t[j].depth + 1
  /\ \A k \in (j+1)..i : t[k].depth > t[j].depth

ParentsInTree ==
  \A i \in 2..Len(tree) : \E j \in 1..(i-1) : UnderParent(tree, i, j)

\* A process never moves: as long as it stays, its parent and name do.
NodeKept ==
  \A i \in 1..Len(tree), j \in 1..Len(tree') :
    tree[i].pid = tree'[j].pid => tree[i] = tree'[j]

NodesStay == [][NodeKept]_tree

\* Why ParentsInTree is kept: a new node goes to the end of a subtree, a node
\* removed has nothing below it, and the root stays since its parent is not in
\* the tree.
IInv == TypeOK /\ PidsUnique /\ RootFirst /\ ParentsInTree
=============================================================================
