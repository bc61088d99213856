------------------------------ MODULE ProcList ------------------------------
(***************************************************************************)
(* The process tree of proc_tree.c in the form its users see it: the list  *)
(* proc_node_get_array() produces, the nodes in the order a walk from the  *)
(* root meets them, each with its depth.  The subtree of a node is the run *)
(* of deeper nodes that follows it.  Module ProcTree keeps the nested      *)
(* nodes and the children arrays of the C code and is checked to behave as *)
(* these operators say.                                                    *)
(***************************************************************************)
EXTENDS Naturals, Sequences, SequencesExt

\* A tree is a list of nodes; the root is the first and has depth 0.
Node(pid, ppid, name, depth) ==
  [pid |-> pid, ppid |-> ppid, name |-> name, depth |-> depth]

RootOnly(pid, ppid, name) == <<Node(pid, ppid, name, 0)>>

Pids(t) == {t[i].pid : i \in 1..Len(t)}

\* The position of the first match of a walk, 0 when there is none.
proc_node_find_by_pid(t, pid)   == SelectInSeq(t, LAMBDA n : n.pid = pid)
proc_node_find_by_name(t, name) == SelectInSeq(t, LAMBDA n : n.name = name)

\* The last position of the subtree of the node at position i.
SubtreeEnd(t, i) ==
  CHOOSE j \in i..Len(t) :
    /\ \A k \in (i+1)..j : t[k].depth > t[i].depth
    /\ j = Len(t) \/ t[j+1].depth <= t[i].depth

IsLeaf(t, i) == i < Len(t) => t[i+1].depth <= t[i].depth

\* The array proc_node_get_array() builds for the subtree at position i.
proc_node_get_array(t, i) == SubSeq(t, i, SubtreeEnd(t, i))

\* proc_node_add(): the node becomes the last child of its parent.
CanAdd(t, ppid) == proc_node_find_by_pid(t, ppid) # 0

\* Mutant: the node goes to the end of the list.
proc_node_add_last(t, pid, ppid, name) ==
  Append(t, Node(pid, ppid, name, t[proc_node_find_by_pid(t, ppid)].depth + 1))

proc_node_add(t, pid, ppid, name) ==
  LET i == proc_node_find_by_pid(t, ppid)
  IN  InsertAt(t, SubtreeEnd(t, i) + 1, Node(pid, ppid, name, t[i].depth + 1))

\* proc_node_remove(): only a leaf whose parent is in the tree goes.
CanRemove(t, pid) ==
  LET i == proc_node_find_by_pid(t, pid)
  IN  i # 0 /\ IsLeaf(t, i) /\ proc_node_find_by_pid(t, t[i].ppid) # 0

proc_node_remove(t, pid) == RemoveAt(t, proc_node_find_by_pid(t, pid))
=============================================================================
