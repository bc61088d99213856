------------------------------ MODULE ProcTree ------------------------------
(***************************************************************************)
(* proc_tree.c as it is in memory: nodes allocated on a heap, each with an *)
(* array of pointers to its children that grows by doubling.  malloc()     *)
(* may hand out any free address, also one that was just freed, so that a  *)
(* pointer left behind would show.                                         *)
(***************************************************************************)
EXTENDS Naturals, Sequences, FiniteSets, SequencesExt, ProcParameters

CONSTANTS
  Addr,       \* bound: the addresses of the heap
  NULL,       \* the null pointer
  Free,       \* content of an address that is not allocated
  Garbage     \* content of an array slot that was never written

VARIABLES
  heap,     \* the node at each address
  root      \* address of the root

vars == <<heap, root>>

\* proc_node_init().  The slots of `children' are the children_size allocated
\* ones; the first children_count are in use.
proc_node_init(pid, ppid, name) ==
  [pid |-> pid, ppid |-> ppid, name |-> name, children |-> <<>>, children_count |-> 0]

children_size(node) == Len(node.children)

\* The children a loop up to children_count visits.
InUse(node) == SubSeq(node.children, 1, node.children_count)

Init ==
  \E a \in Addr :
    /\ root = a
    /\ heap = [b \in Addr |-> IF b = a THEN proc_node_init(RootPid, RootPpid, RootName) ELSE Free]

-----------------------------------------------------------------------------
\* The first result a loop over the children finds.
FirstResult(results) == LET i == SelectInSeq(results, LAMBDA r : r # NULL)
                        IN  IF i = 0 THEN NULL ELSE results[i]

RECURSIVE proc_node_find_by_pid(_, _)
proc_node_find_by_pid(a, pid) ==
  IF heap[a].pid = pid THEN a
  ELSE LET kids == InUse(heap[a])
       IN  FirstResult([i \in 1..Len(kids) |-> proc_node_find_by_pid(kids[i], pid)])

\* proc_node_get_array_rec(): the node, then its children's arrays.
RECURSIVE proc_node_get_array_rec(_, _)
proc_node_get_array_rec(a, depth) ==
  LET kids == InUse(heap[a])
  IN  <<[pid |-> heap[a].pid, ppid |-> heap[a].ppid, name |-> heap[a].name, depth |-> depth]>>
        \o FlattenSeq([i \in 1..Len(kids) |-> proc_node_get_array_rec(kids[i], depth + 1)])

\* proc_node_deinit(): the addresses it frees.
RECURSIVE proc_node_deinit(_)
proc_node_deinit(a) ==
  {a} \union UNION {proc_node_deinit(b) : b \in {InUse(heap[a])[i] : i \in 1..heap[a].children_count}}

-----------------------------------------------------------------------------
\* Mutant: the array grows one child too late.
GrowChildren_late(node) ==
  LET size == children_size(node)
      more == IF size = 0 THEN 2 ELSE size
  IN  IF size < node.children_count
      THEN [node EXCEPT !.children = @ \o [i \in 1..more |-> Garbage]]
      ELSE node

\* The array with room for one more child.
GrowChildren(node) ==
  LET size == children_size(node)
      more == IF size = 0 THEN 2 ELSE size
  IN  IF size = node.children_count
      THEN [node EXCEPT !.children = @ \o [i \in 1..more |-> Garbage]]
      ELSE node

\* The slot the new child is written to.
AppendChild(node, a) ==
  LET grown == GrowChildren(node)
  IN  [grown EXCEPT !.children[node.children_count + 1] = a,
                    !.children_count = @ + 1]

\* A node is added for a process that has just been forked: its pid is new.
proc_node_add(pid, ppid, name) ==
  /\ proc_node_find_by_pid(root, pid) = NULL
  /\ LET parent == proc_node_find_by_pid(root, ppid)
     IN  /\ parent # NULL
         /\ \E a \in {b \in Addr : heap[b] = Free} :
              heap' = [heap EXCEPT ![parent] = AppendChild(@, a),
                                   ![a] = proc_node_init(pid, ppid, name)]
  /\ UNCHANGED root

\* Mutant: the later children are not moved.
remove_child_unmoved(parent, i) ==
  LET freed == proc_node_deinit(heap[parent].children[i])
  IN  [a \in Addr |->
         IF a = parent THEN [heap[a] EXCEPT !.children_count = @ - 1]
         ELSE IF a \in freed THEN Free ELSE heap[a]]

\* remove_child(): free the child in slot i and move the later ones left; the
\* last slot keeps its old content.
remove_child(parent, i) ==
  LET node  == heap[parent]
      freed == proc_node_deinit(node.children[i])
      moved == [j \in 1..children_size(node) |->
                  IF j \in i..(node.children_count - 1) THEN node.children[j+1]
                  ELSE node.children[j]]
  IN  [a \in Addr |->
         IF a = parent THEN [node EXCEPT !.children = moved, !.children_count = @ - 1]
         ELSE IF a \in freed THEN Free ELSE heap[a]]

\* Mutant: a node is removed with its children.
proc_node_remove_subtree(pid) ==
  LET a == proc_node_find_by_pid(root, pid)
  IN  /\ a # NULL
      /\ LET parent == proc_node_find_by_pid(root, heap[a].ppid)
         IN  /\ parent # NULL
             /\ \E i \in 1..heap[parent].children_count :
                  /\ heap[heap[parent].children[i]].pid = pid
                  /\ heap' = remove_child(parent, i)
      /\ UNCHANGED root

proc_node_remove(pid) ==
  LET a == proc_node_find_by_pid(root, pid)
  IN  /\ a # NULL
      /\ heap[a].children_count = 0
      /\ LET parent == proc_node_find_by_pid(root, heap[a].ppid)
         IN  /\ parent # NULL
             /\ \E i \in 1..heap[parent].children_count :
                  /\ heap[heap[parent].children[i]].pid = pid
                  /\ heap' = remove_child(parent, i)
      /\ UNCHANGED root

Next ==
  \/ \E pid, ppid \in Pid, name \in Name : proc_node_add(pid, ppid, name)
  \/ \E pid \in Pid : proc_node_remove(pid)

Spec == Init /\ [][Next]_vars

-----------------------------------------------------------------------------
Allocated == {a \in Addr : heap[a] # Free}

\* The places that point to address a.
Pointers(a) ==
  {<<b, i>> \in Allocated \X (1..Cardinality(Addr)) :
     i <= heap[b].children_count /\ heap[b].children[i] = a}

\* The heap holds nodes whose arrays are as long as they are said to be.
TypeOK ==
  /\ root \in Addr
  /\ \A a \in Allocated :
       /\ heap[a].pid \in Pid
       /\ heap[a].children \in Seq(Addr \union {Garbage})
       /\ heap[a].children_count <= children_size(heap[a])

\* Removing and adding neither leaks nor shares nodes: every node but the root
\* is in exactly one slot in use, and no slot in use holds a freed address.
HeapSound ==
  /\ \A a \in Allocated \ {root} : Cardinality(Pointers(a)) = 1
  /\ \A a \in Addr \ Allocated : Pointers(a) = {}
  /\ Pointers(root) = {}

\* The nested nodes implement the list that the rest of the shell works with:
\* an added node becomes the last of its parent's children, and only a leaf
\* goes.
Table == INSTANCE ProcTable WITH tree <- proc_node_get_array_rec(root, 0)
TableSpec == Table!Spec
=============================================================================
