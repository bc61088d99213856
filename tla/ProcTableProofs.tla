--------------------------- MODULE ProcTableProofs ---------------------------
(***************************************************************************)
(* What ProcTable promises, proved for any processes and names.            *)
(***************************************************************************)
EXTENDS ProcTable, WireProofs

(***************************************************************************)
(* The steps.                                                              *)
(***************************************************************************)
\* What TypeOK says of the positions of the tree.
LEMMA Typed ==
  ASSUME IInv
  PROVE  /\ tree \in Seq(NodeType)
         /\ Len(tree) \in Nat
         /\ \A k \in 1..Len(tree) : tree[k].depth \in Nat /\ tree[k].pid \in Pid
<1>1. tree \in Seq(NodeType)
  BY DEF IInv, TypeOK
<1>2. \A k \in 1..Len(tree) : tree[k] \in NodeType
  BY <1>1
<1>3. \A n \in NodeType : n.depth \in Nat /\ n.pid \in Pid
  BY DEF NodeType
<1> QED
  BY <1>1, <1>2, <1>3

\* What AddNode does to the positions: the node x goes behind the last position
\* e of the subtree of its parent, at position m.
LEMMA Added ==
  ASSUME IInv, NEW pid \in Pid, NEW ppid \in Pid, NEW name \in Name, AddNode(pid, ppid, name)
  PROVE  \E m \in 1..Len(tree), e \in 1..Len(tree), x \in NodeType :
           /\ m <= e
           /\ tree[m].pid = ppid
           /\ x.pid = pid /\ x.ppid = ppid /\ x.depth = tree[m].depth + 1
           /\ \A k \in (m+1)..e : tree[k].depth > tree[m].depth
           /\ e = Len(tree) \/ tree[e+1].depth <= tree[m].depth
           /\ tree' \in Seq(NodeType)
           /\ Len(tree') = Len(tree) + 1
           /\ \A k \in 1..e : tree'[k] = tree[k]
           /\ tree'[e+1] = x
           /\ \A k \in (e+1)..Len(tree) : tree'[k+1] = tree[k]
<1> DEFINE m == proc_node_find_by_pid(tree, ppid)
           e == SubtreeEnd(tree, m)
           x == Node(pid, ppid, name, tree[m].depth + 1)
<1>0. /\ tree \in Seq(NodeType)
      /\ Len(tree) \in Nat
      /\ \A k \in 1..Len(tree) : tree[k].depth \in Nat /\ tree[k].pid \in Pid
  BY Typed
<1>1. m \in 1..Len(tree) /\ tree[m].pid = ppid
  BY <1>0, FindByPid DEF AddNode, CanAdd
<1>2. /\ e \in m..Len(tree)
      /\ \A k \in (m+1)..e : tree[k].depth > tree[m].depth
      /\ e = Len(tree) \/ tree[e+1].depth <= tree[m].depth
  BY <1>0, <1>1, SubtreeEnds
<1>3. tree' = InsertAt(tree, e + 1, x)
  BY DEF AddNode, proc_node_add
<1>4. x \in NodeType /\ x.pid = pid /\ x.ppid = ppid /\ x.depth = tree[m].depth + 1
  BY <1>0, <1>1 DEF Node, NodeType
<1> HIDE DEF m, e, x
<1>5. /\ tree' \in Seq(NodeType)
      /\ Len(tree') = Len(tree) + 1
      /\ \A k \in 1..(Len(tree) + 1) :
           tree'[k] = IF k < e + 1 THEN tree[k] ELSE IF k = e + 1 THEN x ELSE tree[k-1]
  BY <1>0, <1>1, <1>2, <1>3, <1>4, Inserted, SMTT(30)
<1>6. /\ e \in 1..Len(tree) /\ m <= e
      /\ \A k \in 1..e : tree'[k] = tree[k]
      /\ tree'[e+1] = x
      /\ \A k \in (e+1)..Len(tree) : tree'[k+1] = tree[k]
  <2>1. m \in Nat /\ e \in Nat /\ 1 <= m /\ m <= e /\ e <= Len(tree)
    BY <1>0, <1>1, <1>2
  <2>2. e \in 1..Len(tree)
    BY <2>1
  <2>3. ASSUME NEW k \in 1..e  PROVE  tree'[k] = tree[k]
    <3>1. k \in 1..(Len(tree) + 1) /\ k < e + 1
      BY <1>0, <2>1
    <3> QED
      BY <1>5, <3>1
  <2>4. tree'[e+1] = x
    <3>1. e + 1 \in 1..(Len(tree) + 1) /\ ~(e + 1 < e + 1)
      BY <1>0, <2>1
    <3> QED
      BY <1>5, <3>1
  <2>5. ASSUME NEW k \in (e+1)..Len(tree)  PROVE  tree'[k+1] = tree[k]
    <3>1. /\ k + 1 \in 1..(Len(tree) + 1) /\ (k + 1) - 1 = k
          /\ ~(k + 1 < e + 1) /\ k + 1 # e + 1
      BY <1>0, <2>1
    <3>2. tree'[k+1] = tree[(k + 1) - 1]
      BY <1>5, <3>1
    <3> QED
      BY <3>1, <3>2
  <2> QED
    BY <2>1, <2>2, <2>3, <2>4, <2>5
<1> QED
  BY <1>1, <1>2, <1>4, <1>5, <1>6

\* Adding a node keeps the invariant.
LEMMA AddKeeps ==
  ASSUME IInv, NEW pid \in Pid, NEW ppid \in Pid, NEW name \in Name, AddNode(pid, ppid, name)
  PROVE  IInv'
<1>0. /\ tree \in Seq(NodeType)
      /\ Len(tree) \in Nat
      /\ \A k \in 1..Len(tree) : tree[k].depth \in Nat /\ tree[k].pid \in Pid
  BY Typed
<1>1. PICK m \in 1..Len(tree), e \in 1..Len(tree), x \in NodeType :
        /\ m <= e
        /\ tree[m].pid = ppid
        /\ x.pid = pid /\ x.ppid = ppid /\ x.depth = tree[m].depth + 1
        /\ \A k \in (m+1)..e : tree[k].depth > tree[m].depth
        /\ e = Len(tree) \/ tree[e+1].depth <= tree[m].depth
        /\ tree' \in Seq(NodeType)
        /\ Len(tree') = Len(tree) + 1
        /\ \A k \in 1..e : tree'[k] = tree[k]
        /\ tree'[e+1] = x
        /\ \A k \in (e+1)..Len(tree) : tree'[k+1] = tree[k]
  BY Added, SMTT(30)
<1>2. /\ \A k \in (m+1)..e : tree[k].depth > tree[m].depth
      /\ e = Len(tree) \/ tree[e+1].depth <= tree[m].depth
  BY <1>1
<1>4. x \in NodeType /\ x.pid = pid /\ x.ppid = ppid /\ x.depth = tree[m].depth + 1
  BY <1>1
<1>5. tree' \in Seq(NodeType) /\ Len(tree') = Len(tree) + 1
  BY <1>1
<1>6. /\ m \in Nat /\ e \in Nat /\ 1 <= m /\ m <= e /\ e <= Len(tree)
      /\ \A k \in 1..e : tree'[k] = tree[k]
      /\ tree'[e+1] = x
      /\ \A k \in (e+1)..Len(tree) : tree'[k+1] = tree[k]
  BY <1>0, <1>1
<1>7. PidsUnique'
  <2>1. \A k \in 1..Len(tree) : tree[k].pid # x.pid
    BY <1>4 DEF AddNode, Pids
  <2>2. \A i, j \in 1..Len(tree) : tree[i].pid = tree[j].pid => i = j
    BY DEF IInv, PidsUnique
  <2> DEFINE Old(k) == IF k <= e THEN k ELSE k - 1
  <2>3. \A k \in 1..(Len(tree) + 1) :
          k # e + 1 => Old(k) \in 1..Len(tree) /\ tree'[k] = tree[Old(k)]
    <3> TAKE k \in 1..(Len(tree) + 1)
    <3>1. CASE k <= e
      BY <1>0, <1>6, <3>1
    <3>2. CASE k > e + 1
      <4>1. PICK q \in (e+1)..Len(tree) : q + 1 = k
        <5>1. k - 1 \in (e+1)..Len(tree) /\ (k - 1) + 1 = k
          BY <1>0, <1>6, <3>2
        <5> QED
          BY <5>1
      <4>2. tree'[k] = tree[q]
        BY <1>6, <4>1
      <4>3. Old(k) = q /\ q \in 1..Len(tree)
        BY <1>0, <1>6, <3>2, <4>1
      <4> QED
        BY <4>2, <4>3
    <3> QED
      BY <1>6, <3>1, <3>2
  <2> SUFFICES ASSUME NEW i \in 1..(Len(tree) + 1), NEW j \in 1..(Len(tree) + 1),
                      tree'[i].pid = tree'[j].pid
               PROVE  i = j
    BY <1>5 DEF PidsUnique
  <2>4. CASE i = e + 1 \/ j = e + 1
    <3> HIDE DEF Old
    <3> QED
      BY <1>6, <2>1, <2>3, <2>4
  <2>5. CASE i # e + 1 /\ j # e + 1
    <3>1. Old(i) = Old(j)
      <4> HIDE DEF Old
      <4> QED
        BY <2>2, <2>3, <2>5
    <3> QED
      BY <1>0, <1>6, <2>5, <3>1
  <2> QED
    BY <2>4, <2>5
<1>8. RootFirst'
  BY <1>0, <1>5, <1>6 DEF IInv, RootFirst
<1>9. ParentsInTree'
  <2> SUFFICES ASSUME NEW i \in 2..(Len(tree) + 1)
               PROVE  \E j \in 1..(i-1) : UnderParent(tree', i, j)
    BY <1>5 DEF ParentsInTree
  <2>0. i \in Nat /\ 2 <= i /\ i <= Len(tree) + 1
    BY <1>0
  <2>1. CASE i <= e
    <3>1. PICK j \in 1..(i-1) : UnderParent(tree, i, j)
      BY <1>0, <1>6, <2>0, <2>1 DEF IInv, ParentsInTree
    <3>2. \A k \in 1..i : tree'[k] = tree[k]
      BY <1>6, <2>0, <2>1
    <3>3. UnderParent(tree', i, j)
      BY <2>0, <3>1, <3>2, SMTT(30) DEF UnderParent
    <3> QED
      BY <3>3
  <2>2. CASE i = e + 1
    <3>1. \A k \in (m+1)..i : tree'[k].depth > tree[m].depth
      <4> TAKE k \in (m+1)..i
      <4>1. CASE k = e + 1
        BY <1>0, <1>1, <1>4, <1>6, <4>1
      <4>2. CASE k # e + 1
        <5>1. k \in (m+1)..e /\ k \in 1..e
          BY <1>6, <2>2, <4>2
        <5> QED
          BY <1>2, <1>6, <5>1
      <4> QED
        BY <4>1, <4>2
    <3>2. tree'[m] = tree[m] /\ tree'[i] = x
      BY <1>6, <2>2
    <3>3. UnderParent(tree', i, m)
      BY <1>1, <1>4, <3>1, <3>2 DEF UnderParent
    <3> QED
      BY <1>6, <2>2, <3>3
  <2>3. CASE i > e + 1
    <3>1. i - 1 \in 2..Len(tree) /\ i - 1 > e /\ e < Len(tree)
      BY <1>0, <1>6, <2>0, <2>3
    <3>2. PICK j \in 1..(i-2) : UnderParent(tree, i-1, j)
      BY <2>0, <3>1 DEF IInv, ParentsInTree
    <3>3. \A k \in (e+2)..i : k - 1 \in (e+1)..Len(tree) /\ tree'[k] = tree[k-1]
      <4> TAKE k \in (e+2)..i
      <4>1. k - 1 \in (e+1)..Len(tree) /\ (k - 1) + 1 = k
        BY <1>0, <1>6, <2>0
      <4>2. tree'[(k-1) + 1] = tree[k-1]
        BY <1>6, <4>1
      <4> QED
        BY <4>1, <4>2
    <3>4. tree'[i] = tree[i-1]
      BY <1>6, <2>0, <2>3, <3>3
    <3>5. /\ tree[j].pid = tree[i-1].ppid
          /\ tree[i-1].depth = tree[j].depth + 1
          /\ \A k \in (j+1)..(i-1) : tree[k].depth > tree[j].depth
      BY <3>2 DEF UnderParent
    <3>6. CASE j > e
      <4>0. j \in (e+1)..Len(tree)
        BY <1>6, <3>1, <3>6
      <4>1. PICK q \in 1..(i-1) : q = j + 1
        BY <2>0
      <4>2. tree'[q] = tree[j]
        BY <1>6, <4>0, <4>1
      <4>3. \A k \in (q+1)..i : tree'[k].depth > tree[j].depth
        <5> TAKE k \in (q+1)..i
        <5>1. k - 1 \in (j+1)..(i-1) /\ k \in (e+2)..i
          BY <1>6, <2>0, <3>6, <4>1
        <5> QED
          BY <3>3, <3>5, <5>1
      <4>4. UnderParent(tree', i, q)
        BY <3>4, <3>5, <4>2, <4>3 DEF UnderParent
      <4> QED
        BY <4>4
    <3>7. CASE j <= e
      <4>1. tree'[j] = tree[j] /\ j \in 1..Len(tree)
        BY <1>0, <1>6, <3>7
      <4>2. e + 1 \in (j+1)..(i-1)
        BY <1>6, <2>0, <2>3, <3>7
      <4>3. e + 1 \in 1..Len(tree)
        BY <1>0, <1>6, <3>1
      <4>4. tree[e+1].depth <= tree[m].depth /\ tree[e+1].depth > tree[j].depth
        BY <1>2, <3>1, <3>5, <4>2
      <4>5. x.depth > tree[j].depth
        BY <1>0, <1>1, <1>4, <4>1, <4>3, <4>4
      <4>6. \A k \in (j+1)..i : tree'[k].depth > tree[j].depth
        <5> TAKE k \in (j+1)..i
        <5>1. CASE k <= e
          <6>1. k \in 1..e /\ k \in (j+1)..(i-1)
            BY <1>6, <2>0, <2>3, <5>1
          <6> QED
            BY <1>6, <3>5, <6>1
        <5>2. CASE k = e + 1
          BY <1>6, <4>5, <5>2
        <5>3. CASE k > e + 1
          <6>1. k \in (e+2)..i /\ k - 1 \in (j+1)..(i-1)
            BY <1>6, <2>0, <3>7, <5>3
          <6> QED
            BY <3>3, <3>5, <6>1
        <5> QED
          BY <1>6, <5>1, <5>2, <5>3
      <4>7. UnderParent(tree', i, j)
        BY <3>4, <3>5, <4>1, <4>6 DEF UnderParent
      <4> QED
        BY <2>0, <4>7
    <3> QED
      BY <1>6, <3>6, <3>7
  <2> QED
    BY <1>6, <2>0, <2>1, <2>2, <2>3
<1>10. TypeOK'
  BY <1>5 DEF TypeOK
<1> QED
  BY <1>7, <1>8, <1>9, <1>10 DEF IInv

\* What is removed is a leaf, and not the root.
LEMMA Victim ==
  ASSUME IInv, NEW pid \in Pid, RemoveNode(pid)
  PROVE  LET i == proc_node_find_by_pid(tree, pid)
         IN  i \in 2..Len(tree) /\ IsLeaf(tree, i) /\ tree' = RemoveAt(tree, i)
<1> DEFINE i == proc_node_find_by_pid(tree, pid)
<1>0. /\ tree \in Seq(NodeType)
      /\ Len(tree) \in Nat
      /\ \A k \in 1..Len(tree) : tree[k].depth \in Nat /\ tree[k].pid \in Pid
  BY Typed
<1>1. i \in 1..Len(tree) /\ IsLeaf(tree, i) /\ tree' = RemoveAt(tree, i)
  BY <1>0, FindByPid DEF RemoveNode, CanRemove, proc_node_remove
<1>2. PICK k \in 1..Len(tree) : tree[k].pid = tree[i].ppid
  <2>1. proc_node_find_by_pid(tree, tree[i].ppid) # 0
    BY DEF RemoveNode, CanRemove
  <2> QED
    BY <1>0, <2>1, FindByPid
<1> HIDE DEF i
<1>3. tree[i].ppid \in Pid
  BY <1>0, <1>2
<1>4. i # 1
  BY <1>3, RootAssumption DEF IInv, RootFirst, Node
<1>5. i \in 2..Len(tree)
  BY <1>0, <1>1, <1>4
<1> QED
  BY <1>1, <1>5 DEF i

\* Removing a node keeps the invariant.
LEMMA RemoveKeeps ==
  ASSUME IInv, NEW pid \in Pid, RemoveNode(pid)
  PROVE  IInv'
<1> DEFINE r == proc_node_find_by_pid(tree, pid)
<1>0. /\ tree \in Seq(NodeType)
      /\ Len(tree) \in Nat
      /\ \A k \in 1..Len(tree) : tree[k].depth \in Nat /\ tree[k].pid \in Pid
  BY Typed
<1>1. r \in 2..Len(tree) /\ IsLeaf(tree, r) /\ tree' = RemoveAt(tree, r)
  BY Victim
<1> HIDE DEF r
<1>2. /\ tree' \in Seq(NodeType)
      /\ Len(tree') = Len(tree) - 1
      /\ \A k \in 1..(Len(tree) - 1) : tree'[k] = IF k < r THEN tree[k] ELSE tree[k+1]
  <2>1. r \in 1..Len(tree)
    BY <1>0, <1>1
  <2> QED
    BY <1>0, <1>1, <2>1, Removed
<1>3. /\ r \in Nat /\ 2 <= r /\ r <= Len(tree)
      /\ \A k \in 1..(r-1) : tree'[k] = tree[k]
      /\ \A k \in r..(Len(tree) - 1) : tree'[k] = tree[k+1] /\ k + 1 \in (r+1)..Len(tree)
  BY <1>0, <1>1, <1>2
<1>4. TypeOK'
  BY <1>2 DEF TypeOK
<1>5. PidsUnique'
  <2> DEFINE Old(k) == IF k < r THEN k ELSE k + 1
  <2> SUFFICES ASSUME NEW i \in 1..(Len(tree) - 1), NEW j \in 1..(Len(tree) - 1),
                      tree'[i].pid = tree'[j].pid
               PROVE  i = j
    BY <1>2 DEF PidsUnique
  <2>1. /\ Old(i) \in 1..Len(tree) /\ tree'[i] = tree[Old(i)]
        /\ Old(j) \in 1..Len(tree) /\ tree'[j] = tree[Old(j)]
    BY <1>0, <1>3
  <2>2. Old(i) = Old(j)
    <3> HIDE DEF Old
    <3> QED
      BY <2>1 DEF IInv, PidsUnique
  <2> QED
    BY <1>0, <1>3, <2>2
<1>6. RootFirst'
  BY <1>0, <1>2, <1>3 DEF IInv, RootFirst
<1>7. ParentsInTree'
  <2> SUFFICES ASSUME NEW i \in 2..(Len(tree) - 1)
               PROVE  \E j \in 1..(i-1) : UnderParent(tree', i, j)
    BY <1>2 DEF ParentsInTree
  <2>0. i \in Nat /\ 2 <= i /\ i <= Len(tree) - 1
    BY <1>0
  <2>1. CASE i < r
    <3>1. i \in 2..Len(tree)
      BY <1>0, <2>0
    <3>2. PICK j \in 1..(i-1) : UnderParent(tree, i, j)
      BY <3>1 DEF IInv, ParentsInTree
    <3>3. \A k \in 1..i : tree'[k] = tree[k]
      BY <1>3, <2>0, <2>1
    <3>4. UnderParent(tree', i, j)
      BY <2>0, <3>2, <3>3 DEF UnderParent
    <3> QED
      BY <3>4
  <2>2. CASE i >= r
    <3>1. i + 1 \in 2..Len(tree) /\ tree'[i] = tree[i+1]
      BY <1>0, <1>3, <2>0, <2>2
    <3>2. PICK j \in 1..i : UnderParent(tree, i+1, j)
      BY <2>0, <3>1 DEF IInv, ParentsInTree
    <3>3. /\ tree[j].pid = tree[i+1].ppid
          /\ tree[i+1].depth = tree[j].depth + 1
          /\ \A k \in (j+1)..(i+1) : tree[k].depth > tree[j].depth
      BY <3>2 DEF UnderParent
    <3>4. j # r
      <4>1. SUFFICES ASSUME j = r PROVE FALSE
        OBVIOUS
      <4>2. r + 1 \in (j+1)..(i+1) /\ r + 1 \in 1..Len(tree) /\ r \in 1..Len(tree) /\ r # Len(tree)
        BY <1>0, <1>3, <2>0, <2>2, <4>1
      <4>3. tree[r+1].depth > tree[r].depth
        BY <3>3, <4>1, <4>2
      <4>4. tree[r+1].depth <= tree[r].depth
        BY <1>1, <4>2 DEF IsLeaf
      <4> QED
        BY <1>0, <4>2, <4>3, <4>4
    <3>5. CASE j < r
      <4>1. tree'[j] = tree[j] /\ j \in 1..(i-1)
        BY <1>3, <2>0, <2>2, <3>5
      <4>2. \A k \in (j+1)..i : tree'[k].depth > tree[j].depth
        <5> TAKE k \in (j+1)..i
        <5>1. CASE k < r
          BY <1>3, <2>0, <3>3, <5>1
        <5>2. CASE k >= r
          <6>1. k \in r..(Len(tree) - 1) /\ k + 1 \in (j+1)..(i+1)
            BY <1>0, <1>3, <2>0, <5>2
          <6> QED
            BY <1>3, <3>3, <6>1
        <5> QED
          BY <1>3, <5>1, <5>2
      <4>3. UnderParent(tree', i, j)
        BY <3>1, <3>3, <4>1, <4>2 DEF UnderParent
      <4> QED
        BY <4>1, <4>3
    <3>6. CASE j > r
      <4>1. PICK q \in r..(Len(tree) - 1) : q + 1 = j /\ q \in 1..(i-1)
        <5>1. j - 1 \in r..(Len(tree) - 1) /\ (j - 1) + 1 = j /\ j - 1 \in 1..(i-1)
          BY <1>0, <1>3, <2>0, <3>6
        <5> QED
          BY <5>1
      <4>2. tree'[q] = tree[j]
        BY <1>3, <4>1
      <4>3. \A k \in (q+1)..i : tree'[k].depth > tree[j].depth
        <5> TAKE k \in (q+1)..i
        <5>1. k \in r..(Len(tree) - 1) /\ k + 1 \in (j+1)..(i+1)
          BY <1>0, <1>3, <2>0, <4>1
        <5> QED
          BY <1>3, <3>3, <5>1
      <4>4. UnderParent(tree', i, q)
        BY <3>1, <3>3, <4>2, <4>3 DEF UnderParent
      <4> QED
        BY <4>1, <4>4
    <3> QED
      BY <1>3, <3>4, <3>5, <3>6
  <2> QED
    BY <1>3, <2>0, <2>1, <2>2
<1> QED
  BY <1>4, <1>5, <1>6, <1>7 DEF IInv

\* A node of the new tree is the added one or one of the old tree.
LEMMA AddedOrOld ==
  ASSUME IInv, NEW pid \in Pid, NEW ppid \in Pid, NEW name \in Name, AddNode(pid, ppid, name)
  PROVE  \A j \in 1..Len(tree') :
           tree'[j].pid = pid \/ \E k \in 1..Len(tree) : tree'[j] = tree[k]
<1>0. Len(tree) \in Nat
  BY Typed
<1>1. PICK m \in 1..Len(tree), e \in 1..Len(tree), x \in NodeType :
        /\ m <= e
        /\ tree[m].pid = ppid
        /\ x.pid = pid /\ x.ppid = ppid /\ x.depth = tree[m].depth + 1
        /\ \A k \in (m+1)..e : tree[k].depth > tree[m].depth
        /\ e = Len(tree) \/ tree[e+1].depth <= tree[m].depth
        /\ tree' \in Seq(NodeType)
        /\ Len(tree') = Len(tree) + 1
        /\ \A k \in 1..e : tree'[k] = tree[k]
        /\ tree'[e+1] = x
        /\ \A k \in (e+1)..Len(tree) : tree'[k+1] = tree[k]
  BY Added, SMTT(30)
<1> TAKE j \in 1..Len(tree')
<1>2. CASE j <= e
  <2>1. j \in 1..e /\ j \in 1..Len(tree)
    BY <1>0, <1>1, <1>2
  <2> QED
    BY <1>1, <2>1
<1>3. CASE j = e + 1
  BY <1>1, <1>3
<1>4. CASE j > e + 1
  <2>1. PICK k \in (e+1)..Len(tree) : k + 1 = j
    <3>1. j - 1 \in (e+1)..Len(tree) /\ (j - 1) + 1 = j
      BY <1>0, <1>1, <1>4
    <3> QED
      BY <3>1
  <2>2. tree'[j] = tree[k] /\ k \in 1..Len(tree)
    BY <1>0, <1>1, <2>1
  <2> QED
    BY <2>2
<1> QED
  BY <1>0, <1>1, <1>2, <1>3, <1>4

\* A node that is left is one of the old tree.
LEMMA LeftIsOld ==
  ASSUME IInv, NEW pid \in Pid, RemoveNode(pid), NEW j \in 1..Len(tree')
  PROVE  \E k \in 1..Len(tree) : tree'[j] = tree[k]
<1> DEFINE r == proc_node_find_by_pid(tree, pid)
<1>0. tree \in Seq(NodeType) /\ Len(tree) \in Nat
  BY Typed
<1>1. r \in 1..Len(tree) /\ tree' = RemoveAt(tree, r)
  BY <1>0, Victim
<1> HIDE DEF r
<1>2. /\ Len(tree') = Len(tree) - 1
      /\ tree'[j] = IF j < r THEN tree[j] ELSE tree[j+1]
  BY <1>0, <1>1, Removed
<1> QED
  BY <1>0, <1>1, <1>2

\* No step changes a node that stays.
LEMMA StepKeepsNodes == IInv /\ [Next]_tree => [NodeKept]_tree
<1> SUFFICES ASSUME IInv, Next PROVE NodeKept
  OBVIOUS
<1> SUFFICES ASSUME NEW i \in 1..Len(tree), NEW j \in 1..Len(tree'),
                    tree[i].pid = tree'[j].pid
             PROVE  tree[i] = tree'[j]
  BY DEF NodeKept
<1>1. \E k \in 1..Len(tree) : tree'[j] = tree[k]
  <2>1. CASE \E pid, ppid \in Pid, name \in Name : AddNode(pid, ppid, name)
    <3>1. PICK pid \in Pid, ppid \in Pid, name \in Name : AddNode(pid, ppid, name)
      BY <2>1
    <3>2. tree[i].pid # pid
      BY <3>1 DEF AddNode, Pids
    <3> QED
      BY <3>1, <3>2, AddedOrOld
  <2>2. CASE \E pid \in Pid : RemoveNode(pid)
    BY <2>2, LeftIsOld
  <2> QED
    BY <2>1, <2>2 DEF Next
<1> QED
  BY <1>1 DEF IInv, PidsUnique

-----------------------------------------------------------------------------
(***************************************************************************)
(* The theorems.                                                           *)
(***************************************************************************)
\* The invariant holds at first.
LEMMA InitKeeps == Init => IInv
<1> SUFFICES ASSUME Init PROVE IInv
  OBVIOUS
<1>1. tree = <<Node(RootPid, RootPpid, RootName, 0)>>
  BY DEF Init, RootOnly
<1>2. Node(RootPid, RootPpid, RootName, 0) \in NodeType
  BY RootAssumption DEF Node, NodeType
<1>3. Len(tree) = 1 /\ tree \in Seq(NodeType)
  BY <1>1, <1>2
<1> QED
  BY <1>1, <1>3 DEF IInv, TypeOK, PidsUnique, RootFirst, ParentsInTree

\* Every step keeps it.
LEMMA NextKeeps == IInv /\ [Next]_tree => IInv'
<1> SUFFICES ASSUME IInv, [Next]_tree PROVE IInv'
  OBVIOUS
<1>1. CASE \E pid, ppid \in Pid, name \in Name : AddNode(pid, ppid, name)
  BY <1>1, AddKeeps
<1>2. CASE \E pid \in Pid : RemoveNode(pid)
  BY <1>2, RemoveKeeps
<1>3. CASE UNCHANGED tree
  BY <1>3 DEF IInv, TypeOK, PidsUnique, RootFirst, ParentsInTree
<1> QED
  BY <1>1, <1>2, <1>3 DEF Next

\* However processes come and go, the tree of pmanager is well-formed: rooted
\* at pmanager, with a pid in it once and every node below its parent.
THEOREM TreeInvariant == Spec => []IInv
BY InitKeeps, NextKeeps, PTL DEF Spec

\* The list that msg_list_handler() sends is a walk of the tree the ppids
\* describe: a node is never there without its parent before it, so that
\* add_process_to_tree() of ptree and prmall finds the parent of each.
THEOREM ParentsStay == Spec => []ParentsInTree
<1>1. IInv => ParentsInTree
  BY DEF IInv
<1> QED
  BY <1>1, TreeInvariant, PTL

\* A process never gets another parent, name or depth while it is in the tree.
THEOREM NodesKeepTheirPlace == Spec => NodesStay
BY TreeInvariant, StepKeepsNodes, PTL DEF Spec, NodesStay
=============================================================================
