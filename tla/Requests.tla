------------------------------ MODULE Requests ------------------------------
(***************************************************************************)
(* The registry: pmanager's process tree, kept by the requests of the      *)
(* others.  pmanager adds whatever node a MSG_ADD carries below its        *)
(* parent, and never asks whether it has one of that pid already: that     *)
(* the tree stays a tree depends on what the others send, and on each      *)
(* request being served once.                                              *)
(***************************************************************************)
EXTENDS Turns

CleanNames == {name \in Str : CleanName(name)}

Registry ==
  INSTANCE ProcTable WITH
    Name <- CleanNames, RootPid <- PM, RootPpid <- InitPid, RootName <- pmanager

\* A node of the new tree is the one that was added, or a process was removed.
RegistryStep ==
  \/ \E k \in 1..Len(tree') :
       LET n == tree'[k]
       IN  /\ n.pid \in Pid /\ n.ppid \in Pid /\ n.name \in CleanNames
           /\ Registry!AddNode(n.pid, n.ppid, n.name)
  \/ \E pid \in Pid : Registry!RemoveNode(pid)

\* All that pmanager does to its tree while it serves messages is to add a
\* process it did not have below one it has, and to remove a leaf: the shell
\* implements module ProcTable, whatever the order of the requests.
RegistrySpec == Registry!Init /\ [][tree' # tree => RegistryStep]_tree

-----------------------------------------------------------------------------
(***************************************************************************)
(* A request to add a process is made by the one that has forked it, and   *)
(* there is one request for a pid.                                         *)
(***************************************************************************)
\* Message m makes pmanager add the process whose pid it carries.
Added(m) ==
  IF m # NULL /\ m.type = MSG_ADD /\ proc_node_fromstr(m.content) # NULL
  THEN {proc_node_fromstr(m.content).pid}
  ELSE {}

\* The same for the i-th text of the FIFO, and for the text p is about to write or
\* the message it has read and not yet dealt with.
InFifo(i) == Added(MessageOf(fifo[i].text))

InHand(p) ==
  IF lib[p].at = "write" THEN Added(MessageOf(lib[p].text))
  ELSE IF lib[p].at = "reset" \/ Ready(p, "handle") THEN Added(lib[p].msg)
  ELSE {}

\* A process that has been forked and is not in the tree.
NewProcess(pid) == pid \in Pid /\ pid < nextPid /\ pid \notin Pids(tree)

\* The tree has processes that have been forked.
NodesForked == \A i \in 1..Len(tree) : tree[i].pid \in Pid /\ tree[i].pid < nextPid

\* Who is to be added has not been, and is to be added once.
AddsOnce ==
  /\ \A i \in 1..Len(fifo) : \A pid \in InFifo(i) : NewProcess(pid)
  /\ \A i, j \in 1..Len(fifo) : \A pid \in InFifo(i) : pid \in InFifo(j) => i = j
  /\ \A p \in Pid : \A pid \in InHand(p) :
       NewProcess(pid) /\ \A i \in 1..Len(fifo) : pid \notin InFifo(i)

\* A process starts to read with a blank text.
BlankAt(p) == lib[p].at \in {"check", "suspend", "asleep", "read"} => lib[p].text = <<>>

BlankText == \A p \in Pid : BlankAt(p)

RequestInv == NodesForked /\ AddsOnce /\ BlankText
=============================================================================
