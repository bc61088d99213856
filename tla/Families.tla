------------------------------ MODULE Families ------------------------------
(***************************************************************************)
(* Who is whose child.  The kernel knows it, and pmanager's tree has it    *)
(* from the messages of the processes themselves, which fork, register,    *)
(* are removed and exit in steps of their own.  What keeps the two         *)
(* together is that a process in the tree never exits: it exits when it    *)
(* has been told that it was removed, and MSG_SUCCESS, which tells it so,  *)
(* is also the answer to everything else.                                  *)
(***************************************************************************)
EXTENDS Requests

\* Waiting for its removal; with a clone to be added; free to be called.
Leaving == {"term_sent", "term_reply"}
Cloning == {"clone_sent", "clone_added"}
Resting == {"boot", "loop", "asleep", "flag", "unread"}

\* The points of processes that are managed or may yet be.
Family == ChildPoints \union {"boot", "unborn"}

\* The points at which the message that was read decides what happens next.
Reading == {"got", "term_reply", "clone_reply", "handle"}

-----------------------------------------------------------------------------
(***************************************************************************)
(* The messages on their way: about to be written, in the FIFO, or read    *)
(* and not yet acted upon.                                                 *)
(***************************************************************************)
Parcel(to, msg) == [to |-> to, msg |-> msg]

Carried(p) ==
  IF lib[p].at = "write" THEN {Parcel(lib[p].pid, MessageOf(lib[p].text))}
  ELSE IF lib[p].at = "reset" \/ (lib[p].at = "ret" /\ pc[p] \in Reading)
       THEN {Parcel(p, lib[p].msg)}
       ELSE {}

OnItsWay == {Parcel(fifo[i].to, MessageOf(fifo[i].text)) : i \in 1..Len(fifo)}

Parcels == OnItsWay \union UNION {Carried(p) : p \in Pid}

\* The nodes pmanager is asked to add.
NodesOf(msg) ==
  IF msg.type = MSG_ADD /\ proc_node_fromstr(msg.content) # NULL
  THEN {proc_node_fromstr(msg.content)}
  ELSE {}

\* A process that is to be added has not left the loop of child_init(), and the
\* one that has cloned it waits for the answer.
SoundNode(n) ==
  /\ n.pid \in Pid /\ pc[n.pid] \in Resting
  /\ n.ppid \in Pid \ {PM} =>
       pc[n.pid] # "boot" /\ parent[n.pid] = n.ppid /\ pc[n.ppid] \in Cloning

\* What a message says is so when it arrives.
SoundMessage(to, msg) ==
  /\ msg.sender \in Pid =>
       /\ pc[msg.sender] \in Leaving => msg.type = MSG_REMOVE
       /\ msg.type = MSG_LIST => pc[msg.sender] \notin Family
  /\ to \in Pid /\ pc[to] \in Leaving /\ msg.sender = PM /\ msg.type = MSG_SUCCESS =>
       to \notin Pids(tree)
  /\ \A n \in NodesOf(msg) : to \in {PM, InitPid} /\ SoundNode(n)

Sound(parcel) ==
  /\ parcel.to \in Pid \ {PM} => parcel.msg # NULL
  /\ parcel.msg # NULL => SoundMessage(parcel.to, parcel.msg)

ParcelsSound == \A parcel \in Parcels : Sound(parcel)

-----------------------------------------------------------------------------
\* A node of the tree stands for a process that is there, or was killed before it
\* had a handler for SIGTERM; a clone is the child of the process it is below.
KinInTree ==
  \A i \in 2..Len(tree) :
    /\ pc[tree[i].pid] \in ChildPoints \union {"boot", "killed"}
    /\ tree[i].ppid # PM =>
         pc[tree[i].pid] \in ChildPoints /\ parent[tree[i].pid] = tree[i].ppid

\* A process that exits has been removed.
RemovedFirst == \A p \in Pid : pc[p] = "term_done" => p \notin Pids(tree)

\* A process waits for its removal by pmanager, and the commands send to pmanager
\* what it may fail to decode.  The process is at `point' with memories l and m,
\* and is a child of kin.
AddressedAt(point, l, m, kin) ==
  /\ point = "term_reply" =>
       /\ l.at \in {"check", "suspend", "asleep", "read"} => l.pid = PM
       /\ l.at \in {"reset", "ret"} /\ l.msg # NULL => l.msg.sender = PM
  /\ point \in {"exec", "start"} =>
       IF m.prog = "pinfo" /\ m.peer # NoPid
       THEN m.peer \in {PM, InitPid} \/ CleanName(m.name)
       ELSE kin \in {PM, InitPid}
  /\ point \in {"pnew_asked", "pnew_reply"} => kin \in {PM, InitPid}

Addressed(p) == AddressedAt(pc[p], lib[p], mem[p], parent[p])

\* pmanager lists nodes of its tree, to a command.
ListSound ==
  /\ \A k \in 1..Len(mem[PM].procs) : CleanName(mem[PM].procs[k].name)
  /\ pc[PM] \in {"list_sent", "list_ack"} /\ mem[PM].peer \in Pid => pc[mem[PM].peer] \notin Family

\* What a message says is so when it arrives, a process that exits has been
\* removed, and the tree names the parent a clone has: child_terminate(),
\* child_clone() and msg_remove_handler() run in different processes, which know
\* of each other by these messages only.
KinInv ==
  /\ ParcelsSound
  /\ KinInTree
  /\ RemovedFirst
  /\ \A p \in Pid : Addressed(p)
  /\ ListSound

-----------------------------------------------------------------------------
\* With option -m the user may give pinfo the pid of any process.  A managed one
\* that is asked for a name it fails to decode dereferences the null pointer, and
\* is then in the tree without having been removed.
PoliteLine(c) ==
  c.cmd = "pinfo" /\ c.to # NoPid => c.to \in {PM, InitPid} \/ CleanName(c.name)

PoliteScript == \A i \in 1..Len(Script) : \A c \in Script[i] : PoliteLine(c)
=============================================================================
