------------------------------ MODULE Entries ------------------------------
(***************************************************************************)
(* What pmanager's tree has to do with the processes it stands for: whose  *)
(* name it has, and who is missing.  A name is asked for, then added; a    *)
(* process forks another one, then has it added; a process asks for its    *)
(* removal, then exits: each in several steps, in which only messages tell *)
(* pmanager and the other what has been done.                              *)
(***************************************************************************)
EXTENDS Callers

\* Asking about the name of a process to come; about the process of a name; and
\* for a process to be added, by pnew or by the process that has been cloned.
Querying == {"pnew_asked", "pnew_reply", "clone_asked", "clone_reply"}
Looking  == {"info_asked", "info_reply"}
Adding   == {"pnew_sent", "pnew_added"} \union Cloning

\* The program points of a living process child_init() has been forked for.
Belonging == ChildPoints \union {"boot"}

NamesOf(t) == {t[i].name : i \in 1..Len(t)}

\* The name p asks about, or has had added: its clone's, or its argument.
Wanted(p) == IF pc[p] \in CloneWork THEN NextName(p) ELSE mem[p].name

InTree(p) == p \in Pids(tree) \/ Unlistable(p, mem[p].name)

\* The process p has forked is where it belongs.
Released(p) == mem[p].kid \in Pids(tree) \/ Unlistable(mem[p].kid, Wanted(p))

\* The tree has the process `pid' under that name.
Entered(pid, name) == \E i \in 1..Len(tree) : tree[i].pid = pid /\ tree[i].name = name

-----------------------------------------------------------------------------
(***************************************************************************)
(* What the messages say.                                                  *)
(***************************************************************************)
\* The points at which a reply that has been read is about to be acted upon,
\* besides Reading.
Hearing == {"pnew_reply", "pnew_added", "clone_added", "info_reply"}

Heard(p) ==
  IF pc[p] \in Hearing /\ lib[p].at = "ret" /\ lib[p].msg # NULL
  THEN {Parcel(p, lib[p].msg)}
  ELSE {}

Post == Parcels \union UNION {Heard(p) : p \in Pid}

\* What asks pmanager to add the process p has forked.
AddRequest(p) ==
  MessageText(p, MSG_ADD,
    proc_node_tostr(mem[p].kid, IF pc[p] \in Cloning THEN p ELSE PM, Wanted(p)))

\* A request says what its sender p wants.
Request(p, msg) ==
  /\ msg.type = MSG_ADD => pc[p] \in Adding
  /\ msg.type = MSG_REMOVE => pc[p] \in Leaving
  /\ pc[p] \in Leaving => InTree(p)
  /\ pc[p] \in Querying \union Looking =>
       msg.type = MSG_INFO /\ (CleanName(Wanted(p)) => msg.content = Wanted(p))
  /\ pc[p] \in Adding =>
       msg = MessageOf(AddRequest(p)) /\ (CleanName(Wanted(p)) => Wanted(p) \notin NamesOf(tree))

\* A reply to p says how the tree is.
Reply(p, msg) ==
  /\ pc[p] \in Leaving /\ msg.type # MSG_SUCCESS => InTree(p)
  /\ pc[p] \in Querying \union Looking =>
       \/ /\ msg.type = MSG_INFO
          /\ CleanName(Wanted(p)) =>
               LET node == proc_node_fromstr(msg.content)
               IN  node # NULL /\ Entered(node.pid, Wanted(p))
       \/ /\ msg.type = MSG_ERROR
          /\ CleanName(Wanted(p)) => Wanted(p) \notin NamesOf(tree)
  /\ pc[p] \in Adding =>
       \/ msg.type = MSG_SUCCESS /\ mem[p].kid \in Pids(tree)
       \/ msg.type = MSG_ERROR /\ (pc[p] \in Cloning \/ Unlistable(mem[p].kid, Wanted(p)))

Right(to, msg) ==
  /\ msg.sender \in Pid
  /\ to = PM => Request(msg.sender, msg)
  /\ to \in Pid /\ msg.sender = PM => Reply(to, msg)

PostRight == \A parcel \in Post : parcel.msg # NULL => Right(parcel.to, parcel.msg)

-----------------------------------------------------------------------------
(***************************************************************************)
(* What the processes know.                                                *)
(***************************************************************************)
\* A reply that is acted upon is that of pmanager.
HeedsAt(point, l, m) ==
  point \in Hearing \union {"clone_reply"} /\ (point = "info_reply" => m.peer = PM) =>
    /\ l.at \in {"check", "suspend", "asleep", "read"} => l.pid = PM
    /\ l.at \in {"reset", "ret"} /\ l.msg # NULL => l.msg.sender = PM

\* pnew's request reaches pmanager, and the reply reaches pnew.
DeliveredAt(point, l) ==
  /\ point = "pnew_sent" /\ l.at = "ret" => l.status = 0
  /\ point = "pnew_added" /\ l.at \in {"reset", "ret"} => l.msg # NULL

KnowsAt(point, l, m) == HeedsAt(point, l, m) /\ DeliveredAt(point, l)

\* The pinfo of a pclose or a pspawn asks pmanager for the process those are about.
Delegated(p) ==
  parent[p] \in Pid /\ pc[parent[p]] = "popen" /\ pc[p] \in {"start"} \union Looking =>
    mem[p].peer = PM /\ mem[p].name = mem[parent[p]].name

\* A pid printed by pinfo and not yet used is that of the process looked for.
Current(p) ==
  /\ pc[p] = "popen" /\ mem[p].peer \notin {Pending, EndOfFile} /\ CleanName(mem[p].name)
  => Entered(mem[p].peer, mem[p].name)

\* Who has been forked has the name it is to be added under.
Named(p) ==
  pc[p] \in Adding =>
    /\ mem[p].kid \in Pid /\ mem[p].kid < nextPid
    /\ pc[mem[p].kid] \in Belonging => mem[mem[p].kid].name = Wanted(p)

\* A managed process is in the tree, unless it has a name that does not fit into a
\* node; or it has not yet been added, or has just been removed.
Registered(p) ==
  pc[p] \in Belonging \ {"term_done"} =>
    \/ InTree(p)
    \/ pc[p] \in Leaving
    \/ \E q \in Pid : pc[q] \in Adding /\ mem[q].kid = p

\* pmanager lists its tree to nobody else.
Asker == {"exec", "start", "pnew_asked", "pnew_reply", "pnew_sent", "pnew_added"} \union Looking

ListsOnly ==
  pc[PM] \in {"list_sent", "list_ack"} /\ mem[PM].peer \in Pid => pc[mem[PM].peer] \notin Asker

\* Whoever acts upon a reply of pmanager finds the tree as it says: a name that
\* was free is still free when it is added, a pid is still that of its name, and a
\* process is not forgotten between two of its lists.
EntryInv ==
  /\ PostRight
  /\ ListsOnly
  /\ \A p \in Pid :
       KnowsAt(pc[p], lib[p], mem[p]) /\ Delegated(p) /\ Current(p) /\ Named(p) /\ Registered(p)

-----------------------------------------------------------------------------
\* No name that is typed has a delimiter in it.
CleanScript ==
  \A i \in 1..Len(Script) : \A c \in Script[i] : c.name # <<>> => CleanName(c.name)

\* The points at which a process needs the name it has.
Nameful == Belonging \union {"pnew_asked", "pnew_reply", "pnew_sent", "pnew_added", "popen"}

Tidy(name) == name = <<>> \/ CleanName(name)

\* No name has a delimiter, and every process that may be added has a name.
CleanProcs ==
  \A p \in Pid : Tidy(mem[p].name) /\ (pc[p] \in Nameful => mem[p].name # <<>>)

ManagerNamed == pc[PM] \in Managing => mem[PM].name = pmanager

\* A node has the name of the process it stands for.
NodesNamed ==
  \A i \in 1..Len(tree) :
    pc[tree[i].pid] \in Belonging => mem[tree[i].pid].name = tree[i].name
=============================================================================
