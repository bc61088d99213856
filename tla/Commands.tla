------------------------------ MODULE Commands ------------------------------
(***************************************************************************)
(* The programs pmanager executes for a line of input: pnew, pinfo, plist, *)
(* ptree, pclose, pspawn, prmall and phelp.  Each asks pmanager over the   *)
(* FIFO and exits; pclose and pspawn get a pid by running pinfo through    *)
(* popen(), and pclose, pspawn, prmall and a failed pnew then wait for the *)
(* managed process they addressed.                                         *)
(*                                                                         *)
(*   mem[p].name    the argument                                           *)
(*   mem[p].peer    the process addressed; at first the value of -m        *)
(*   mem[p].kid     the process pnew has forked                            *)
(*   mem[p].procs   rows printed by plist, local tree of ptree and prmall  *)
(***************************************************************************)
EXTENDS Child, ProcList

\* parse_args(): a program prints its help and ends when its argument is
\* missing, or when there is one and it takes none.
PrintsHelp(prog, name) ==
  \/ prog \in {"pnew", "pinfo", "pclose", "pspawn", "prmall"} /\ name = <<>>
  \/ prog \in {"plist", "ptree"} /\ name # <<>>

Finish(p) == Goto(p, "exit", BlankLib, mem[p])

NewCommand(prog, name, peer) ==
  [BlankMem EXCEPT !.prog = prog, !.name = name, !.peer = peer]

\* Whom pinfo asks: the pid given with option -m, else its parent.
pid_pmanager(p) == IF mem[p].peer = NoPid THEN parent[p] ELSE mem[p].peer

-----------------------------------------------------------------------------
(***************************************************************************)
(* main() of each program up to its first call: message_send(), or popen() *)
(* of pinfo.  The FIFO is opened by its name, once the arguments are known *)
(* to be right.                                                            *)
(***************************************************************************)
Begin(p, prog, call) ==
  /\ Ready(p, "start")
  /\ mem[p].prog = prog
  /\ IF PrintsHelp(prog, mem[p].name) \/ ~linked
     THEN Finish(p) /\ UNCHANGED <<parent, nextPid>>
     ELSE call
  /\ UNCHANGED <<sig, fifo>>

Ask(p, point, to, type, content) ==
  /\ Goto(p, point, message_send(p, to, type, content), [mem[p] EXCEPT !.peer = to])
  /\ UNCHANGED <<parent, nextPid>>

popen(p) ==
  \/ Fork(p, "popen", lib[p], [mem[p] EXCEPT !.peer = Pending],
          "start", BlankLib, NewCommand("pinfo", mem[p].name, parent[p]))
  \/ ForkMayFail /\ Finish(p) /\ UNCHANGED <<parent, nextPid>>

pnew_main(p)   == Begin(p, "pnew", Ask(p, "pnew_asked", parent[p], MSG_INFO, mem[p].name))
pinfo_main(p)  == Begin(p, "pinfo", Ask(p, "info_asked", pid_pmanager(p), MSG_INFO, mem[p].name))
prmall_main(p) == Begin(p, "prmall", Ask(p, "list_asked", parent[p], MSG_LIST, mem[p].name))
plist_main(p)  == Begin(p, "plist", Ask(p, "list_asked", parent[p], MSG_LIST, pmanager))
ptree_main(p)  == Begin(p, "ptree", Ask(p, "list_asked", parent[p], MSG_LIST, pmanager))
pclose_main(p) == Begin(p, "pclose", popen(p))
pspawn_main(p) == Begin(p, "pspawn", popen(p))

\* It neither looks at its arguments nor opens the FIFO.
phelp_main(p) ==
  /\ Ready(p, "start")
  /\ mem[p].prog = "phelp"
  /\ Finish(p)
  /\ UNCHANGED <<sig, parent, nextPid, fifo>>

Start(p) ==
  \/ pnew_main(p)
  \/ pinfo_main(p)
  \/ prmall_main(p)
  \/ plist_main(p)
  \/ ptree_main(p)
  \/ pclose_main(p)
  \/ pspawn_main(p)
  \/ phelp_main(p)

ExitCommand(p) ==
  /\ Ready(p, "exit")
  /\ Exit(p)
  /\ UNCHANGED fifo

-----------------------------------------------------------------------------
(***************************************************************************)
(* pnew.                                                                   *)
(***************************************************************************)
AwaitNameCheck(p) ==
  /\ Ready(p, "pnew_asked")
  /\ IF lib[p].status = 0
     THEN Goto(p, "pnew_reply", message_wait(p, parent[p]), mem[p])
     ELSE Finish(p)
  /\ UNCHANGED <<sig, parent, nextPid, fifo>>

ForkProcess(p) ==
  Fork(p, "pnew_sent",
       message_send(p, parent[p], MSG_ADD, proc_node_tostr(nextPid, parent[p], mem[p].name)),
       [mem[p] EXCEPT !.kid = nextPid],
       "boot", [lib[p] EXCEPT !.msg = NULL], NewCommand("child", mem[p].name, NoPid))

\* Mutant: the reply about the name is not looked at.
pnew_unchecked(p) ==
  /\ Ready(p, "pnew_reply")
  /\ \/ ForkProcess(p)
     \/ ForkMayFail /\ Finish(p) /\ UNCHANGED <<parent, nextPid>>
  /\ UNCHANGED <<sig, fifo>>

pnew(p) ==
  /\ Ready(p, "pnew_reply")
  /\ LET msg == lib[p].msg IN
     CASE msg = NULL -> Crash(p) /\ UNCHANGED fifo
       [] msg # NULL /\ msg.type = MSG_INFO ->
            Finish(p) /\ UNCHANGED <<sig, parent, nextPid, fifo>>
       [] OTHER ->
            /\ \/ ForkProcess(p)
               \/ ForkMayFail /\ Finish(p) /\ UNCHANGED <<parent, nextPid>>
            /\ UNCHANGED <<sig, fifo>>

\* abort_fork(): SIGTERM to the process and a message from it, then exit.
abort_fork(p) ==
  /\ PostTerm(mem[p].kid, p)
  /\ IF Exists(mem[p].kid)
     THEN Goto(p, "exit", message_wait(p, mem[p].kid), mem[p])
     ELSE Finish(p)

AwaitAdd(p) ==
  /\ Ready(p, "pnew_sent")
  /\ IF lib[p].status = 0
     THEN Goto(p, "pnew_added", message_wait(p, parent[p]), mem[p]) /\ UNCHANGED sig
     ELSE abort_fork(p)
  /\ UNCHANGED <<parent, nextPid, fifo>>

GotAdd(p) ==
  /\ Ready(p, "pnew_added")
  /\ IF lib[p].msg = NULL \/ lib[p].msg.type = MSG_ERROR
     THEN abort_fork(p)
     ELSE Finish(p) /\ UNCHANGED sig
  /\ UNCHANGED <<parent, nextPid, fifo>>

-----------------------------------------------------------------------------
(***************************************************************************)
(* plist, ptree and prmall: the list protocol.                             *)
(***************************************************************************)
AwaitListItem(p) ==
  /\ Ready(p, "list_asked")
  /\ IF lib[p].status = 0
     THEN Goto(p, "list_item", message_wait(p, parent[p]), mem[p])
     ELSE Finish(p)
  /\ UNCHANGED <<sig, parent, nextPid, fifo>>

\* add_process_to_tree() of ptree and prmall, print_proc_entry() of plist.
add_process_to_tree(t, info) ==
  CASE t = <<>>                -> RootOnly(info.pid, info.ppid, info.name)
    [] t # <<>> /\ CanAdd(t, info.ppid) -> proc_node_add(t, info.pid, info.ppid, info.name)
    [] OTHER                   -> t

print_proc_entry(rows, info) == Append(rows, Node(info.pid, info.ppid, info.name, 0))

\* Malformed items: plist skips them, the first one leaves the tree empty and
\* a later one is dereferenced.
ListItem(p) ==
  LET info == proc_node_fromstr(lib[p].msg.content)
      rows == mem[p].procs
      ack  == message_send(p, parent[p], MSG_SUCCESS, <<Pad>>)
      next == CASE info = NULL -> rows
                [] info # NULL /\ mem[p].prog = "plist" -> print_proc_entry(rows, info)
                [] OTHER -> add_process_to_tree(rows, info)
  IN  IF info = NULL /\ mem[p].prog # "plist" /\ rows # <<>>
      THEN Crash(p)
      ELSE /\ Goto(p, "list_asked", ack, [mem[p] EXCEPT !.procs = next])
           /\ UNCHANGED <<sig, parent, nextPid>>

GotListItem(p) ==
  /\ Ready(p, "list_item")
  /\ LET msg == lib[p].msg IN
     CASE msg # NULL /\ msg.type = MSG_INFO -> ListItem(p)
       [] msg # NULL /\ msg.type = MSG_SUCCESS ->
            /\ Goto(p, IF mem[p].prog = "prmall" THEN "rm_next" ELSE "exit",
                    [lib[p] EXCEPT !.msg = NULL], mem[p])
            /\ UNCHANGED <<sig, parent, nextPid>>
       [] OTHER -> Finish(p) /\ UNCHANGED <<sig, parent, nextPid>>
  /\ UNCHANGED fifo

\* Mutant: a parent is visited before its children.
NextVictim_first(t) == 1

\* kill_proc_tree() visits children before their parent: the next node is
\* always the first leaf of what is left of the tree.  The parent process,
\* pmanager, is spared.
NextVictim(t) ==
  CHOOSE i \in 1..Len(t) : IsLeaf(t, i) /\ \A j \in 1..(i-1) : ~IsLeaf(t, j)

SparePmanager(p, rest) ==
  /\ Goto(p, "rm_next", lib[p], [mem[p] EXCEPT !.procs = rest])
  /\ UNCHANGED sig

\* Mutant: the next process is signalled at once.
SignalVictim_hasty(p, q, rest) ==
  /\ PostTerm(q, p)
  /\ Goto(p, "rm_next", lib[p], [mem[p] EXCEPT !.procs = rest])

SignalVictim(p, q, rest) ==
  /\ PostTerm(q, p)
  /\ Goto(p, "rm_next", IF Exists(q) THEN message_wait(p, q) ELSE lib[p],
          [mem[p] EXCEPT !.procs = rest])

kill_proc_tree(p) ==
  /\ Ready(p, "rm_next")
  /\ IF mem[p].procs = <<>>
     THEN Finish(p) /\ UNCHANGED sig
     ELSE LET i    == NextVictim(mem[p].procs)
              q    == mem[p].procs[i].pid
              rest == RemoveAt(mem[p].procs, i)
          IN  IF q = parent[p] THEN SparePmanager(p, rest) ELSE SignalVictim(p, q, rest)
  /\ UNCHANGED <<parent, nextPid, fifo>>

-----------------------------------------------------------------------------
(***************************************************************************)
(* pinfo.  What it prints reaches a waiting pclose or pspawn when pinfo    *)
(* exits: the output of a pipe is flushed then.                            *)
(***************************************************************************)
AwaitInfo(p) ==
  /\ Ready(p, "info_asked")
  /\ IF lib[p].status = 0
     THEN Goto(p, "info_reply", message_wait(p, mem[p].peer), mem[p])
     ELSE Goto(p, "info_reply", [lib[p] EXCEPT !.msg = NULL], mem[p])
  /\ UNCHANGED <<sig, parent, nextPid, fifo>>

\* Mutant: the parent's pid is printed.
PrintedPid_parent(msg) ==
  LET info == IF msg # NULL /\ msg.type = MSG_INFO THEN proc_node_fromstr(msg.content) ELSE NULL
  IN  IF info = NULL THEN EndOfFile ELSE info.ppid

PrintedPid(msg) ==
  LET info == IF msg # NULL /\ msg.type = MSG_INFO THEN proc_node_fromstr(msg.content) ELSE NULL
  IN  IF info = NULL THEN EndOfFile ELSE info.pid

PrintInfo(p) ==
  /\ Ready(p, "info_reply")
  /\ ExitPrinting(p, PrintedPid(lib[p].msg))
  /\ UNCHANGED fifo

-----------------------------------------------------------------------------
(***************************************************************************)
(* pclose and pspawn, once getline() on pinfo's output has returned.       *)
(***************************************************************************)
pclose(p) ==
  /\ Ready(p, "popen")
  /\ mem[p].prog = "pclose"
  /\ mem[p].peer # Pending
  /\ IF mem[p].peer = EndOfFile
     THEN Finish(p) /\ UNCHANGED sig
     ELSE /\ PostTerm(mem[p].peer, p)
          /\ Goto(p, "exit", message_wait(p, mem[p].peer), mem[p])
  /\ UNCHANGED <<parent, nextPid, fifo>>

pspawn(p) ==
  /\ Ready(p, "popen")
  /\ mem[p].prog = "pspawn"
  /\ mem[p].peer # Pending
  /\ IF mem[p].peer = EndOfFile
     THEN Finish(p)
     ELSE Goto(p, "spawn_sent", message_send(p, mem[p].peer, MSG_SPAWN, <<Pad>>), mem[p])
  /\ UNCHANGED <<sig, parent, nextPid, fifo>>

\* Mutant: pspawn does not wait for the clone.
AwaitSpawn_skipped(p) ==
  /\ Ready(p, "spawn_sent")
  /\ Finish(p)
  /\ UNCHANGED <<sig, parent, nextPid, fifo>>

AwaitSpawn(p) ==
  /\ Ready(p, "spawn_sent")
  /\ IF lib[p].status = 0
     THEN Goto(p, "exit", message_wait(p, mem[p].peer), mem[p])
     ELSE Finish(p)
  /\ UNCHANGED <<sig, parent, nextPid, fifo>>

CommandStep(p) ==
  \/ Start(p)
  \/ ExitCommand(p)
  \/ AwaitNameCheck(p)
  \/ pnew(p)
  \/ AwaitAdd(p)
  \/ GotAdd(p)
  \/ AwaitListItem(p)
  \/ GotListItem(p)
  \/ kill_proc_tree(p)
  \/ AwaitInfo(p)
  \/ PrintInfo(p)
  \/ pclose(p)
  \/ pspawn(p)
  \/ AwaitSpawn(p)

TreeNode == [pid : Nat, ppid : Nat, name : Str, depth : Nat]

MemType ==
  [prog : Programs \union {"none", "pmanager", "child", "path"}, name : Str,
   peer : Nat \union {NoPid}, kid : Pid \union {NoPid}, procs : Seq(TreeNode),
   clones_count : Nat, sigterm_flag : {0, 1}, sigterm_sender : Pid \union {NoPid},
   overwrote : BOOLEAN, exiting : BOOLEAN, masked : SUBSET {"int", "term"}]
=============================================================================
