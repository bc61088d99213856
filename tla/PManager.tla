------------------------------ MODULE PManager ------------------------------
(***************************************************************************)
(* pmanager.c and handlers.c: the shell.  It reads a line, forks the       *)
(* command, and until waitpid() returns it serves the messages that        *)
(* interrupt it.  The process tree is its private memory; everything the   *)
(* other programs know of it they learn from these handlers.               *)
(*                                                                         *)
(* A process it has forked is pmanager until execvp() replaces it: when    *)
(* that fails, or a signal comes first, the copy runs pmanager's cleanup() *)
(* with a process tree of its own, so that every action has the manager p  *)
(* it belongs to.                                                          *)
(*                                                                         *)
(*   mem[p].kid      the command being waited for                          *)
(*   mem[p].peer     in msg_list_handler(), the requester                  *)
(*   mem[p].procs    in msg_list_handler(), the nodes not yet sent         *)
(*   mem[p].exiting  exit() has taken cleanup() off the list of handlers   *)
(*   mem[p].masked   the signals whose handler has not returned            *)
(***************************************************************************)
EXTENDS Commands

CONSTANT Script     \* the lines of input: at each position, the lines possible there

VARIABLES
  trees,     \* proc_tree_root of pmanager and of its copies
  line       \* number of lines read

managerVars == <<trees, line, linked>>

tree == trees[PM]

\* A line is a program, its argument and pinfo's option -m.  "path" stands for
\* what access() finds below PATH but execvp() cannot run, such as "./pnew" or
\* "."; "other" for what is not found, and for a line without a word.
Line == [cmd : Programs \union {"quit", "other", "path"}, name : Str, to : Pid \union {NoPid}]

\* Each line needs a command, a pinfo and a managed process at most; besides
\* there are pmanager and the prmall it runs at its end.
ASSUME ScriptAssumption ==
  /\ Script \in Seq(SUBSET Line)
  /\ MaxPid \in Nat
  /\ MaxPid >= 2 + 3 * Len(Script)

-----------------------------------------------------------------------------
(***************************************************************************)
(* parse_commands() and exec_command().                                    *)
(***************************************************************************)
\* exec_command(): fork, and fall into the loop around waitpid().  `m' is the
\* memory of p.
exec_command(p, m, prog, name, to) ==
  /\ Fork(p, "poll", lib[p], [m EXCEPT !.kid = nextPid], "exec", lib[p],
          [NewCommand(prog, name, to) EXCEPT !.exiting = m.exiting, !.masked = m.masked])
  /\ trees' = [trees EXCEPT ![nextPid] = trees[p]]

\* getline() returns a line.  "quit", a program that does not exist and a
\* fork() that fails are answered at once.
ReadLine ==
  /\ Ready(PM, "readline")
  /\ line < Len(Script)
  /\ line' = line + 1
  /\ \E c \in Script[line + 1] :
       CASE c.cmd = "quit" ->
              Goto(PM, "cleanup", lib[PM], mem[PM]) /\ UNCHANGED <<parent, nextPid, trees>>
         [] c.cmd = "other" -> UNCHANGED <<pc, lib, mem, parent, nextPid, trees>>
         [] OTHER ->
              \/ exec_command(PM, mem[PM], c.cmd, c.name, c.to)
              \/ ForkMayFail /\ UNCHANGED <<pc, lib, mem, parent, nextPid, trees>>
  /\ UNCHANGED <<sig, fifo, linked>>

\* End of file.
EndOfInput ==
  /\ Ready(PM, "readline")
  /\ line = Len(Script)
  /\ Goto(PM, "cleanup", lib[PM], mem[PM])
  /\ UNCHANGED <<sig, parent, nextPid, fifo, managerVars>>

\* What a manager starts cleanup() with.
ExitingManager(p) ==
  [NewCommand("pmanager", pmanager, NoPid) EXCEPT !.exiting = mem[p].exiting, !.masked = mem[p].masked]

DropTree(p) == trees' = IF p = PM THEN trees ELSE [trees EXCEPT ![p] = <<>>]

\* execvp(), or exit() when it fails.
execvp(p) ==
  /\ Ready(p, "exec")
  /\ IF mem[p].prog = "path"
     THEN Goto(p, "cleanup", lib[p], ExitingManager(p)) /\ UNCHANGED trees
     ELSE Goto(p, "start", BlankLib, [mem[p] EXCEPT !.exiting = FALSE]) /\ DropTree(p)
  /\ UNCHANGED <<sig, parent, nextPid, fifo, line, linked>>

\* message_unread() in the loop of exec_command().
Poll(p) ==
  /\ Ready(p, "poll")
  /\ IF lib[p].unread_flag
     THEN Goto(p, "handle", message_read(p), mem[p])
     ELSE Goto(p, "towait", lib[p], mem[p])
  /\ UNCHANGED <<sig, parent, nextPid, fifo, managerVars>>

\* The end of cleanup() and of the process: the FIFO loses its name.
EndManager(p) ==
  /\ Exit(p)
  /\ DropTree(p)
  /\ linked' = FALSE

\* Mutant: the manager goes on without waitpid().
WaitCommand_unawaited(p) ==
  /\ Ready(p, "towait")
  /\ IF mem[p].exiting
     THEN EndManager(p)
     ELSE /\ pc' = [pc EXCEPT ![p] = "readline"]
          /\ mem' = [mem EXCEPT ![p].kid = NoPid]
          /\ UNCHANGED <<lib, sig, parent, nextPid, trees, linked>>
  /\ UNCHANGED <<fifo, line>>

\* waitpid() blocks, or reaps the command; after the prmall of cleanup() the
\* process ends.
WaitCommand(p) ==
  /\ Ready(p, "towait") \/ Ready(p, "waitpid")
  /\ LET kid == mem[p].kid IN
     IF pc[kid] # "zombie"
     THEN /\ pc[p] = "towait"
          /\ pc' = [pc EXCEPT ![p] = "waitpid"]
          /\ UNCHANGED <<lib, mem, sig, parent, nextPid, trees, linked>>
     ELSE IF mem[p].exiting
     THEN EndManager(p)
     ELSE /\ pc' = [pc EXCEPT ![kid] = "dead", ![p] = "readline"]
          /\ mem' = [mem EXCEPT ![p].kid = NoPid]
          /\ UNCHANGED <<lib, sig, parent, nextPid, trees, linked>>
  /\ UNCHANGED <<fifo, line>>

\* Mutant: the managed processes are left alone.
cleanup_without_prmall(p) ==
  /\ Ready(p, "cleanup")
  /\ EndManager(p)
  /\ UNCHANGED <<fifo, line>>

\* cleanup(): one last command; without a process for it the manager ends.
cleanup(p) ==
  /\ Ready(p, "cleanup")
  /\ \/ /\ exec_command(p, [mem[p] EXCEPT !.exiting = TRUE], "prmall", pmanager, NoPid)
        /\ UNCHANGED <<sig, linked>>
     \/ ForkMayFail /\ EndManager(p)
  /\ UNCHANGED <<fifo, line>>

\* The signals p has a handler for and that are neither handled nor blocked.
Deliverable(p) ==
  {s \in {"int", "term"} : (s = "int" /\ sig[p].int) \/ (s = "term" /\ sig[p].term # NoPid)}
    \ Blocks(p)

\* Mutant: a manager that is exiting takes no signal.
terminate_once(p) ==
  /\ pc[p] \in ManagerPoints
  /\ \E s \in Deliverable(p) :
       /\ sig' = IF s = "int" THEN [sig EXCEPT ![p].int = FALSE] ELSE [sig EXCEPT ![p].term = NoPid]
       /\ IF mem[p].exiting \/ pc[p] = "cleanup"
          THEN UNCHANGED <<pc, lib, mem>>
          ELSE Goto(p, "cleanup",
                    [lib[p] EXCEPT !.at = "ret", !.pid = NoPid, !.text = <<>>, !.msg = NULL],
                    [ExitingManager(p) EXCEPT !.masked = @ \union {s}])
  /\ UNCHANGED <<parent, nextPid, trees, fifo, line, linked>>

\* The handler of SIGTERM and SIGINT calls exit(), wherever the manager stands,
\* and never returns, so that its signal stays blocked.  Called again from an
\* exit() that has taken cleanup() off its list, exit() just ends the process.
terminate(p) ==
  /\ pc[p] \in ManagerPoints
  /\ \E s \in Deliverable(p) :
       \/ /\ ~mem[p].exiting
          /\ sig' = IF s = "int" THEN [sig EXCEPT ![p].int = FALSE] ELSE [sig EXCEPT ![p].term = NoPid]
          /\ Goto(p, "cleanup",
                  [lib[p] EXCEPT !.at = "ret", !.pid = NoPid, !.text = <<>>, !.msg = NULL],
                  [ExitingManager(p) EXCEPT !.masked = @ \union {s}])
          /\ UNCHANGED <<parent, nextPid, trees>>
       \/ /\ mem[p].exiting \/ pc[p] = "cleanup"
          /\ Exit(p)
          /\ DropTree(p)
  /\ UNCHANGED <<fifo, line, linked>>

-----------------------------------------------------------------------------
(***************************************************************************)
(* message_handler() and the handlers it calls.  Each is the tree it       *)
(* leaves and the reply it sends; the reply once sent, the manager goes    *)
(* back to waitpid() without looking for another message.                  *)
(***************************************************************************)
Answer(p, to, type, content) ==
  /\ Goto(p, "towait", message_send(p, to, type, content), mem[p])
  /\ UNCHANGED <<sig, parent, nextPid, fifo, line, linked>>

\* The new node, NULL when it is malformed or its parent is not in the tree.
NodeToAdd(p, content) ==
  LET info == proc_node_fromstr(content)
  IN  IF info = NULL THEN NULL ELSE IF CanAdd(trees[p], info.ppid) THEN info ELSE NULL

\* Mutant: a node that cannot be decoded is not refused.
msg_add_handler_silent(p, msg) ==
  LET node == NodeToAdd(p, msg.content)
  IN  IF proc_node_fromstr(msg.content) = NULL
      THEN /\ Goto(p, "towait", lib[p], mem[p])
           /\ UNCHANGED <<sig, parent, nextPid, fifo, managerVars>>
      ELSE /\ trees' = IF node = NULL THEN trees
                      ELSE [trees EXCEPT ![p] = proc_node_add(@, node.pid, node.ppid, node.name)]
           /\ Answer(p, msg.sender, IF node = NULL THEN MSG_ERROR ELSE MSG_SUCCESS, <<Pad>>)

msg_add_handler(p, msg) ==
  LET node == NodeToAdd(p, msg.content)
  IN  /\ trees' = IF node = NULL THEN trees
                  ELSE [trees EXCEPT ![p] = proc_node_add(@, node.pid, node.ppid, node.name)]
      /\ Answer(p, msg.sender, IF node = NULL THEN MSG_ERROR ELSE MSG_SUCCESS, <<Pad>>)

msg_info_handler(p, msg) ==
  LET i == proc_node_find_by_name(trees[p], msg.content)
  IN  /\ UNCHANGED trees
      /\ IF i = 0
         THEN Answer(p, msg.sender, MSG_ERROR, <<Pad>>)
         ELSE Answer(p, msg.sender, MSG_INFO,
                     proc_node_tostr(trees[p][i].pid, trees[p][i].ppid, trees[p][i].name))

\* Mutant: a process with clones is removed.
msg_remove_handler_any(p, msg) ==
  LET ok == proc_node_find_by_pid(trees[p], msg.sender) # 0
  IN  /\ trees' = IF ok THEN [trees EXCEPT ![p] = proc_node_remove(@, msg.sender)] ELSE trees
      /\ Answer(p, msg.sender, IF ok THEN MSG_SUCCESS ELSE MSG_ERROR, <<Pad>>)

\* The sender is the process to remove.
msg_remove_handler(p, msg) ==
  LET ok == CanRemove(trees[p], msg.sender)
  IN  /\ trees' = IF ok THEN [trees EXCEPT ![p] = proc_node_remove(@, msg.sender)] ELSE trees
      /\ Answer(p, msg.sender, IF ok THEN MSG_SUCCESS ELSE MSG_ERROR, <<Pad>>)

\* One node, to be acknowledged before the next.
SendNode(p, to, procs) ==
  LET n == Head(procs)
  IN  /\ Goto(p, "list_sent", message_send(p, to, MSG_INFO, proc_node_tostr(n.pid, n.ppid, n.name)),
              [mem[p] EXCEPT !.peer = to, !.procs = Tail(procs)])
      /\ UNCHANGED <<sig, parent, nextPid, fifo, managerVars>>

msg_list_handler(p, msg) ==
  LET i == proc_node_find_by_name(trees[p], msg.content)
  IN  IF i = 0
      THEN Answer(p, msg.sender, MSG_ERROR, <<Pad>>) /\ UNCHANGED trees
      ELSE SendNode(p, msg.sender, proc_node_get_array(trees[p], i))

\* Mutant: the next node is sent without an acknowledgement.
AwaitAck_skipped(p) ==
  /\ Ready(p, "list_sent")
  /\ Goto(p, "list_ack", lib[p], mem[p])
  /\ UNCHANGED <<sig, parent, nextPid, fifo, managerVars>>

\* The acknowledgement is awaited whether or not the node could be sent.
AwaitAck(p) ==
  /\ Ready(p, "list_sent")
  /\ Goto(p, "list_ack", message_wait(p, mem[p].peer), mem[p])
  /\ UNCHANGED <<sig, parent, nextPid, fifo, managerVars>>

\* Mutant: the last node is not sent.
GotAck_short(p) ==
  /\ Ready(p, "list_ack")
  /\ IF Len(mem[p].procs) > 1
     THEN SendNode(p, mem[p].peer, mem[p].procs)
     ELSE /\ Goto(p, "towait", message_send(p, mem[p].peer, MSG_SUCCESS, <<Pad>>),
                  [mem[p] EXCEPT !.peer = NoPid])
          /\ UNCHANGED <<sig, parent, nextPid, fifo, managerVars>>

\* Whatever was received counts as the acknowledgement.
GotAck(p) ==
  /\ Ready(p, "list_ack")
  /\ IF mem[p].procs # <<>>
     THEN SendNode(p, mem[p].peer, mem[p].procs)
     ELSE /\ Goto(p, "towait", message_send(p, mem[p].peer, MSG_SUCCESS, <<Pad>>),
                  [mem[p] EXCEPT !.peer = NoPid])
          /\ UNCHANGED <<sig, parent, nextPid, fifo, managerVars>>

message_handler(p) ==
  /\ Ready(p, "handle")
  /\ LET msg == lib[p].msg IN
     IF msg = NULL
     THEN /\ Goto(p, "towait", lib[p], mem[p])
          /\ UNCHANGED <<sig, parent, nextPid, fifo, managerVars>>
     ELSE CASE msg.type = MSG_ADD    -> msg_add_handler(p, msg)
            [] msg.type = MSG_INFO   -> msg_info_handler(p, msg)
            [] msg.type = MSG_REMOVE -> msg_remove_handler(p, msg)
            [] msg.type = MSG_LIST   -> msg_list_handler(p, msg)
            [] OTHER -> Answer(p, msg.sender, MSG_ERROR, <<Pad>>) /\ UNCHANGED trees

\* What a manager does by itself, the input left to its user.
ManagerStep(p) ==
  \/ execvp(p)
  \/ Poll(p)
  \/ WaitCommand(p)
  \/ cleanup(p)
  \/ message_handler(p)
  \/ AwaitAck(p)
  \/ GotAck(p)
=============================================================================
