------------------------------- MODULE Child -------------------------------
(***************************************************************************)
(* child.c: the processes the shell manages.  child_init() sleeps until a  *)
(* signal and then looks, once, at the flags the handlers left: SIGTERM    *)
(* makes it ask pmanager for its removal, a MSG_SPAWN makes it fork a      *)
(* clone.  A step runs from one blocking or signalling system call to the  *)
(* next, with a step of its own for every test or reset of a flag.         *)
(***************************************************************************)
EXTENDS Messages

\* resume_process(): the call of message_send() that ends both requests.
resume_process(p, to) == message_send(p, to, MSG_SUCCESS, <<Pad>>)

-----------------------------------------------------------------------------
(***************************************************************************)
(* child_init().                                                           *)
(***************************************************************************)
\* The handlers are in place.
RegisterHandlers(p) ==
  /\ Ready(p, "boot")
  /\ pc' = [pc EXCEPT ![p] = "loop"]
  /\ UNCHANGED <<lib, mem, sig, parent, nextPid, fifo>>

\* sigsuspend(), whatever the flags say.
Sleep(p) ==
  /\ Ready(p, "loop")
  /\ pc' = [pc EXCEPT ![p] = "asleep"]
  /\ UNCHANGED <<lib, mem, sig, parent, nextPid, fifo>>

CheckSigtermFlag(p) ==
  /\ Ready(p, "flag")
  /\ IF mem[p].sigterm_flag = 1
     THEN Goto(p, "term_sent", message_send(p, PM, MSG_REMOVE, <<Pad>>), mem[p])
     ELSE Goto(p, "unread", lib[p], mem[p])
  /\ UNCHANGED <<sig, parent, nextPid, fifo>>

CheckUnreadFlag(p) ==
  /\ Ready(p, "unread")
  /\ IF lib[p].unread_flag
     THEN Goto(p, "got", message_read(p), mem[p])
     ELSE Goto(p, "loop", lib[p], mem[p])
  /\ UNCHANGED <<sig, parent, nextPid, fifo>>

\* Only MSG_SPAWN is acted upon; child_clone() starts by asking pmanager
\* whether the name of the clone is taken.
NextName(p) == CloneName(mem[p].name, mem[p].clones_count + 1)

GotMessage(p) ==
  /\ Ready(p, "got")
  /\ LET msg == lib[p].msg IN
     CASE msg = NULL -> Crash(p)
       [] msg # NULL /\ msg.type = MSG_SPAWN ->
            /\ Goto(p, "clone_asked", message_send(p, PM, MSG_INFO, NextName(p)),
                    [mem[p] EXCEPT !.peer = msg.sender])
            /\ UNCHANGED <<sig, parent, nextPid>>
       [] OTHER ->
            /\ Goto(p, "loop", [lib[p] EXCEPT !.msg = NULL], mem[p])
            /\ UNCHANGED <<sig, parent, nextPid>>
  /\ UNCHANGED fifo

-----------------------------------------------------------------------------
(***************************************************************************)
(* child_terminate().                                                      *)
(***************************************************************************)
AwaitRemoval(p) ==
  /\ Ready(p, "term_sent")
  /\ IF lib[p].status = 0
     THEN Goto(p, "term_reply", message_wait(p, PM), mem[p])
     ELSE Goto(p, "unread", resume_process(p, mem[p].sigterm_sender), mem[p])
  /\ UNCHANGED <<sig, parent, nextPid, fifo>>

\* Mutant: the process exits although its removal was refused.
GotRemoval_exits(p) ==
  /\ Ready(p, "term_reply")
  /\ Goto(p, "term_done", resume_process(p, mem[p].sigterm_sender), mem[p])
  /\ UNCHANGED <<sig, parent, nextPid, fifo>>

\* Mutant: the process goes on although it was removed.
GotRemoval_stays(p) ==
  /\ Ready(p, "term_reply")
  /\ Goto(p, "term_failed", resume_process(p, mem[p].sigterm_sender), mem[p])
  /\ UNCHANGED <<sig, parent, nextPid, fifo>>

\* Mutant: the sender is resumed only by a process that exits.
GotRemoval_silent(p) ==
  /\ Ready(p, "term_reply")
  /\ IF lib[p].msg # NULL /\ lib[p].msg.type = MSG_SUCCESS
     THEN Goto(p, "term_done", resume_process(p, mem[p].sigterm_sender), mem[p])
     ELSE Goto(p, "term_failed", [lib[p] EXCEPT !.msg = NULL], mem[p])
  /\ UNCHANGED <<sig, parent, nextPid, fifo>>

GotRemoval(p) ==
  /\ Ready(p, "term_reply")
  /\ IF lib[p].msg = NULL
     THEN Crash(p)
     ELSE /\ Goto(p, IF lib[p].msg.type = MSG_SUCCESS THEN "term_done" ELSE "term_failed",
                  resume_process(p, mem[p].sigterm_sender), mem[p])
          /\ UNCHANGED <<sig, parent, nextPid>>
  /\ UNCHANGED fifo

ExitChild(p) ==
  /\ Ready(p, "term_done")
  /\ Exit(p)
  /\ UNCHANGED fifo

\* set_sigterm_flag(0), after the sender has been resumed.
ResetSigtermFlag(p) ==
  /\ Ready(p, "term_failed")
  /\ Goto(p, "unread", lib[p], [mem[p] EXCEPT !.sigterm_flag = 0])
  /\ UNCHANGED <<sig, parent, nextPid, fifo>>

-----------------------------------------------------------------------------
(***************************************************************************)
(* child_clone().  mem[p].peer is its argument `sender', mem[p].kid the    *)
(* pid of the clone; both are dead once it returns.                        *)
(***************************************************************************)
CloneReturns(p) == [mem[p] EXCEPT !.peer = NoPid, !.kid = NoPid]

AwaitDuplicateCheck(p) ==
  /\ Ready(p, "clone_asked")
  /\ IF lib[p].status = 0
     THEN Goto(p, "clone_reply", message_wait(p, PM), mem[p])
     ELSE Goto(p, "loop", resume_process(p, mem[p].peer), CloneReturns(p))
  /\ UNCHANGED <<sig, parent, nextPid, fifo>>

\* Mutant: the pids of the clone and of its parent are swapped.
ForkClone_swapped(p) ==
  LET name == NextName(p)
  IN  Fork(p, "clone_sent",
           message_send(p, PM, MSG_ADD, proc_node_tostr(p, nextPid, name)),
           [mem[p] EXCEPT !.kid = nextPid],
           "loop", [lib[p] EXCEPT !.msg = NULL],
           [CloneReturns(p) EXCEPT !.name = name, !.clones_count = 0])

\* The clone starts with a copy of all memory, flags included.
ForkClone(p) ==
  LET name == NextName(p)
      kidLib == [lib[p] EXCEPT !.msg = NULL]
      kidMem == [CloneReturns(p) EXCEPT !.name = name, !.clones_count = 0]
  IN  Fork(p, "clone_sent",
           message_send(p, PM, MSG_ADD, proc_node_tostr(nextPid, p, name)),
           [mem[p] EXCEPT !.kid = nextPid], "loop", kidLib, kidMem)

\* A failed fork() returns without resuming the sender.
child_clone(p) ==
  /\ Ready(p, "clone_reply")
  /\ LET msg == lib[p].msg IN
     CASE msg = NULL -> Crash(p)
       [] msg # NULL /\ msg.type = MSG_INFO ->
            /\ Goto(p, "loop", resume_process(p, mem[p].peer), CloneReturns(p))
            /\ UNCHANGED <<sig, parent, nextPid>>
       [] OTHER ->
            /\ \/ ForkClone(p)
               \/ /\ ForkMayFail
                  /\ Goto(p, "loop", [lib[p] EXCEPT !.msg = NULL], CloneReturns(p))
                  /\ UNCHANGED <<parent, nextPid>>
            /\ UNCHANGED sig
  /\ UNCHANGED fifo

\* The clone that could not be added gets SIGTERM; nobody waits for it.
KillClone(p) ==
  /\ PostTerm(mem[p].kid, p)
  /\ Goto(p, "loop", resume_process(p, mem[p].peer), CloneReturns(p))

send_proc_to_pmanager(p) ==
  /\ Ready(p, "clone_sent")
  /\ IF lib[p].status = 0
     THEN /\ Goto(p, "clone_added", message_wait(p, PM), mem[p])
          /\ UNCHANGED sig
     ELSE KillClone(p)
  /\ UNCHANGED <<parent, nextPid, fifo>>

\* Mutant: the sender is not resumed after a successful clone.
CloneAdded_silent(p) ==
  /\ Ready(p, "clone_added")
  /\ IF lib[p].msg # NULL /\ lib[p].msg.type = MSG_SUCCESS
     THEN /\ Goto(p, "loop", [lib[p] EXCEPT !.msg = NULL],
                  [CloneReturns(p) EXCEPT !.clones_count = @ + 1])
          /\ UNCHANGED sig
     ELSE KillClone(p)
  /\ UNCHANGED <<parent, nextPid, fifo>>

CloneAdded(p) ==
  /\ Ready(p, "clone_added")
  /\ IF lib[p].msg # NULL /\ lib[p].msg.type = MSG_SUCCESS
     THEN /\ Goto(p, "loop", resume_process(p, mem[p].peer),
                  [CloneReturns(p) EXCEPT !.clones_count = @ + 1])
          /\ UNCHANGED sig
     ELSE KillClone(p)
  /\ UNCHANGED <<parent, nextPid, fifo>>

-----------------------------------------------------------------------------
(***************************************************************************)
(* The handlers of SIGTERM and SIGCHLD.                                    *)
(***************************************************************************)
\* `overwrote' is not in the code: it records that the flag was still set for
\* an earlier SIGTERM.
sigterm_handler(p) ==
  /\ pc[p] \in ChildPoints
  /\ sig[p].term # NoPid
  /\ sig' = [sig EXCEPT ![p].term = NoPid]
  /\ mem' = [mem EXCEPT ![p].sigterm_flag = 1, ![p].sigterm_sender = sig[p].term,
                        ![p].overwrote = mem[p].sigterm_flag = 1]
  /\ lib' = [lib EXCEPT ![p].at = WokenAt(@)]
  /\ \E point \in AfterSignal(p) : pc' = [pc EXCEPT ![p] = point]
  /\ UNCHANGED <<parent, nextPid, fifo>>

\* Before child_init() has registered a handler SIGTERM kills.
KilledAtBoot(p) ==
  /\ pc[p] = "boot"
  /\ sig[p].term # NoPid
  /\ pc' = [pc EXCEPT ![p] = "killed"]
  /\ lib' = [lib EXCEPT ![p] = BlankLib]
  /\ mem' = [mem EXCEPT ![p] = BlankMem]
  /\ sig' = [sig EXCEPT ![p] = NoSignals]
  /\ UNCHANGED <<parent, nextPid, fifo>>

Zombies(p) == {q \in Pid : parent[q] = p /\ pc[q] = "zombie"}

\* Mutant: the handler does not call wait().
remove_zombie_not(p) ==
  /\ pc[p] \in ChildPoints
  /\ sig[p].chld
  /\ sig' = [sig EXCEPT ![p].chld = FALSE]
  /\ lib' = [lib EXCEPT ![p].at = WokenAt(@)]
  /\ \E point \in AfterSignal(p) : pc' = [pc EXCEPT ![p] = point]
  /\ UNCHANGED <<mem, parent, nextPid, fifo>>

\* One wait(): one zombie, however many deaths the signal stands for.  There is
\* one, as a pending SIGCHLD stands for at least one death since the last wait(),
\* so wait() never blocks.
remove_zombie(p) ==
  /\ pc[p] \in ChildPoints
  /\ sig[p].chld
  /\ sig' = [sig EXCEPT ![p].chld = FALSE]
  /\ \E q \in Zombies(p), point \in AfterSignal(p) :
       pc' = [pc EXCEPT ![q] = "dead", ![p] = point]
  /\ lib' = [lib EXCEPT ![p].at = WokenAt(@)]
  /\ UNCHANGED <<mem, parent, nextPid, fifo>>

ChildSignal(p) ==
  \/ sigterm_handler(p)
  \/ KilledAtBoot(p)
  \/ remove_zombie(p)

ChildStep(p) ==
  \/ RegisterHandlers(p)
  \/ Sleep(p)
  \/ CheckSigtermFlag(p)
  \/ CheckUnreadFlag(p)
  \/ GotMessage(p)
  \/ AwaitRemoval(p)
  \/ GotRemoval(p)
  \/ ExitChild(p)
  \/ ResetSigtermFlag(p)
  \/ AwaitDuplicateCheck(p)
  \/ child_clone(p)
  \/ send_proc_to_pmanager(p)
  \/ CloneAdded(p)
=============================================================================
