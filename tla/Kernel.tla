------------------------------- MODULE Kernel -------------------------------
(***************************************************************************)
(* What CustomShell uses of the operating system: processes that fork(),   *)
(* exit() and become zombies, and the standard signals SIGUSR1, SIGTERM,   *)
(* SIGINT and SIGCHLD.  None of it is the repository's code; it is         *)
(* modelled from the system calls that code makes.                         *)
(*                                                                         *)
(* A process is at a program point pc[p]; lib[p] is the part of its memory *)
(* that message.c owns and mem[p] the part its own program owns, so that   *)
(* fork() copies both.  A standard signal is pending at most once: while   *)
(* one is pending, later ones of the same number are dropped, and the      *)
(* handler is told the sender of the first.  A handler runs between any    *)
(* two steps of its process; when the process is blocked in a system call  *)
(* the handler also ends that call (no handler of CustomShell asks for     *)
(* SA_RESTART).                                                            *)
(***************************************************************************)
EXTENDS Wire, Integers

CONSTANTS
  pmanager,      \* the name of the root of the process tree
  MaxPid,        \* bound: pids are 1..MaxPid and never reused
  ForkMayFail,   \* whether fork() may return -1
  Interactive    \* whether commands come from a terminal, not from a file

\* The root is called "pmanager": no delimiter is in its name.
ASSUME NameAssumption == pmanager \in Str /\ CleanName(pmanager)

VARIABLES
  pc,        \* program point of each process
  lib,       \* memory of message.c in each process
  mem,       \* memory of the program of each process
  sig,       \* pending signals of each process
  parent,    \* parent of each process
  nextPid    \* the pid the next fork() gives

kernelVars == <<pc, lib, mem, sig, parent, nextPid>>

Pid     == 1..MaxPid
PM      == 1     \* pmanager is the first process
InitPid == 0     \* a process outside the shell: init, which adopts orphans and
                 \* reaps them at once
NoPid   == -1

Programs == {"pnew", "pspawn", "pclose", "prmall", "plist", "ptree", "pinfo", "phelp"}

\* Program points of a process running child_init()'s loop.
ChildPoints ==
  {"loop", "asleep", "flag", "unread", "got", "term_sent", "term_reply", "term_done",
   "term_failed", "clone_asked", "clone_reply", "clone_sent", "clone_added"}

\* Program points of pmanager, and of a copy of it whose execvp() failed; a
\* process pmanager has just forked is at "exec".
ManagerPoints ==
  {"readline", "poll", "handle", "towait", "waitpid", "list_sent", "list_ack", "cleanup", "exec"}

\* Program points of a command; "boot" is a process pnew has just forked.
CommandPoints ==
  {"start", "exit", "boot", "pnew_asked", "pnew_reply", "pnew_sent", "pnew_added", "list_asked",
   "list_item", "rm_next", "info_asked", "info_reply", "popen", "spawn_sent"}

Gone   == {"unborn", "zombie", "dead", "killed"}
Points == ChildPoints \union ManagerPoints \union CommandPoints \union Gone

BlankLib ==
  [unread_flag |-> FALSE, message_sender |-> NoPid,
   at |-> "ret", pid |-> NoPid, text |-> <<>>, status |-> 0, msg |-> NULL]

BlankMem ==
  [prog |-> "none", name |-> <<>>, peer |-> NoPid, kid |-> NoPid, procs |-> <<>>,
   clones_count |-> 0, sigterm_flag |-> 0, sigterm_sender |-> NoPid, overwrote |-> FALSE,
   exiting |-> FALSE, masked |-> {}]

NoSignals == [usr1 |-> NoPid, term |-> NoPid, int |-> FALSE, chld |-> FALSE]

SignalType ==
  [usr1 : Pid \union {NoPid}, term : Pid \union {NoPid}, int : BOOLEAN, chld : BOOLEAN]

\* What a process that runs pinfo through popen() has read of its output:
\* nothing yet, the end of it, or a pid.
Pending   == 0
EndOfFile == NoPid

-----------------------------------------------------------------------------
Alive(p)  == pc[p] \notin Gone
Exists(p) == p \in Pid /\ pc[p] \notin {"unborn", "dead", "killed"}

\* kill(q, SIGUSR1) and kill(q, SIGTERM) by p.  A zombie can be signalled; it
\* takes no notice.
PostUsr1(q, p) ==
  sig' = IF Exists(q) /\ Alive(q) /\ sig[q].usr1 = NoPid
         THEN [sig EXCEPT ![q].usr1 = p] ELSE sig

PostTerm(q, p) ==
  sig' = IF Exists(q) /\ Alive(q) /\ sig[q].term = NoPid
         THEN [sig EXCEPT ![q].term = p] ELSE sig

\* The signals p does not take now: sigsuspend() blocks none.
Blocks(p) == IF lib[p].at = "asleep" THEN {} ELSE mem[p].masked

Interrupted(p) == sig[p].int /\ "int" \notin Blocks(p)

\* The program points p may find itself at once a handler has run: a blocking
\* call ends with EINTR, unless waitpid() already has its zombie.  getline()
\* fails only when it was already blocked on a terminal.
AfterSignal(p) ==
  CASE pc[p] = "asleep"   -> {"flag"}
    [] pc[p] = "waitpid"  -> IF pc[mem[p].kid] = "zombie" THEN {"waitpid"} ELSE {"poll"}
    [] pc[p] = "readline" -> IF Interactive THEN {"readline", "cleanup"} ELSE {"readline"}
    [] OTHER              -> {pc[p]}

\* message_wait()'s sigsuspend() returns to its loop condition.
WokenAt(at) == IF at = "asleep" THEN "check" ELSE at

\* The process p ends.  Its zombies, and itself when it is an orphan, are
\* reaped by init; a parent running child_init() gets SIGCHLD.
EndProcess(p) ==
  /\ pc' = [q \in Pid |->
              IF q = p THEN IF parent[p] = InitPid THEN "dead" ELSE "zombie"
              ELSE IF parent[q] = p /\ pc[q] = "zombie" THEN "dead" ELSE pc[q]]
  /\ parent' = [q \in Pid |-> IF parent[q] = p THEN InitPid ELSE parent[q]]
  /\ sig' = [q \in Pid |->
               IF q = p THEN NoSignals
               ELSE IF q = parent[p] /\ pc[q] \in ChildPoints
                    THEN [sig[q] EXCEPT !.chld = TRUE] ELSE sig[q]]
  /\ lib' = [lib EXCEPT ![p] = BlankLib]

\* p ends, having written `output' to the pipe a popen() reads, if any; what it
\* wrote is flushed at exit().
ExitPrinting(p, output) ==
  /\ EndProcess(p)
  /\ mem' = [q \in Pid |->
               IF q = p THEN BlankMem
               ELSE IF q = parent[p] /\ pc[q] = "popen" /\ mem[q].peer = Pending
                    THEN [mem[q] EXCEPT !.peer = output] ELSE mem[q]]
  /\ UNCHANGED nextPid

\* exit(), and the death of a process by a signal or a null pointer.
Exit(p)  == ExitPrinting(p, EndOfFile)
Crash(p) == Exit(p)

\* p goes on at `point' with `l' as its library memory and `m' as its own.
Goto(p, point, l, m) ==
  /\ pc'  = [pc EXCEPT ![p] = point]
  /\ lib' = [lib EXCEPT ![p] = l]
  /\ mem' = [mem EXCEPT ![p] = m]

\* The same for p and for the process it forks.
Fork(p, point, l, m, kidPoint, kidLib, kidMem) ==
  /\ nextPid <= MaxPid
  /\ pc'  = [pc EXCEPT ![p] = point, ![nextPid] = kidPoint]
  /\ lib' = [lib EXCEPT ![p] = l, ![nextPid] = kidLib]
  /\ mem' = [mem EXCEPT ![p] = m, ![nextPid] = kidMem]
  /\ parent' = [parent EXCEPT ![nextPid] = p]
  /\ nextPid' = nextPid + 1

-----------------------------------------------------------------------------
(***************************************************************************)
(* SIGINT.  Ctrl-C sends it to every process of the terminal's group, that *)
(* is to all of them at once, and each notices it before its next system   *)
(* call: none can write, signal, fork or exit in between.  Only a text p   *)
(* is reading character by character may be read on, as far as it had been *)
(* read when the signal came.  Only pmanager has a handler for SIGINT; the *)
(* others are taken to have died before anyone can look at them again.     *)
(***************************************************************************)
Held(p) == Interrupted(p) /\ lib[p].at # "read"

Dying == {p \in Pid : Interrupted(p) /\ Alive(p) /\ pc[p] \notin ManagerPoints}

\* p may take a step of its program.
Runs(p) == Alive(p) /\ ~Held(p) /\ (Dying = {} \/ p \in Dying)

PressCtrlC ==
  sig' = [p \in Pid |-> IF Alive(p) THEN [sig[p] EXCEPT !.int = TRUE] ELSE sig[p]]

DieOfInterrupt(p) == p \in Dying /\ Exit(p)
=============================================================================
