---------------------------- MODULE CustomShell ----------------------------
(***************************************************************************)
(* The whole shell: pmanager, the command it waits for, the pinfo of a     *)
(* command, the managed processes and the copies of pmanager that failed   *)
(* to execute a command, all interleaved, with the signals delivered at    *)
(* any moment, Ctrl-C included.                                            *)
(***************************************************************************)
EXTENDS PManager

CONSTANT UserSignals    \* bound: the signals of the user, once each

\* Ctrl-C, but not while a process is between fork() and execvp(); another one
\* when cleanup() gets no further.
ASSUME UserSignalsAssumption == UserSignals \subseteq {"interrupt", "interrupt cleanup"}

VARIABLE outside        \* which of UserSignals have been sent

vars == <<pc, lib, mem, sig, parent, nextPid, fifo, managerVars, outside>>

Init ==
  /\ pc = [p \in Pid |-> IF p = PM THEN "readline" ELSE "unborn"]
  /\ lib = [p \in Pid |-> BlankLib]
  /\ mem = [p \in Pid |-> IF p = PM THEN NewCommand("pmanager", pmanager, NoPid) ELSE BlankMem]
  /\ sig = [p \in Pid |-> NoSignals]
  /\ parent = [p \in Pid |-> InitPid]
  /\ nextPid = PM + 1
  /\ fifo = <<>>
  /\ linked = TRUE
  /\ trees = [p \in Pid |-> IF p = PM THEN RootOnly(PM, InitPid, pmanager) ELSE <<>>]
  /\ line = 0
  /\ outside = {}

\* The user types a line, or closes the input.
UserStep == Runs(PM) /\ (ReadLine \/ EndOfInput) /\ UNCHANGED outside

Blocked(p) ==
  /\ sig[p] = NoSignals
  /\ \/ lib[p].at = "asleep"
     \/ lib[p].at = "ret" /\ pc[p] = "asleep"
     \/ lib[p].at = "ret" /\ pc[p] = "waitpid" /\ pc[mem[p].kid] # "zombie"
     \/ lib[p].at = "ret" /\ pc[p] = "popen" /\ mem[p].peer = Pending

\* Everybody waits for somebody, and the user for pmanager.
Quiescent == Alive(PM) /\ \A p \in Pid : Alive(p) => Blocked(p)

\* The last prmall, and whoever else is left, waits; so may pmanager.
Stalled == mem[PM].exiting /\ \A p \in Pid \ {PM} : Alive(p) => Blocked(p)

Managed(p) == pc[p] \in ChildPoints \union {"boot"}

UserSignal ==
  /\ Alive(PM) /\ Dying = {}
  /\ \E s \in UserSignals \ outside :
       /\ outside' = outside \union {s}
       /\ s = "interrupt" => \A p \in Pid : pc[p] # "exec"
       /\ s = "interrupt cleanup" => Stalled
  /\ PressCtrlC
  /\ UNCHANGED <<pc, lib, mem, parent, nextPid, fifo, managerVars>>

\* What a process does by itself.
ProcessStep(p) ==
  /\ Runs(p)
  /\ \/ (MessageStep(p) \/ ChildStep(p) \/ CommandStep(p)) /\ UNCHANGED managerVars
     \/ ManagerStep(p)
  /\ UNCHANGED outside

\* A signal reaches p: its handler runs, or it dies.
SignalStep(p) ==
  /\ \/ Dying = {} /\ (set_unread_flag(p) \/ ChildSignal(p)) /\ UNCHANGED managerVars
     \/ Dying = {} /\ terminate(p)
     \/ DieOfInterrupt(p) /\ UNCHANGED <<fifo, managerVars>>
  /\ UNCHANGED outside

Next == UserStep \/ UserSignal \/ \E p \in Pid : ProcessStep(p) \/ SignalStep(p)

Spec == Init /\ [][Next]_vars

(***************************************************************************)
(* The kernel runs every process and delivers every signal.  Nothing is    *)
(* assumed of the user.                                                    *)
(***************************************************************************)
Fairness == \A p \in Pid : WF_vars(ProcessStep(p)) /\ WF_vars(SignalStep(p))

FairSpec == Spec /\ Fairness

-----------------------------------------------------------------------------
\* Every variable holds what the code can put there.
TypeOK ==
  /\ pc \in [Pid -> Points]
  /\ lib \in [Pid -> LibType]
  /\ mem \in [Pid -> MemType]
  /\ sig \in [Pid -> SignalType]
  /\ parent \in [Pid -> Pid \union {InitPid}]
  /\ nextPid \in Pid \union {MaxPid + 1}
  /\ fifo \in Seq(LetterType)
  /\ linked \in BOOLEAN
  /\ trees \in [Pid -> Seq(TreeNode)]
  /\ line \in 0..Len(Script)
  /\ outside \subseteq UserSignals

-----------------------------------------------------------------------------
(***************************************************************************)
(* The message exchange.  Nothing but the order of the calls keeps the     *)
(* texts in the one FIFO apart.                                            *)
(***************************************************************************)
\* Only one process reads the FIFO at a time: message_read() takes a character
\* per read(), so two readers would tear a text apart.
SingleReader ==
  \A p \in Pid : lib[p].at = "read" => \A q \in Pid : lib[q].at = "read" => p = q

\* A process that starts to read finds a text, the oldest one is from the
\* process that notified it, and in message_wait() from the one it waits for:
\* SIGUSR1 and the FIFO never disagree although only the signal says whose
\* turn it is.
ReadsItsMessage ==
  \A p \in Pid : lib[p].at = "read" =>
    /\ fifo # <<>>
    /\ Head(fifo).text[1] = lib[p].message_sender
    /\ lib[p].pid \in {NoPid, Head(fifo).text[1]}

\* When pmanager reads the next line, what the last command set in motion is
\* over: no text, no signal and no flag is left that the next command could
\* mistake for its own, and the managed processes that go on have no call of
\* message.c open.
QuietAtPrompt ==
  pc[PM] = "readline" =>
    /\ fifo = <<>>
    /\ \A p \in Pid : sig[p].usr1 = NoPid /\ sig[p].term = NoPid
    /\ ~lib[PM].unread_flag
    /\ \A p \in Pid : lib[p].at \in {"ret", "asleep"} \/ pc[p] = "exit"

\* The pid pclose and pspawn take from the output of pinfo is still, when they
\* use it, that of the process with the name they were given.
InfoCurrent ==
  \A p \in Pid : Ready(p, "popen") /\ mem[p].peer \notin {Pending, EndOfFile} =>
    \E i \in 1..Len(tree) : tree[i].name = mem[p].name /\ tree[i].pid = mem[p].peer

-----------------------------------------------------------------------------
(***************************************************************************)
(* The registry.                                                           *)
(***************************************************************************)
\* No two processes of the tree have the same name, though pnew and a managed
\* process ask whether a name is taken long before the name is added.
NamesUnique == \A i, j \in 1..Len(tree) : tree[i].name = tree[j].name => i = j

\* When pmanager reads the next line, the tree and the living processes agree:
\* a managed process not on its way out is in the tree, and a node of the tree
\* stands for a living process of that name.  A process SIGTERM killed before
\* it had its handler is the exception.
TreeAccurate ==
  pc[PM] = "readline" =>
    /\ \A p \in Pid \ {PM} : Managed(p) /\ pc[p] # "term_done" => p \in Pids(tree)
    /\ \A i \in 2..Len(tree) : pc[tree[i].pid] # "killed" =>
         /\ Managed(tree[i].pid)
         /\ mem[tree[i].pid].name = tree[i].name

\* The kernel agrees with the tree on whose child a clone is: a process with
\* clones in the tree has not exited, however its SIGTERM, their removal and
\* the next clone interleave.
TreeMatchesKernel ==
  \A i \in 1..Len(tree) :
    tree[i].depth >= 2 => Managed(tree[i].pid) /\ parent[tree[i].pid] = tree[i].ppid

\* prmall signals a process only when its removal cannot be refused: it is
\* still in pmanager's tree, and all its clones have left that tree.
VictimIsLeaf ==
  \A p \in Pid : Ready(p, "rm_next") /\ mem[p].procs # <<>> =>
    LET q == mem[p].procs[NextVictim(mem[p].procs)].pid
        i == proc_node_find_by_pid(tree, q)
    IN  q # PM => i # 0 /\ IsLeaf(tree, i)

\* The list a command has received when pmanager ends it is the subtree asked
\* for: plist has every row in order, ptree and prmall have rebuilt the tree
\* from the parents' pids, with the depths relative to its root.
Received(p, list) ==
  [k \in 1..Len(list) |->
     [list[k] EXCEPT !.depth = IF mem[p].prog = "plist" THEN 0 ELSE @ - list[1].depth]]

ListFaithful ==
  \A p \in Pid : Ready(p, "list_item") /\ lib[p].msg # NULL /\ lib[p].msg.type = MSG_SUCCESS =>
    LET name == IF mem[p].prog = "prmall" THEN mem[p].name ELSE pmanager
        i    == proc_node_find_by_name(tree, name)
    IN  i # 0 /\ mem[p].procs = Received(p, proc_node_get_array(tree, i))

\* Two processes of the tree share a name only when one of them was given another
\* one: tokenize() has dropped the ';' at its end, so that what pnew added is not
\* what it had asked for.
GivenNamesUnique ==
  LET given == {i \in 1..Len(tree) : mem[tree[i].pid].name = tree[i].name}
  IN  \A i, j \in given : tree[i].name = tree[j].name => i = j

\* Nobody can have the process p added below pmanager under that name: what is
\* left of it, once it has been decoded, is no node.
Unlistable(p, name) ==
  \E q \in Pid :
    LET msg == MessageOf(MessageText(q, MSG_ADD, proc_node_tostr(p, PM, name)))
    IN  msg # NULL /\ proc_node_fromstr(msg.content) = NULL

\* When pmanager reads the next line, a living managed process that is not in the
\* tree is one pnew could not add and abort_fork() could not kill: its name does
\* not fit into a node.
OutsidersOdd ==
  pc[PM] = "readline" =>
    \A p \in Pid : Managed(p) /\ pc[p] # "term_done" /\ p \notin Pids(tree) =>
      Unlistable(p, mem[p].name)

\* Whatever is typed, a name in the tree has no delimiter, so that a reply that
\* carries it can be decoded.
NamesStayClean == \A i \in 1..Len(tree) : CleanName(tree[i].name)

\* A managed process at rest keeps a zombie only when the SIGCHLD of several
\* clones were one signal: at least one of its clones has been reaped.
ZombiesMerged ==
  \A p \in Pid :
    /\ pc[p] = "asleep" /\ Blocked(p) /\ Zombies(p) # {}
    => LET living == {q \in Pid : parent[q] = p /\ Managed(q)}
       IN  Cardinality(Zombies(p)) + Cardinality(living) < mem[p].clones_count

\* The managed processes have ended or are about to exit.  Those are excepted that
\* prmall is not told of, as their name does not fit into a node.
AllSentHome ==
  \A p \in Pid : Managed(p) => pc[p] = "term_done" \/ Unlistable(p, mem[p].name)

\* When the shell has ended it has left no managed process behind, as long as
\* cleanup() gets a process for its prmall.
NobodyLeft == pc[PM] = "dead" => AllSentHome

\* The same where any fork() may fail, that of cleanup() too: a pmanager whose
\* cleanup() has had its prmall leaves nobody, whatever failed before.  Only where
\* a copy of it that could not execute has unlinked the FIFO is prmall in vain.
PrmallEndsAll ==
  [][pc[PM] # "dead" /\ pc'[PM] = "dead" /\ mem[PM].exiting /\ linked => AllSentHome']_vars

-----------------------------------------------------------------------------
(***************************************************************************)
(* Progress.  Three windows in the code let a signal go by unnoticed, and  *)
(* a process then sleeps on although it has been called; two requests get  *)
(* no answer at all.                                                       *)
(***************************************************************************)
\* SIGUSR1 was handled between the test of the flags and sigsuspend(), in
\* message_wait() or in child_init(), or between message_unread() and
\* waitpid() in exec_command(); or SIGTERM was, in child_init().
LostWakeup(p) ==
  \/ lib[p].at \in {"suspend", "asleep"} /\ Announced(p)
  \/ /\ pc[p] \in {"boot", "loop", "asleep"}
     /\ lib[p].at = "ret"
     /\ lib[p].unread_flag \/ mem[p].sigterm_flag = 1
  \/ pc[p] \in {"towait", "waitpid"} /\ lib[p].at = "ret" /\ lib[p].unread_flag

\* A second SIGTERM, handled during child_terminate(), was forgotten by its last
\* statement, set_sigterm_flag(0), and the sender waits for an answer.
DiscardedSigterm(p) ==
  /\ pc[p] = "asleep"
  /\ mem[p].sigterm_flag = 0
  /\ mem[p].overwrote
  /\ LET q == mem[p].sigterm_sender
     IN  q # NoPid /\ lib[q].at = "asleep" /\ lib[q].pid = p

\* SIGTERM came before child_init() had registered its handler.
KilledEarly(p) == pc[p] = "killed"

\* fork() failed in child_clone(), which then forgets the sender of MSG_SPAWN:
\* pspawn waits for a process that has gone back to sleep.
SpawnDropped(p) ==
  /\ ForkMayFail
  /\ mem[p].prog = "pspawn" /\ lib[p].at = "asleep"
  /\ LET q == lib[p].pid
     IN  pc[q] = "asleep" /\ Blocked(q) /\ ~lib[q].unread_flag /\ mem[q].sigterm_flag = 0

\* message_read() could not decode the request of a pnew or pinfo, for the ':' in
\* the name it asks about: pmanager drops it, and the command waits for ever.
RequestDropped(p) ==
  /\ pc[p] \in {"pnew_reply", "info_reply"} /\ lib[p].at = "asleep"
  /\ MessageOf(MessageText(p, MSG_INFO, mem[p].name)) = NULL

Missed ==
  \E p \in Pid :
    \/ LostWakeup(p) \/ DiscardedSigterm(p) \/ KilledEarly(p)
    \/ SpawnDropped(p) \/ RequestDropped(p)

\* The shell hangs only when a signal fell into one of those windows, when a
\* fork() failed for pspawn, or when a name with a ':' made a request of pnew or
\* pinfo that pmanager drops without an answer: waiting for replies alone never
\* ends in everyone waiting for everyone.
HangExplained == Quiescent => Missed

\* Under fair scheduling pmanager gets from a command back to its next line, or
\* ends, unless a signal was missed for good.
CommandReturns ==
  pc[PM] = "poll" ~> (pc[PM] \in {"readline", "dead"} \/ []Missed)

\* A managed process that pmanager does not list, because it has not been added
\* yet or has just been removed, is listed or ends in time.
Converges ==
  \A p \in Pid \ {PM} :
    (Managed(p) /\ p \notin Pids(tree)) ~> (~Managed(p) \/ p \in Pids(tree) \/ []Missed)

\* Ctrl-C while cleanup() waits ends the shell, whatever it waits for and
\* whatever an earlier Ctrl-C has left behind in the FIFO and the flags: SIGINT
\* may be blocked in pmanager and in prmall, but not while one of them sleeps in
\* sigsuspend().
CleanupInterruptible == "interrupt cleanup" \in outside ~> pc[PM] = "dead"

-----------------------------------------------------------------------------
(***************************************************************************)
(* What the comments of the code claim, and the code does not keep.        *)
(***************************************************************************)
\* message.h: "If a message was already received, the function returns
\* immediatly."  A process never sleeps in message_wait() with its message
\* already announced.
MessageWaitReturns ==
  \A p \in Pid : lib[p].at = "asleep" /\ sig[p].usr1 = NoPid => ~Announced(p)

\* message.h: message_wait() "waits until a message from pid is received".  What
\* it returns is from the process it waited for.
MessageFromWaited ==
  \A p \in Pid : lib[p].at = "reset" /\ lib[p].pid # NoPid /\ lib[p].msg # NULL =>
    lib[p].msg.sender = lib[p].pid

\* pmanager.c: parse_commands() "blocks until [...] quit command was read, stream
\* reached EOF, getline() returned an error".  With input left, none of it
\* "quit", pmanager does not exit.
BlocksUntilEnd == mem[PM].exiting => line = Len(Script)
=============================================================================
