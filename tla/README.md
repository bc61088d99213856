# CustomShell in TLA+

A specification of CustomShell: the shell `pmanager`, the commands it executes
and the processes it manages, which talk over one FIFO and three signals. It is
written from the C sources (`src/src/*.c`), model-checked with TLC on small scripts,
and proved with TLAPS for any script: that the processes take turns at the FIFO, that
messages reach their reader, that nothing a command has set in motion outlives it, that
the registry stays a tree and agrees with the processes and what they are told of it, and
what the text formats return.

## The system

`pmanager` reads a line, forks and executes the command, and serves the
messages that interrupt its `waitpid()`. A *managed process* is forked by `pnew`
and does nothing but wait for signals: SIGTERM makes it ask `pmanager` to be
removed, a `MSG_SPAWN` makes it clone itself. All programs share one FIFO for
texts; who reads next is said by SIGUSR1 alone.

| component | state | operations | talks to |
|---|---|---|---|
| `common.c` | none | `tokenize` | used by all decoders |
| `message.c` | `unread_flag`, `message_sender` per process; the FIFO | `message_send`, `message_wait`, `message_read`, SIGUSR1 handler | everyone |
| `proc_tree.c` | nested nodes with growing arrays of children | add, remove a leaf, find, list, encode, decode | `pmanager`, `ptree`, `prmall` |
| `child.c` | name, `clones_count`, `sigterm_flag`, `sigterm_sender` | `child_init`, `child_terminate`, `child_clone`, SIGTERM and SIGCHLD handlers | `pmanager`, `pclose`, `pspawn`, `prmall`, its clones |
| `pmanager.c`, `handlers.c` | the tree, the current command, the FIFO's name in the directory | start, read a line, run it, four message handlers, `cleanup`, `terminate` | all; other shells in the same directory |
| `pnew`, `pinfo`, `plist`, `ptree`, `pclose`, `pspawn`, `prmall`, `phelp` | local to a run | one request each, or a list, or signals | `pmanager`, managed processes |

What makes them correct, and what is hard about it:

* **messages** – a text is read by the process it was written for, by one process
  at a time, and nothing is left over for the next command. Hard: signals are
  handled at any moment, are merged when pending, and test-then-sleep is not atomic.
* **registry** – `pmanager`'s tree is well-formed and agrees with the living
  processes; names are unique. Hard: check and use are separate messages, and
  registering, cloning and removing interleave.
* **managed process** – it exits exactly when it was removed and always answers.
  Hard: flags set by handlers while it is busy; `fork()` copies them.
* **commands** – they act on what the tree says now, `prmall` goes children first,
  and every command ends.
* **shell** – it ends every managed process before it ends, at whatever moment it
  is told to, and its commands reach its FIFO unless another shell unlinks it. Hard: `exit()` is called from signal
  handlers in the middle of anything, also of `exit()`; a process it has forked is
  `pmanager` until `execvp()`; the FIFO is found by a name anybody may remove.
* **data structures** – arrays grow in time, removal leaves no dangling pointer,
  decoding returns what was encoded.

## Modules

| module | models |
|---|---|
| `Wire` | the strings and their encodings: `tokenize`, messages, nodes |
| `ProcList` | the tree as the list of nodes a walk meets, with its operations |
| `Kernel` | fork, exit, zombies, signals: the operating system as the code uses it (external) |
| `Messages` | `message.c`, a step per system call and per access to a flag |
| `Child` | `child.c` |
| `Commands` | the eight programs |
| `PManager` | `pmanager.c` and `handlers.c`, for the shell and for a copy of it that failed to `execvp()` |
| `CustomShell` | all of them interleaved, with Ctrl-C; `Init`, `Next`, fairness, the properties |
| `Turns` | whose turn it is: the invariants of the exchange, what breaks them (`Incident`), the mapping to `Mailboxes` |
| `Requests` | the requests to add a process: their invariants, the mapping to `ProcTable` |
| `Families` | who is whose child: what messages say of the processes, and when they say it |
| `Callers` | who waits for whom: `pmanager` for its command, whoever has asked for something for the answer |
| `Entries` | what the tree has to do with the processes: what messages say of it, who is missing and why |
| `TurnProofs`, `RefinementProofs`, `CallerProofs`, `EntryProofs` | the proofs about `CustomShell` and the five above |
| `MCShell` | scripts (what the user may type) and constants for TLC |
| `Mailboxes` | what `message.c` promises: a mailbox for each process |
| `ProcParameters`, `ProcTable` | the abstract registry: add a new process below a known one, remove a leaf |
| `ProcTableProofs` | its invariant proved |
| `WireProofs` | lemmas about the encodings and the list of nodes |
| `ProcTree`, `MCTree` | `proc_tree.c` with heap, pointers and arrays, refining `ProcTable` |
| `Tokenizer`, `MCTokenizer` | the loop of `tokenize()`, compared with `Wire` |
| `TokenizerProofs` | the loop and the encodings proved for strings of any length |
| `Lifecycle`, `MCLifecycle` | `main()` of `pmanager.c` and the FIFO, for several shells in one directory |
| `LifecycleProofs` | its invariants proved |

`Kernel`, `Messages`, `Child`, `Commands`, `PManager`, `CustomShell`, `Turns`, `Requests`,
`Families`, `Callers` and `Entries` extend one another in this order. Three refinements: the C data structure implements
`ProcTable` (`TableSpec`), and so does everything the running shell does to its
tree (`RegistrySpec`); one FIFO and one signal implement `Mailboxes`
(`MailboxSpec`), the box of a process being the texts in the FIFO written for it.
`Lifecycle` stands beside `CustomShell`: it opens up the start and the end of the
shell, which `CustomShell` takes as given, and folds all of `CustomShell` into its
point `"serve"`.

**State.** `pc[p]` is the point of its program a process has reached, `lib[p]` the
variables of `message.c` and the call of it that is open, `mem[p]` the variables of
its own program (one record for all programs, so that `fork` copies it), `sig[p]`
the pending signals, `parent[p]` the kernel's parent, `fifo` the texts, `linked`
whether the FIFO still has its name, `trees[p]` the registry of `pmanager` and of its
copies, `line` the lines read, `outside` the Ctrl-C pressed.
`mem[p].exiting` is set once `exit()` has taken `cleanup()` off its list,
`mem[p].masked` holds the signals whose handler has not returned. Two variables are
for the properties alone: `mem[p].overwrote` notes that a SIGTERM handler found the
flag already set, and the `to` of a text whom it was written for.

**Steps.** A step of a program runs from the return of one blocking or signalling
call to the start of the next, and is named for the function (`pnew`,
`child_clone`, `message_handler`) or for what it waits for (`AwaitRemoval`).
Calls into `message.c` run through points of their own, so another process
or a handler may come between writing a text and sending its signal, between
testing a flag and sleeping, and between reading a text and resetting the flags.
A handler runs between any two steps; a blocking call then ends. A text is read
atom by atom when another process is reading too or a signal is about to end the
reader; otherwise whole, since the `read()`s of a lone reader commute with
whatever the others do.

**Ctrl-C.** `UserSignals` says which are pressed, each once: `"interrupt"`, at any time
but while a process is between `fork()` and `execvp()`, and `"interrupt cleanup"`, when
the last `prmall` gets no further. A Ctrl-C reaches all processes of the
terminal at once; a process that has it pending takes no further step but the
`read()` it is in, and those that have no handler are dead before anyone looks at
them again. `terminate()` never returns, so its signal stays blocked, but not in
`sigsuspend()`, which `message_wait()` calls with an empty mask; `fork()` and
`execvp()` hand the mask on, so the last `prmall` may be deaf to Ctrl-C except while
it sleeps.

## What is checked

| run | bounds | properties |
|---|---|---|
| `every_command` | three lines, each any command, three names that clash, `fork()` may fail, and `execvp()` on the last line; 1 040 080 states | `TypeOK`, `SingleReader`, `ReadsItsMessage`, `QuietAtPrompt`, `InfoCurrent`, `NamesUnique`, `TreeAccurate`, `HangExplained`, `RegistrySpec`, `PrmallEndsAll` |
| `families` | four lines that build clones to the third generation and take them apart; 574 383 states | `Attendance`, `Service`, `KinInv`, `TreeMatchesKernel`, `VictimIsLeaf`, `ListFaithful`, `NobodyLeft`, `ZombiesMerged`, `MailboxSpec` |
| `progress` | two lines, fair scheduling; 8 457 states | `TurnInv`, `RequestInv`, `CommandReturns`, `Converges` |
| `odd_names` | two lines with names made of `;` and `:`, at a terminal; 375 438 states | `NamesStayClean`, `GivenNamesUnique`, `OutsidersOdd`, `QuietAtPrompt`, `HangExplained`, `NobodyLeft` |
| `interrupted` | one line, Ctrl-C then and Ctrl-C once more when `cleanup()` is stuck, fair scheduling; 62 262 states | `NobodyLeft`, `CleanupInterruptible` |
| `restarts` | three shells, in turn or at once, each may fail at every check or be killed at every point; 1 890 states | `OnlyUnlinkParts`, `FifoOwned`, `StaleFifoRemoved` |
| `tree` | four addresses and pids, two names, symmetric | `TypeOK`, `HeapSound`, `TableSpec` |
| `tokenizer` | every string of at most six atoms | `TokensRight`, `WithinArray`, `RoundTrips` |

*Bounds.* A script bounds the lines, and with it processes: a line needs a command,
a `pinfo` and a managed process at most, so `MaxPid` (two more than three per
line) is never what stops a run. The exception is a copy of `pmanager` that failed
to execute: its `prmall` takes the pids of a later line, which is why scripts have
`"path"` on their last line, or are there for this case. Pids are not reused. Three
lines are enough for a process to be made, changed and used again, four for a clone
of a clone that is then torn down by `prmall`. Four nodes make an array of children
grow twice; six atoms give three tokens or more, past the first size of the array.
Three shells are one that leaves a FIFO, one that is refused and one that starts; or one
that serves, one that unlinks its FIFO and one that makes another.
An interrupted run has one line because each place Ctrl-C can fall multiplies the
states. A Ctrl-C between `fork()` and `execvp()` makes two managers that both clean up
over one FIFO, which TLC does not get to the end of.

*What the runs show.* The signals keep the texts in the FIFO apart although the
code has no lock: every process gets the texts written for it, whole, in order and
once. The registry stays accurate under every interleaving. `prmall`
never signals a process that will refuse. Every hang has one of the causes named
in `Missed`: a wake-up lost between test and sleep (`message_wait`, `child_init`,
`exec_command`), a second SIGTERM forgotten by `set_sigterm_flag(0)`, a SIGTERM
before the handler is in place, a `fork()` failing in `child_clone()`, which then does
not answer `pspawn`, or a `:` in the name given to `pnew` or `pinfo`, with which
`message_read()` of `pmanager` cannot decode the request, so that nobody answers it
(`RequestDropped`; `pnew a:b` hangs, with no way out but Ctrl-C). The last two are out of the
reach of each other's runs: `every_command` has failing `fork()`s and clean names,
`odd_names` the opposite. `CommandReturns` and `Converges` hold outside these
windows. The `prmall` of `cleanup()` leaves no managed process
(`NobodyLeft`) but those that no tree lists. Where `fork()` may fail `PrmallEndsAll` says the
same of a `cleanup()` that has had its `prmall`, and no more can be said: when the `fork()` of
`cleanup()` itself fails, or a copy that could not execute has unlinked the FIFO, which the
last `prmall` then cannot open, every managed process outlives the shell. A shell that
Ctrl-C ends leaves none either, and a `cleanup()` stuck
after Ctrl-C, on a text or a flag the exchange has left, is always ended by another;
the FIFO is then left behind. A FIFO left costs one failed start, whose `cleanup()`
removes it. The same `unlink()` is what a shell that serves has to fear, and all it has to
fear, from the others started beside it (`OnlyUnlinkParts`).

Three weaknesses of the code show as exceptions that a property names: a process whose
name does not fit into a node is not added and refuses to be killed, although `pnew.c`
says it is (`OutsidersOdd`); two processes get one name when a `;` is dropped from
the end of the one typed (`GivenNamesUnique`); clones that end together leave a zombie,
although the handler of SIGCHLD is to remove any (`ZombiesMerged`).

Four runs expect a violation: a comment or `help.txt` claims what the code does not keep.

| run | instance | claim |
|---|---|---|
| `lost_wakeup` | two lines | `message_wait()` returns immediately if a message was received (`message.h`); not when SIGUSR1 is handled between test and sleep |
| `clone_refused` | `pnew` of a name ending in `;`, then `pspawn` | `message_wait()` waits for a message of the given process (`message.h`); the removal of the refused clone and the answer to `pspawn` are in the FIFO together, and whoever waits takes the first for its own |
| `exec_failed` | what `access()` finds and `execvp()` cannot run, such as `.` or `./pnew` | `parse_commands()` blocks until `quit`, end of file or an error (`pmanager.c`); the copy that could not execute runs `cleanup()`, and its `prmall` kills `pmanager` |
| `second_start` | three shells, in turn or at once | commands share one FIFO with the shell (`help.txt`); not once a second start, even one `mkfifo()` has refused, has unlinked it in its `cleanup()` |

*Deadlock* is not checked: the shell ends, and the abstract modules may stop.

*Fairness* (`progress`, `interrupted`): weak fairness for the steps and for the
handlers of each process. The kernel schedules every runnable process and delivers
every pending signal; weak fairness is enough, as a process that can step stays able
to until it does or a handler of its own runs. Nothing is assumed of the user, who may
never type another line nor press Ctrl-C. In `restarts` a running shell goes on; nobody
has to start or kill one.

## What is proved

Every theorem holds for all values of the constants: any script, any number of
processes, any words. The assumptions on them are named where they are declared:
the name of `pmanager` is clean (`NameAssumption`); `NULL` is no string, message or node
(`NullAssumption`, `NullRecordAssumption`); delimiters, numbers, padding and message types are
different atoms, and message types are told apart, as `message.h` and the text formats
have them (`AtomAssumption`); a script has pids enough (`ScriptAssumption`);
`UserSignalsAssumption`; the tokenizer's unset slot is no string and its strings have a
bound, of any size (`UnsetAssumption`, `MaxLenAssumption`); `pmanager` is a process of the
shell and its parent is not (`RootAssumption`); "no FIFO" is not a shell
(`LifecycleAssumption`).

| theorem | of | says |
|---|---|---|
| `TurnProofs!TypeCorrect`, `NamesClean` | `Spec` | `[]TypeOK`, `[]NamesStayClean` |
| `TurnProofs!TakesTurns`, `OneReader`, `ReadsNoEmptyFifo` | `CalmSpec` | `[]TurnInv`, `[]SingleReader`, a reader finds a text |
| `RefinementProofs!ReadsOwnText`, `ImplementsMailboxes` | `MailSpec` | `[]ReadsItsMessage`, `MailboxSpec` |
| `RefinementProofs!RequestsOnce`, `ImplementsRegistry` | `CalmSpec` | `[]RequestInv`, `RegistrySpec` |
| `RefinementProofs!TreeStays`, `NodesStayPut` | `CalmSpec` | `ProcTable`'s `[]IInv` and `NodesStay`, of `pmanager`'s tree |
| `RefinementProofs!FamiliesKept`, `KernelAgrees` | `MailSpec`, for a `PoliteScript` | `[]KinInv`, `[]TreeMatchesKernel` |
| `CallerProofs!AttendsToOne` | `CalmSpec` | `[]Attendance` |
| `CallerProofs!ServedWaits`, `PromptQuiet` | `MailSpec` | `[]Service`, `[]QuietAtPrompt` |
| `EntryProofs!EntriesRight`, `OutsidersKnown`, `GivenNamesDiffer` | `MailSpec`, for a `PoliteScript` | `[]EntryInv`, `[]OutsidersOdd`, `[]GivenNamesUnique` |
| `EntryProofs!NamesDiffer`, `InfoHolds`, `TreeIsAccurate` | `MailSpec`, for a `PoliteScript` and a `CleanScript` | `[]NamesUnique`, `[]InfoCurrent`, `[]TreeAccurate` |
| `ProcTableProofs!TreeInvariant`, `ParentsStay`, `NodesKeepTheirPlace` | `ProcTable!Spec` | `[]IInv`, `[]ParentsInTree`, `NodesStay` |
| `TokenizerProofs!LoopIsTokenize`, `StaysInArray`, `TextsReturn` | `Tokenizer!Spec` | `[]TokensRight`, `[]WithinArray`, `[]RoundTrips` |
| `LifecycleProofs!TypeCorrect`, `FifoIsOwned`, `UnlinkParts` | `Lifecycle!Spec` | `[]TypeOK`, `[]FifoOwned`, `[]OnlyUnlinkParts` |

**Types.** Types alone are not inductive: that `MessageOf` yields a message the
receiver can use depends on what is in the FIFO, and that a name in the tree has no
delimiter on what `tokenize()` has left of it. `TypeInv` says of each process which
memory its program point goes with, and of the manager's tree that its names are clean.
It holds of `Spec`, Ctrl-C and failed copies included.

**Turns.** The code has no lock around the FIFO. The argument that it needs none is one
of hand-over: who sends a text then waits, who ends wakes whoever waits for its end.
`OneTurn` says there is at most one *claim* at any moment: a SIGUSR1 or a SIGTERM pending, a flag a
handler has set, a command to be reaped, or a process with something to do. It is not
inductive without the points at which calls can be open (`CallsOpen`), who is the parent
of whom (`Relatives`), that only `pmanager` manages (`OneManager`) and that `pmanager` is there
to be told of removals (`ManagerReached`). `CalmInv` is `TypeInv` with all of these and
`TextThere`. Each step is then shown to use up the claim it rests on and to make at most
one; `SingleReader` follows, as a reader has the turn by its `unread_flag`.

Three steps break the rule, and the theorems are about the shell as long as none of them
has been taken (`CalmSpec`). Each is a real exception: Ctrl-C, which reaches all processes
at once (run `interrupted`); a clone that is refused gets its SIGTERM while `pspawn` is
resumed (run `clone_refused`, where two texts are in the FIFO at once); and a copy of
`pmanager` that could not execute runs `cleanup()` beside it (run `exec_failed`). All other
interleavings, failed `fork()`s and the hangs named by `HangExplained` are in `CalmSpec`.

**Texts.** `TextInv` ties the text to the turn: there is one at most, its addressee is the
process that its writer is about to notify, has notified, or that has its `unread_flag`
set, and `message_sender` is its first token. It needs one more exception, `TextLost`: a
text whose addressee has ended stays in the FIFO for the next reader. Only a `pinfo` that
is given the pid of a managed process, or a process killed with a text on its way,
gets there. `MailSpec` is `CalmSpec` up to that. Under it every step of the shell is a
`Send`, a `Receive`, a `Release` or a stutter of `Mailboxes`.

**Registry.** `msg_add_handler()` asks only whether the parent is there; that a pid is not
added twice depends on the senders. `RequestInv` says that who is to be added was forked,
is not in the tree, and is in one request: in the FIFO, or in the hands of a process that
is about to write it, has read it or handles it. It is kept because `fork()` gives a new pid
and only the parent makes the request; and because a turn that was handed on takes the
request with it. With it every change of the tree is a step of `ProcTable`, so that
`TreeInvariant` and `NodesKeepTheirPlace`, proved there, are theorems of the shell.

**Families.** `TreeMatchesKernel` says that a clone in the tree is a process that has not
exited, and that its parent in the tree is its parent in the kernel. A process exits
when it is told that it was removed, a clone is added when its parent asks for it, and
`MSG_SUCCESS` is the answer to anything, so whether this holds hangs on what the
messages on their way mean when they arrive. `KinInv` says it of each of them, wherever
it is: about to be written, in the FIFO, or read and not acted upon (`Parcels`).
Who waits for its removal has sent nothing but a `MSG_REMOVE`, and a `MSG_SUCCESS` that
`pmanager` sends it finds it out of the tree; who is to be added has not left the loop of
`child_init()`, and the process that cloned it waits for the answer (`SoundNode`).
With it: a process at `term_done` is out of the tree (`RemovedFirst`), it awaits the answer
of `pmanager` and of nobody else (`Addressed`, which needs that `message_sender` is in the
text itself, from `TextInv`), and `pmanager` sends lists to commands only, of nodes they can
decode (`ListSound`). Messages stay true because whoever does not have the turn stays
where it is, and whoever has it is the only one with a message on its way (`Alone`).
`PoliteScript` is the one condition on the user: `pinfo -m` with the pid of a managed process
and a name with delimiters sends that process what it fails to decode, and it ends without
having been removed, its node left behind. All scripts of `MCShell` are polite.

**Callers.** `QuietAtPrompt` says that nothing is left of a command when `pmanager` reads
the next line. The turn gives half of it: at the prompt `pmanager` itself has something to
do, so no text, signal or flag is on its way. That no managed process is in the middle of
a request takes another argument: a request is served for somebody, who waits, and whoever
waits is a command, and `pmanager` waits for its command. Neither half is inductive.
`Attendance` is the second: a program at work is the command `pmanager` waits for, or the
one `pinfo` that command has started (`OneHelper`), or is left behind, which is the fate of a
`pclose pmanager` alone; it needs that SIGTERM to `pmanager` comes from such a `pclose`
(`Dismissed`). `Service` is the first: whoever sent SIGTERM or `MSG_SPAWN` waits for this very
process as long as the signal is pending, the flag set or the request being served
(`Asked`); a `MSG_SPAWN` on its way has such a sender (`Ordered`); and a process that
serves writes to `pmanager` only (`Reports`), so that the one who waits is not resumed
before its answer. The text that resumes it is the only one, and its sender serves
nothing when it sends it, which is where `TextInv` comes in.

**Entries.** A name is asked for and added in two requests; a process is forked before it
is added; a pid is printed before it is used. Each time what was true of the tree when
`pmanager` answered must be true when the answer is acted upon. `EntryInv` says that it is:
a request says what its sender wants, a reply how the tree is (`PostRight`, of every
text on its way and of every message read and not yet used); a pid printed is that of its
name (`Current`); whoever has been forked has the name it is to be added under (`Named`);
and a managed process is in the tree, or is being added, or asks for its removal, or cannot
be in it (`Registered`), its name being such that the node in the message cannot be
decoded (`Unlistable`). It is kept because nobody else is at work in between: at most one
process asks `pmanager` for anything at a time, and a managed process that asks does so for a
command that waits, as `Attendance` and `Service` have it. So the tree changes only under
whoever has it changed: `TreeStep` says that a step adds the process its sender has forked,
under the name that was free, or removes the sender. A process keeps its name from `fork()`
on (`NameStep`), and this is where `CleanScript` comes in, the condition that no name typed
has a `;` or a `:` in it: then what is added is what was asked about, and a node is called what
its process is (`CleanProcs`, `NodesNamed`). `NamesUnique`, `InfoCurrent` and `TreeAccurate`
are false without it, which is what `odd_names` is about; `OutsidersOdd` and
`GivenNamesUnique` say what is left of them, and hold for any name.

**`ProcTable`.** `ParentsInTree` alone is not inductive: that a node added below `ppid` lies
in the right subtree needs `ppid` to name one node (`PidsUnique`), and that the root is
never removed needs its parent to be outside the tree (`RootFirst`). `IInv` adds
these. The proof first settles where a subtree ends (`SubtreeEnds`) and what
inserting and removing does to a sequence (`Inserted`, `Removed`); then adding
keeps each conjunct because the new node goes to the end of its parent's subtree,
so that every old run of deeper nodes is only stretched; removing keeps them
because a leaf has nothing below it, so that it is nobody's parent.

**Tokenizer.** `TokenInv`: the tokens found are those that start before the position
`strtok()` goes on from, and the array holds them in order. At the end that position is
past the last token, which is what `Wire` calls the tokens of the string. The round
trips follow from lemmas on where tokens start in a concatenation (`WireProofs`).

**Lifecycle.** `FifoOwned` is inductive with `TypeOK`: every way out of `main()` but a kill goes
through `unlink()`. `CommandsReachShell`, which `help.txt` claims, is false: the `unlink()` of
any other shell takes the name away (run `second_start`). `OnlyUnlinkParts` says that this is
the one cause: the commands of a serving shell reach it if and only if no other has run its
`unlink()` since `mkfifo()`, which the variable `bereft` notes. It is not inductive: that the
name is still the shell's when it serves needs that it was so since `mkfifo()` (`Held`),
which is because `mkfifo()` of another succeeds only on a free name; that it never comes back
needs that no shell calls `mkfifo()` twice (`Gone`). With `TypeOK` they are `IInv`.

**Only model-checked.** Liveness (`CommandReturns`, `Converges`, `CleanupInterruptible`,
`StaleFifoRemoved`), which is out of the prover's reach. `ProcTree` (`HeapSound`,
`TableSpec`): its walks of the heap are recursive, and what they compute
needs induction over data. What `prmall` and `ptree` have been
sent of the tree, `VictimIsLeaf` and `ListFaithful`. How things end: `HangExplained`,
`NobodyLeft`, `PrmallEndsAll`, `ZombiesMerged`. What the incidents lead to. Conversely the
invariants of `ProcTable` have no run of their own: they are proved, for any pids and names.

## Abstractions and limits

* Words of a name are opaque; delimiters are exact; a number in a text is one atom, so
  that a torn text loses or keeps it whole. Replies' error texts are one value. Memory
  exhaustion and the printing are left out. The failing `sigaction()`, `setenv()`,
  `mkfifo()` and `open()` of `main()` are in `Lifecycle`; a command that fails to open the
  FIFO ends (`linked`).
* `ProcTree` has the lookup by pid, on which adding and removing rest; the lookup by name, the
  same walk, is in `ProcList` as the first node of the list with that name.
* `write()` to the FIFO never fails: it would with `O_NONBLOCK` on a full pipe, 64 KB, and
  `message_send()` then skips `kill()`. There is one text in the FIFO at most (`TextInv`),
  two or three after one of the incidents, and names are taken to be shorter than that.
* A process without a sender in its text (a torn one) is answered at pid 0, where `kill`
  addresses the whole group; the model drops such a signal. The Ctrl-C that tears a text
  has by then killed all but the managers.
* `popen()` of `pinfo` is one process; a shell in between that execs it changes
  nothing. A process killed before it has a handler is taken as reaped. A failed copy's
  `fclose()` of a seekable input, which moves the offset it shares with `pmanager`, is
  left out: `pmanager` has been sent SIGTERM by then.
* `exit()` inside `exit()` goes on with the handlers that are left, as the GNU C library
  does. The uninitialised `sa_mask` of `child.c` could block a signal only while a handler
  that sets a flag runs, which delays it by less than a step.
* `pclose` and `pspawn` are given clean names. Of the options only `-m` of `pinfo` is
  there; help and wrong arguments end a command at once (`PrintsHelp`).
* Not modelled: reuse of pids; managed processes that outlive a SIGKILLed shell and
  write to the FIFO of the next; a `kill` of `pmanager` or of a managed process from outside
  the shell (SIGTERM to `pmanager` comes from `pclose pmanager` and from the `prmall` of a
  copy): two requests may then share one SIGUSR1, and a process `pnew` is about to fork is
  in no tree when `prmall` asks; `phelp`'s listing; `phelp` executed by a `pmanager` with too many arguments, which talks to nobody;
  `Makefile`, `test.sh` and `help.txt`, which are not part of the running program.

## Plan

1. Proofs: `VictimIsLeaf` and `ListFaithful` from what `prmall` has been sent, with `EntryInv`
   to freeze the tree while it is listed; `NobodyLeft` from them; `TypeOK` of `ProcTree`.
2. Ctrl-C on longer scripts, once the pairs of managers it makes have a smaller model.
3. Liveness with each window of `Missed` closed, to show that they are the only causes.
4. Managed processes that survive a killed shell, in `Lifecycle`.
