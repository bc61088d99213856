----------------------------- MODULE Lifecycle -----------------------------
(***************************************************************************)
(* main() of pmanager.c and what becomes of the FIFO: shells started in    *)
(* the same directory, one after the other or while another one runs.  A   *)
(* shell creates the FIFO, opens it by its name, and so does every command *)
(* it executes; whichever way it leaves main(), the cleanup() it           *)
(* registered first removes the name, unless the process is killed.        *)
(*                                                                         *)
(* A FIFO is known by the shell that created it.  What a shell does while  *)
(* it serves, a copy of it that unlinks the FIFO because it could not      *)
(* execute included, is in module CustomShell.                             *)
(***************************************************************************)
CONSTANTS
  Shell,         \* the shells that are ever started
  NoFifo         \* no FIFO

ASSUME LifecycleAssumption == NoFifo \notin Shell

VARIABLES
  point,     \* where each shell stands in main() or cleanup()
  fifo_fd,   \* the FIFO each shell has opened
  name,      \* the FIFO the name FIFO_NAME stands for
  bereft     \* for the properties: who held the FIFO when another shell unlinked it

vars == <<point, fifo_fd, name, bereft>>

Running == {"args", "mkfifo", "open", "setup", "serve", "prmall", "unlink"}
Points  == Running \union {"idle", "ended", "killed"}

\* Past its mkfifo() and not yet at its unlink().
Holding == {"open", "setup", "serve", "prmall"}

Init ==
  /\ point = [s \in Shell |-> "idle"]
  /\ fifo_fd = [s \in Shell |-> NoFifo]
  /\ name = NoFifo
  /\ bereft = {}

Goto(s, next) == point' = [point EXCEPT ![s] = next]

\* Mutant: an error ends the shell without cleanup().
Fail_at_once(s) == Goto(s, "ended") /\ UNCHANGED <<fifo_fd, name, bereft>>

\* exit() without a process tree: cleanup() has nobody to kill.
Fail(s) == Goto(s, "unlink") /\ UNCHANGED <<fifo_fd, name, bereft>>

-----------------------------------------------------------------------------
Start(s) ==
  /\ point[s] = "idle"
  /\ Goto(s, "args")
  /\ UNCHANGED <<fifo_fd, name, bereft>>

\* The environment and the arguments; the file to read may be missing.
CheckArguments(s) ==
  /\ point[s] = "args"
  /\ \/ Goto(s, "mkfifo") /\ UNCHANGED <<fifo_fd, name, bereft>>
     \/ Fail(s)

\* Mutant: a FIFO that is already there will do.
MakeFifo_reused(s) ==
  /\ point[s] = "mkfifo"
  /\ Goto(s, "open")
  /\ name' = IF name = NoFifo THEN s ELSE name
  /\ UNCHANGED <<fifo_fd, bereft>>

\* mkfifo() fails when the name is taken.
MakeFifo(s) ==
  /\ point[s] = "mkfifo"
  /\ IF name = NoFifo
     THEN Goto(s, "open") /\ name' = s /\ UNCHANGED <<fifo_fd, bereft>>
     ELSE Fail(s)

\* open() may fail whether or not the name is still there.
OpenFifo(s) ==
  /\ point[s] = "open"
  /\ \/ /\ name # NoFifo
        /\ Goto(s, "setup")
        /\ fifo_fd' = [fifo_fd EXCEPT ![s] = name]
        /\ UNCHANGED <<name, bereft>>
     \/ Fail(s)

\* The handlers and the process tree.
SetUp(s) ==
  /\ point[s] = "setup"
  /\ \/ Goto(s, "serve") /\ UNCHANGED <<fifo_fd, name, bereft>>
     \/ Fail(s)

\* parse_commands() has returned, or a signal has come: cleanup() starts with
\* prmall, a command like any other.
Quit(s) ==
  /\ point[s] = "serve"
  /\ Goto(s, "prmall")
  /\ UNCHANGED <<fifo_fd, name, bereft>>

PrmallEnded(s) ==
  /\ point[s] = "prmall"
  /\ Goto(s, "unlink")
  /\ UNCHANGED <<fifo_fd, name, bereft>>

\* Mutant: only the creator removes the name.
Unlink_own(s) ==
  /\ point[s] = "unlink"
  /\ Goto(s, "ended")
  /\ fifo_fd' = [fifo_fd EXCEPT ![s] = NoFifo]
  /\ name' = IF name = s THEN NoFifo ELSE name
  /\ UNCHANGED bereft

\* The end of cleanup(): unlink(), whoever created the FIFO.
Unlink(s) ==
  /\ point[s] = "unlink"
  /\ Goto(s, "ended")
  /\ fifo_fd' = [fifo_fd EXCEPT ![s] = NoFifo]
  /\ name' = NoFifo
  /\ bereft' = bereft \union {t \in Shell \ {s} : point[t] \in Holding}

\* SIGKILL; SIGTERM or SIGINT before their handler is registered, or once
\* exit() has been called: cleanup() does not run to its end.
Killed(s) ==
  /\ point[s] \in Running
  /\ Goto(s, "killed")
  /\ fifo_fd' = [fifo_fd EXCEPT ![s] = NoFifo]
  /\ UNCHANGED <<name, bereft>>

Step(s) ==
  \/ CheckArguments(s)
  \/ MakeFifo(s)
  \/ OpenFifo(s)
  \/ SetUp(s)
  \/ Quit(s)
  \/ PrmallEnded(s)
  \/ Unlink(s)

Next == \E s \in Shell : Start(s) \/ Step(s) \/ Killed(s)

Spec == Init /\ [][Next]_vars

\* A running shell goes on; nobody has to start or to kill one.
FairSpec == Spec /\ \A s \in Shell : WF_vars(Step(s))

-----------------------------------------------------------------------------
\* Every variable holds what main() can put there.
TypeOK ==
  /\ point \in [Shell -> Points]
  /\ fifo_fd \in [Shell -> Shell \union {NoFifo}]
  /\ name \in Shell \union {NoFifo}
  /\ bereft \subseteq Shell

\* The commands of s open the FIFO s reads: the name stands for the FIFO it has
\* opened, which is the one it created.
Reachable(s) == fifo_fd[s] = s /\ name = s

\* help.txt: "IPC communication is accomplished using a single shared FIFO".  A
\* shell shares its FIFO with its commands from its first line to the prmall of
\* its cleanup().  The code does not see to it: cleanup() of a second shell, even
\* of one that mkfifo() has refused, unlinks the FIFO of the first.
CommandsReachShell == \A s \in Shell : point[s] \in {"serve", "prmall"} => Reachable(s)

\* That is the one way a serving shell gets out of the reach of its commands, and
\* it is final: not a FIFO it has found or left, nor a start that is killed or
\* fails, before it or at the same time, parts them as long as no other shell
\* unlinks the name between its mkfifo() and its own unlink().
OnlyUnlinkParts ==
  \A s \in Shell :
    point[s] \in {"serve", "prmall"} => (Reachable(s) <=> s \notin bereft)

\* A FIFO left in the directory belongs to a shell that still runs or was
\* killed: no shell that ran cleanup() to its end has left one.
FifoOwned == name # NoFifo => point[name] \in Running \union {"killed"}

\* A start that finds the name taken, by the FIFO of a killed shell say, frees it
\* unless it is killed itself: a FIFO nobody serves stops one start, not every one.
StaleFifoRemoved ==
  \A s \in Shell :
    (point[s] = "mkfifo" /\ name # NoFifo) ~> (point[s] = "killed" \/ name = NoFifo)
=============================================================================
