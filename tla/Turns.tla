------------------------------- MODULE Turns -------------------------------
(***************************************************************************)
(* Whose turn it is.  There is no lock around the FIFO; what keeps the     *)
(* programs out of each other's way is that a process which has called     *)
(* another one waits for it, so that at any moment one process at most has *)
(* something to do.  Its turn is a signal on its way, a flag a handler has *)
(* left, a command to be reaped, or the next step of its program.          *)
(***************************************************************************)
EXTENDS CustomShell

\* The ways to have the turn.
Claims == {"usr1", "unread", "term", "sigterm", "reap", "busy"}

\* In child_terminate() the flag stands for the request being served.
Terminating == {"term_sent", "term_reply", "term_failed", "term_done"}

\* The points at which the return of message_wait() or message_read() is awaited.
Receiving ==
  {"pnew_reply", "pnew_added", "exit", "list_item", "rm_next", "info_reply", "handle", "list_ack",
   "got", "term_reply", "clone_reply", "clone_added"}

\* The points at which the return of message_send() is awaited, and acted upon
\* when it failed.
Sending ==
  {"pnew_asked", "pnew_sent", "list_asked", "info_asked", "spawn_sent", "term_sent", "clone_asked",
   "clone_sent"}

\* The points that message_send() leaves for another wait.
Answering == {"loop", "term_failed", "term_done", "towait", "list_sent"}

\* A process at `point', with memories l and m, goes on without being called.
BusyAt(point, l, m) ==
  \/ l.at \in {"write", "kill"}
  \/ /\ l.at = "ret"
     /\ \/ point \in Receiving \union {"start", "exec", "readline", "cleanup"}
        \/ point \in Sending /\ l.status # 0
        \/ point = "popen" /\ m.peer # Pending

Busy(p) == BusyAt(pc[p], lib[p], mem[p])

HasTurn(p, claim) ==
  CASE claim = "usr1"    -> sig[p].usr1 # NoPid
    [] claim = "unread"  -> lib[p].unread_flag
    [] claim = "term"    -> sig[p].term # NoPid
    [] claim = "sigterm" -> mem[p].sigterm_flag = 1 /\ pc[p] \notin Terminating
    [] claim = "reap"    -> p = PM /\ mem[p].kid # NoPid /\ pc[mem[p].kid] = "zombie"
    [] OTHER             -> Busy(p)

OneTurn ==
  \A p \in Pid, c \in Claims :
    HasTurn(p, c) => \A q \in Pid, d \in Claims : HasTurn(q, d) => p = q /\ c = d

\* Nobody is called when the shell has ended.
TurnWithShell == \A p \in Pid, c \in Claims : HasTurn(p, c) => pc[PM] # "dead"

-----------------------------------------------------------------------------
\* The points at which a call of message.c can be open.
OpenAt(point, l) ==
  /\ l.at \in {"write", "kill"} => point \in Sending \union Answering
  /\ l.at \in {"check", "suspend", "asleep"} => point \in Receiving
  /\ l.at \in {"read", "reset"} => point \in Receiving /\ l.unread_flag

CallsOpen ==
  \A p \in Pid :
    /\ OpenAt(pc[p], lib[p])
    /\ pc[p] \in Gone => lib[p] = BlankLib /\ sig[p] = NoSignals /\ mem[p].sigterm_flag = 0

\* pmanager can be told of a removal and of a clone.
Reaches(point, l) ==
  point \in {"term_sent", "clone_sent"} =>
    /\ l.at \in {"write", "kill"} => l.pid = PM
    /\ l.at = "ret" => l.status = 0

ManagerReached == \A p \in Pid : Reaches(pc[p], lib[p])

\* There is one manager, which has a command while it serves messages, and the
\* processes that have not been forked have no relatives.
Managing == ManagerPoints \ {"exec"}

OneManager ==
  /\ pc[PM] \in Managing \union {"dead"}
  /\ pc[PM] \in Managing \ {"readline", "cleanup"} => mem[PM].kid # NoPid
  /\ \A p \in Pid \ {PM} : pc[p] \notin Managing
  /\ nextPid > PM
  /\ \A p \in Pid : p >= nextPid => pc[p] = "unborn"
  /\ \A p \in Pid : parent[p] < nextPid
  /\ parent[PM] = InitPid

\* Who may be told of the end of whom: the command of pmanager is not one of the
\* managed processes, and popen() has the pinfo it has started as its only child.
Relatives ==
  /\ mem[PM].kid # NoPid =>
       /\ parent[mem[PM].kid] = PM
       /\ pc[mem[PM].kid] \notin ChildPoints \union {"boot", "unborn"}
  /\ \A p, q \in Pid : parent[p] = q =>
       /\ pc[q] \notin {"exec", "start", "unborn"}
       /\ pc[q] = "popen" =>
            pc[p] \in {"start", "info_asked", "info_reply", "exit"} \union Gone
       /\ pc[q] = "popen" /\ pc[p] = "start" => mem[p].prog = "pinfo"

\* Nobody has pressed Ctrl-C.
NoInterrupt == \A p \in Pid : ~sig[p].int

\* p has written a text, is being told of one, or has been told of one.
Announcing(p) ==
  \/ lib[p].at = "kill"
  \/ sig[p].usr1 # NoPid
  \/ lib[p].unread_flag /\ lib[p].at # "reset"

\* Whoever has been told of a text finds one.
TextThere == \A p \in Pid : Announcing(p) => fifo # <<>>

TurnInv ==
  /\ OneTurn
  /\ TurnWithShell
  /\ CallsOpen
  /\ ManagerReached
  /\ OneManager
  /\ Relatives
  /\ NoInterrupt
  /\ TextThere

-----------------------------------------------------------------------------
(***************************************************************************)
(* Three things break the rule of the one turn, and each of them alone     *)
(* does; runs interrupted, clone_refused and exec_failed are about them.   *)
(***************************************************************************)
\* A clone gets SIGTERM, and pspawn is resumed in the same breath.
CloneRefused(p) == Ready(p, "clone_added") /\ KillClone(p)

\* A copy of pmanager whose execvp() failed runs cleanup() beside pmanager.
CopyCleansUp(p) == Ready(p, "exec") /\ pc'[p] = "cleanup"

\* Ctrl-C reaches all processes at once.
Incident == UserSignal \/ \E p \in Pid : CloneRefused(p) \/ CopyCleansUp(p)

\* The shell as long as none of them has happened.
CalmSpec == Init /\ [][Next /\ ~Incident]_vars

-----------------------------------------------------------------------------
(***************************************************************************)
(* The one text on its way belongs to whoever has the turn.                *)
(***************************************************************************)
\* The first field of the text is the pid of s.
Signed(text, s) == Len(text) > 1 /\ text[1] = s /\ text[2] = Colon

\* The only text in the FIFO was written by s, for p.
Holds(p, s) == Len(fifo) = 1 /\ fifo[1].to = p /\ Signed(fifo[1].text, s)

\* What p writes starts with its pid; what it announces, or is told of, is what
\* the FIFO holds; and it starts to read with a blank text.
TextAt(p) ==
  /\ lib[p].at = "write" => Signed(lib[p].text, p)
  /\ lib[p].at = "kill" => Holds(lib[p].pid, p)
  /\ sig[p].usr1 # NoPid => Holds(p, sig[p].usr1)
  /\ lib[p].unread_flag /\ lib[p].at # "reset" => Holds(p, lib[p].message_sender)
  /\ lib[p].at \in {"check", "suspend", "asleep", "read"} => lib[p].text = <<>>
  /\ lib[p].at = "read" => lib[p].pid \in {NoPid, lib[p].message_sender}

TextInv ==
  /\ \A p \in Pid : TextAt(p)
  /\ fifo # <<>> => \E p \in Pid : Announcing(p)

\* A text loses its addressee, which has ended before it is told of it, or ends
\* before it reads it: pinfo was given the pid of a managed process, which does
\* not know what to do with a list or a node, or may be about to exit.
TextLost(p) ==
  \/ NotifyReceiver(p) /\ ~(Exists(lib[p].pid) /\ Alive(lib[p].pid))
  \/ Alive(p) /\ pc'[p] \in Gone /\ (sig[p].usr1 # NoPid \/ lib[p].unread_flag)

MailSpec == Init /\ [][Next /\ ~Incident /\ \A p \in Pid : ~TextLost(p)]_vars

-----------------------------------------------------------------------------
(***************************************************************************)
(* One FIFO and one signal serve as a mailbox for each process: the texts  *)
(* of `letters' that were written for q, and the one q has read.           *)
(***************************************************************************)
Box(letters, q) ==
  LET mine == {i \in 1..Len(letters) : letters[i].to = q}
  IN  [k \in 1..Cardinality(mine) |-> letters[Nth(mine, k)].text]

Got(q) == IF lib[q].at = "reset" THEN lib[q].text ELSE NULL

Mail ==
  INSTANCE Mailboxes WITH
    Process <- Pid, Nothing <- NULL,
    box <- [q \in Pid |-> Box(fifo, q)],
    got <- [q \in Pid |-> Got(q)]

\* message.c implements module Mailboxes: what is read is always the oldest text
\* written for the reader, whole and once.
MailboxSpec == Mail!Spec
=============================================================================
