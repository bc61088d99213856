------------------------------ MODULE Callers ------------------------------
(***************************************************************************)
(* Who waits for whom.  pmanager waits for the command it has forked and   *)
(* for nobody else, a pclose or a pspawn waits for its pinfo, and whoever  *)
(* has asked a managed process for something waits for its answer: that is *)
(* what ends all that a command has set in motion before pmanager reads    *)
(* the next line.                                                          *)
(***************************************************************************)
EXTENDS Families

\* The points of a program pmanager has executed, or of its copy of pmanager.
Working == (CommandPoints \ {"boot"}) \union {"exec"}

Waiting(p) == lib[p].at \in {"check", "suspend", "asleep"}

\* The command pmanager waits for.
Command == mem[PM].kid

\* A pclose of pmanager, which has ended it and still waits for its answer, or a
\* command about to exit.
LeftBehind(p) == pc[p] = "exit" /\ (lib[p].at = "ret" \/ lib[p].pid = PM)

\* The pinfo a pclose or a pspawn waits for.
Helper(p) ==
  /\ Command # NoPid /\ parent[p] = Command
  /\ pc[Command] = "popen" /\ mem[Command].peer = Pending

Attended(p) == pc[p] \in Working => p = Command \/ Helper(p) \/ LeftBehind(p)

OneHelper ==
  \A p, q \in Pid : pc[p] \in Working /\ pc[q] \in Working /\ Helper(p) /\ Helper(q) => p = q

\* Only a pclose, which then waits for it, sends SIGTERM to pmanager.
Dismissed == sig[PM].term # NoPid => \A p \in Pid : pc[p] \in Working => LeftBehind(p)

NoCommand ==
  /\ pc[PM] \in {"readline", "cleanup", "dead"} => Command = NoPid
  /\ \A p \in Pid : mem[p].kid # PM

\* A program at work is the command pmanager waits for, or its pinfo, or has no
\* more to say to anyone: exec_command() returns to the prompt when waitpid() has
\* its command, and looks at no other process.
Attendance == (\A p \in Pid : Attended(p)) /\ OneHelper /\ Dismissed /\ NoCommand

-----------------------------------------------------------------------------
\* The points at which a MSG_SPAWN is being served, and those at which a process
\* serves any request.
CloneWork == {"clone_asked", "clone_reply"} \union Cloning
Engaged == Leaving \union CloneWork

\* c waits for p, which it has sent SIGTERM; or MSG_SPAWN.
TermClient(c, p) == c \in Pid /\ pc[c] \in {"exit", "rm_next"} /\ Waiting(c) /\ lib[c].pid = p

SpawnClient(c, p) ==
  \/ TermClient(c, p)
  \/ /\ c \in Pid /\ pc[c] = "spawn_sent" /\ mem[c].peer = p
     /\ lib[c].at = "ret" => lib[c].status = 0

\* Whoever made p serve a request waits for it.
Asked(p) ==
  /\ sig[p].term # NoPid => TermClient(sig[p].term, p)
  /\ mem[p].sigterm_flag = 1 /\ pc[p] \notin Terminating => TermClient(mem[p].sigterm_sender, p)
  /\ pc[p] \in Leaving => TermClient(mem[p].sigterm_sender, p)
  /\ pc[p] \in CloneWork => SpawnClient(mem[p].peer, p)

\* c is told of a text of p.
Told(c, p) ==
  \/ sig[c].usr1 = p
  \/ lib[c].unread_flag /\ lib[c].at # "reset" /\ lib[c].message_sender = p

\* What a process writes while it serves a request is for pmanager.
Reports(p) ==
  pc[p] \in Engaged =>
    /\ lib[p].at \in {"write", "kill"} => lib[p].pid = PM
    /\ \A c \in Pid \ {PM} : ~Told(c, p)

\* A MSG_SPAWN comes from one who waits for the answer.
Ordered(parcel) ==
  parcel.msg # NULL =>
    (parcel.msg.type = MSG_SPAWN /\ parcel.to \in Pid /\ pc[parcel.to] \in Family =>
       SpawnClient(parcel.msg.sender, parcel.to))

\* child_init() does not wait for the message it has been told of.
JustRead(p) == pc[p] = "got" => ~Waiting(p)

\* A managed process that serves a request is waited for until it answers: pclose,
\* prmall, pspawn and a failed pnew end only with its message, which it sends after
\* all it does.
Service ==
  /\ \A p \in Pid : Asked(p)
  /\ \A p \in Pid : Reports(p)
  /\ \A parcel \in Parcels : Ordered(parcel)
  /\ \A p \in Pid : JustRead(p)
=============================================================================
