---------------------------- MODULE CallerProofs ----------------------------
(***************************************************************************)
(* Who waits for whom, for every script and every number of processes.     *)
(*                                                                         *)
(* The first part: pmanager attends to one command, until an incident.     *)
(* Only pmanager forks commands, and goes back to its prompt when it has   *)
(* reaped the one it has forked; a command's only child is its pinfo.      *)
(*                                                                         *)
(* The second part: whoever made a managed process do something waits for  *)
(* it, as long as no text has lost its addressee either.  ServiceStays     *)
(* says what is to be shown of a step: who waits goes on waiting           *)
(* (ClientsStay), and each process serves what it served before (Unasked), *)
(* and tells nobody else of it (Discreet), or is asked by one who waits.   *)
(* There is a lemma for each kind of step (GotoServes, ForkServes,         *)
(* ExitServes, CallServes, HandlerServes), and one for each action.        *)
(*                                                                         *)
(* The third part: when pmanager is at its prompt, nobody waits for        *)
(* anything, so that nothing is being served.                              *)
(***************************************************************************)
EXTENDS Callers, RefinementProofs

-----------------------------------------------------------------------------
(***************************************************************************)
(* One command.                                                            *)
(***************************************************************************)
\* The command waits for its pinfo.
Listening(x) == pc[x] = "popen" /\ mem[x].peer = Pending

LEMMA CommandIsPid ==
  ASSUME TypeInv
  PROVE  Command \in Pid \union {NoPid} /\ NoPid \notin Pid
  BY Shape, PidFacts DEF Command, SoundMem, MemType, NoPid, Pid

LEMMA Attends ==
  ASSUME TypeInv, Attendance, mem'[PM].kid = mem[PM].kid,
         \A x \in Pid : pc'[x] \in Working =>
           pc[x] \in Working /\ parent'[x] = parent[x] /\ (LeftBehind(x) => LeftBehind(x)'),
         \A x \in Pid : Listening(x)' => Listening(x),
         \A x, y \in Pid : Listening(x) /\ ~Listening(x)' => ~(pc'[y] \in Working /\ parent[y] = x),
         sig'[PM].term # NoPid => sig[PM].term # NoPid,
         NoCommand'
  PROVE  Attendance'
<1>1. Command' = Command /\ Command \in Pid \union {NoPid} /\ NoPid \notin Pid
  BY CommandIsPid DEF Command
<1>2. ASSUME NEW x \in Pid, pc'[x] \in Working, Helper(x)
      PROVE  Helper(x)'
  <2>1. PICK c \in Pid : c = Command
    BY <1>1, <1>2 DEF Helper
  <2>2. Listening(c) /\ parent[x] = c /\ parent'[x] = c
    BY <1>2, <2>1 DEF Helper, Listening
  <2>3. Listening(c)'
    BY <1>2, <2>2
  <2> QED
    BY <1>1, <2>1, <2>2, <2>3 DEF Helper, Listening
<1>3. ASSUME NEW x \in Pid, pc'[x] \in Working, Helper(x)'
      PROVE  Helper(x)
  <2>1. PICK c \in Pid : c = Command /\ c = Command'
    BY <1>1, <1>3 DEF Helper
  <2>2. Listening(c)' /\ parent'[x] = c
    BY <1>3, <2>1 DEF Helper, Listening
  <2> QED
    BY <1>1, <1>3, <2>1, <2>2 DEF Helper, Listening
<1>4. ASSUME NEW x \in Pid PROVE Attended(x)'
  BY <1>1, <1>2 DEF Attended, Attendance
<1>5. OneHelper'
  BY <1>3 DEF OneHelper, Attendance
<1>6. Dismissed'
  BY DEF Dismissed, Attendance
<1> QED
  BY <1>4, <1>5, <1>6 DEF Attendance

\* What a step of p leads to, and the memory it leaves p with.
Follows(p, point, m) ==
  /\ point \in Working => pc[p] \in Working
  /\ point = "popen" \/ Listening(p) => point = pc[p] /\ m.peer = mem[p].peer
  /\ m.kid # PM
  /\ p = PM => m.kid = mem[PM].kid /\ (point \in {"readline", "cleanup", "dead"} => m.kid = NoPid)

LEMMA GotoAttends ==
  ASSUME TypeInv, Attendance, NEW p \in Pid, NEW point, NEW l, NEW m,
         Goto(p, point, l, m), Follows(p, point, m),
         pc[p] = "exit" /\ point \in Working =>
           point = "exit" /\ (LeftBehind(p) => l.at = "ret" \/ l.pid = PM),
         sig'[PM].term # NoPid => sig[PM].term # NoPid, parent' = parent
  PROVE  Attendance'
<1>1. /\ pc \in [Pid -> Points] /\ lib \in [Pid -> SoundLib] /\ mem \in [Pid -> SoundMem]
      /\ PM \in Pid
  BY Shape
<1>2. /\ pc'[p] = point /\ lib'[p] = l /\ mem'[p] = m
      /\ \A x \in Pid \ {p} : pc'[x] = pc[x] /\ lib'[x] = lib[x] /\ mem'[x] = mem[x]
  BY <1>1 DEF Goto
<1>3. mem'[PM].kid = mem[PM].kid
  BY <1>1, <1>2 DEF Follows
<1>4. ASSUME NEW x \in Pid, pc'[x] \in Working
      PROVE  pc[x] \in Working /\ (LeftBehind(x) => LeftBehind(x)')
  BY <1>2, <1>4 DEF Follows, LeftBehind
<1>5. ASSUME NEW x \in Pid PROVE Listening(x)' <=> Listening(x)
  BY <1>2 DEF Follows, Listening
<1>6. NoCommand'
  BY <1>1, <1>2 DEF Follows, NoCommand, Attendance, Command
<1> QED
  BY <1>3, <1>4, <1>5, <1>6, Attends

\* A process ends that is not pmanager, and that waits for no pinfo.
LEMMA ExitAttends ==
  ASSUME CalmInv, Attendance, NEW p \in Pid \ {PM}, pc[p] \notin Gone, ~Listening(p),
         NEW output, ExitPrinting(p, output)
  PROVE  Attendance'
<1> USE DEF CalmInv
<1>1. /\ pc \in [Pid -> Points] /\ lib \in [Pid -> SoundLib] /\ mem \in [Pid -> SoundMem]
      /\ parent \in [Pid -> Pid \union {InitPid}] /\ PM \in Pid /\ PM # InitPid
  BY Shape, PidFacts DEF InitPid, Pid
<1> Ended(p, output)
  BY ExitFacts
<1>2. pc'[p] \notin Working /\ mem'[p] = BlankMem /\ pc[PM] # "popen"
  <2>1. pc[PM] # "popen"
    BY <1>1, Manager DEF Managing, ManagerPoints
  <2> QED
    BY <2>1 DEF Ended, Working, CommandPoints
<1>3. mem'[PM] = mem[PM] /\ pc'[PM] = pc[PM]
  <2>1. pc[PM] # "zombie"
    BY <1>1, Manager DEF Managing, ManagerPoints
  <2> QED
    BY <1>1, <1>2, <2>1 DEF Ended
<1>4. ASSUME NEW x \in Pid, pc'[x] \in Working
      PROVE  /\ x # p /\ pc[x] \in Working /\ pc'[x] = pc[x]
             /\ LeftBehind(x) => LeftBehind(x)'
  <2>1. x # p /\ pc'[x] = pc[x] /\ lib'[x] = lib[x]
    BY <1>2, <1>4 DEF Ended, Working, CommandPoints
  <2> QED
    BY <1>4, <2>1 DEF LeftBehind
<1>5. \A x \in Pid : mem'[x].kid # PM
  <2>1. BlankMem.kid # PM
    BY DEF BlankMem, PM, NoPid
  <2>2. ASSUME NEW x \in Pid \ {p} PROVE mem'[x].kid = mem[x].kid
    <3>1. mem[x] \in MemType
      BY <1>1 DEF SoundMem
    <3>2. mem'[x] = mem[x] \/ mem'[x] = [mem[x] EXCEPT !.peer = output]
      BY DEF Ended
    <3> QED
      BY <3>1, <3>2 DEF MemType
  <2> QED
    BY <1>2, <2>1, <2>2 DEF Attendance, NoCommand
<1>6. NoCommand'
  BY <1>3, <1>5 DEF NoCommand, Attendance, Command
<1>7. Command' = Command /\ Command \in Pid \union {NoPid} /\ NoPid \notin Pid
  BY <1>3, CommandIsPid DEF Command
<1>8. ASSUME NEW x \in Pid, pc'[x] \in Working, ~LeftBehind(x), x # Command
      PROVE  /\ Helper(x) /\ Helper(x)'
  <2>1. pc[x] \in Working /\ x # p
    BY <1>4, <1>8
  <2>2. Helper(x)
    BY <1>8, <2>1 DEF Attendance, Attended
  <2>3. PICK c \in Pid : c = Command
    BY <1>7, <2>2 DEF Helper
  <2>4. Listening(c) /\ parent[x] = c
    BY <2>2, <2>3 DEF Helper, Listening
  <2>5. c # p
    BY <2>4
  <2>6. parent[p] # c
    <3>1. SUFFICES ASSUME parent[p] = c PROVE FALSE
      OBVIOUS
    <3>2. pc[p] \in {"start", "info_asked", "info_reply", "exit"}
      BY <2>4, <3>1 DEF Order, Discipline, Relatives, Listening
    <3>3. Helper(p) /\ pc[p] \in Working
      BY <1>7, <2>3, <2>4, <3>1, <3>2 DEF Helper, Listening, Working, CommandPoints
    <3> QED
      BY <2>1, <2>2, <3>3 DEF Attendance, OneHelper
  <2>7. mem'[c] = mem[c] /\ pc'[c] = pc[c] /\ parent'[x] = c
    BY <2>4, <2>5, <2>6 DEF Ended, Listening
  <2> QED
    BY <1>7, <2>2, <2>3, <2>4, <2>7 DEF Helper, Listening
<1>9. \A x \in Pid : Attended(x)'
  BY <1>4, <1>7, <1>8 DEF Attended
<1>10. ASSUME NEW x \in Pid, pc'[x] \in Working, Helper(x)'
       PROVE  Helper(x)
  <2>1. PICK c \in Pid : c = Command
    BY <1>7, <1>10 DEF Helper
  <2>2. Listening(c)' /\ parent'[x] = c
    BY <1>7, <1>10, <2>1 DEF Helper, Listening
  <2>3. pc[c] = "popen" /\ c # p
    BY <1>2, <2>2 DEF Ended, Listening, Working, CommandPoints
  <2>4. parent[x] = c
    BY <1>1, <2>2, PidFacts DEF Ended, InitPid, Pid
  <2>5. mem[c].peer = Pending
    <3>1. SUFFICES ASSUME mem'[c] # mem[c] PROVE FALSE
      BY <2>2 DEF Listening
    <3>2. c = parent[p]
      BY <2>3, <3>1 DEF Ended
    <3>3. pc[p] \in {"start", "info_asked", "info_reply", "exit"}
      BY <2>3, <3>2 DEF Order, Discipline, Relatives, Gone
    <3>4. mem[c].peer = Pending
      BY <1>1, <2>3, <3>1, <3>2 DEF ExitPrinting
    <3>5. Helper(p) /\ pc[p] \in Working
      BY <1>7, <2>1, <2>3, <3>2, <3>3, <3>4 DEF Helper, Working, CommandPoints
    <3>6. Helper(x) /\ pc[x] \in Working /\ x # p
      BY <1>4, <1>7, <1>10, <2>1, <2>3, <2>4, <3>4 DEF Helper
    <3> QED
      BY <3>5, <3>6 DEF Attendance, OneHelper
  <2> QED
    BY <1>7, <2>1, <2>3, <2>4, <2>5 DEF Helper
<1>11. OneHelper'
  BY <1>4, <1>10 DEF OneHelper, Attendance
<1>12. Dismissed'
  <2>1. sig'[PM].term = sig[PM].term
    BY <1>1 DEF Ended
  <2> QED
    BY <1>4, <2>1 DEF Dismissed, Attendance
<1> QED
  BY <1>6, <1>9, <1>11, <1>12 DEF Attendance

\* A process that is no command is forked.
LEMMA ForkAttends ==
  ASSUME CalmInv, Attendance, NEW p \in Pid \ {PM}, pc[p] \notin Gone, NEW point, NEW l, NEW m,
         NEW kidPoint, NEW kidLib, NEW kidMem,
         Fork(p, point, l, m, kidPoint, kidLib, kidMem), pc[p] # "exit",
         Follows(p, point, m), kidPoint \notin Working, kidMem.kid # PM, sig' = sig
  PROVE  Attendance'
<1> USE DEF CalmInv
<1>1. PM \in Pid /\ TypeInv
  BY Shape
<1>2. PICK k \in Pid : k = nextPid
  BY ForkFacts
<1>3. /\ k # p /\ k # PM /\ pc'[p] = point /\ pc'[k] = kidPoint
      /\ mem'[p] = m /\ mem'[k] = kidMem
      /\ \A x \in Pid \ {k} : parent'[x] = parent[x]
      /\ \A x \in Pid \ {p, k} : pc'[x] = pc[x] /\ lib'[x] = lib[x] /\ mem'[x] = mem[x]
  BY <1>2, ForkFacts
<1>4. ASSUME NEW x \in Pid, pc'[x] \in Working
      PROVE  pc[x] \in Working /\ parent'[x] = parent[x] /\ (LeftBehind(x) => LeftBehind(x)')
  <2>1. x # k
    BY <1>3, <1>4
  <2> QED
    BY <1>3, <1>4, <2>1 DEF Follows, LeftBehind
<1>5. \A x \in Pid : pc[x] = "popen" => x # k
  BY <1>2, ForkFacts
<1>6. ASSUME NEW x \in Pid PROVE Listening(x)' <=> Listening(x)
  BY <1>3, <1>5 DEF Follows, Listening, Working, CommandPoints
<1>7. mem'[PM] = mem[PM] /\ pc'[PM] = pc[PM]
  BY <1>1, <1>3
<1>8. NoCommand'
  BY <1>3, <1>7 DEF Follows, NoCommand, Attendance, Command
<1> QED
  BY <1>1, <1>4, <1>6, <1>7, <1>8, Attends

-----------------------------------------------------------------------------
\* At a child's point p is neither a command nor pmanager.
LEMMA ChildFollows ==
  ASSUME CalmInv, Attendance, NEW p \in Pid, pc[p] \in ChildPoints \union {"boot"},
         NEW point \in ChildPoints, NEW m, m.kid \in {mem[p].kid, nextPid, NoPid}
  PROVE  /\ Follows(p, point, m) /\ p # PM /\ pc[p] # "exit" /\ pc[p] \notin Gone
         /\ ~Listening(p) /\ point \notin Working
<1>1. p # PM
  BY Manager DEF CalmInv, ChildPoints, Managing, ManagerPoints
<1>2. nextPid # PM /\ NoPid # PM
  BY DEF CalmInv, Order, Discipline, OneManager, PM, NoPid
<1>3. m.kid # PM
  BY <1>2 DEF Attendance, NoCommand
<1> QED
  BY <1>1, <1>3 DEF Follows, ChildPoints, Gone, Listening, Working, CommandPoints

\* p signals a process that is not pmanager, if any.
LEMMA TermAttends ==
  ASSUME TypeInv, NEW p \in Pid, NEW q, q # PM, UNCHANGED sig \/ PostTerm(q, p)
  PROVE  sig'[PM].term = sig[PM].term
<1>1. sig \in [Pid -> SignalType] /\ PM \in Pid
  BY Shape
<1> QED
  BY <1>1 DEF PostTerm, Exists

LEMMA ChildGoesOn ==
  ASSUME CalmInv, Attendance, NEW p \in Pid, pc[p] \in ChildPoints \union {"boot"},
         NEW point \in ChildPoints, NEW l, NEW m, m.kid \in {mem[p].kid, nextPid, NoPid},
         Goto(p, point, l, m), UNCHANGED sig \/ PostTerm(mem[p].kid, p), parent' = parent
  PROVE  Attendance'
<1>1. Follows(p, point, m) /\ pc[p] # "exit"
  BY ChildFollows
<1>2. mem[p].kid # PM
  BY DEF Attendance, NoCommand
<1>3. sig'[PM].term = sig[PM].term
  BY <1>2, TermAttends DEF CalmInv
<1> QED
  BY <1>1, <1>3, GotoAttends DEF CalmInv

LEMMA ChildAttends ==
  ASSUME CalmInv, Attendance, NEW p \in Pid, ChildStep(p)
  PROVE  Attendance'
<1> USE DEF CalmInv
<1>1. mem[p] \in MemType /\ TypeInv
  BY Shape DEF SoundMem
<1>2. /\ [mem[p] EXCEPT !.sigterm_flag = 0].kid = mem[p].kid
      /\ \A s : [mem[p] EXCEPT !.peer = s].kid = mem[p].kid
      /\ CloneReturns(p).kid = NoPid
      /\ [CloneReturns(p) EXCEPT !.clones_count = @ + 1].kid = NoPid
      /\ [mem[p] EXCEPT !.kid = nextPid].kid = nextPid
  BY <1>1 DEF MemType, CloneReturns
<1>3. \A point \in ChildPoints : \A l, m :
        /\ pc[p] \in ChildPoints \union {"boot"} /\ m.kid \in {mem[p].kid, nextPid, NoPid}
        /\ Goto(p, point, l, m) /\ (UNCHANGED sig \/ PostTerm(mem[p].kid, p)) /\ parent' = parent
        => Attendance'
  BY ChildGoesOn
<1>4. CASE RegisterHandlers(p) \/ Sleep(p)
  <2>1. \E point \in ChildPoints : Goto(p, point, lib[p], mem[p])
    BY <1>1, <1>4, GotoPoint DEF RegisterHandlers, Sleep, ChildPoints
  <2> QED
    BY <1>3, <1>4, <2>1 DEF RegisterHandlers, Sleep, Ready, ChildPoints
<1>5. CASE CheckSigtermFlag(p) \/ CheckUnreadFlag(p)
  BY <1>3, <1>5 DEF CheckSigtermFlag, CheckUnreadFlag, Ready, ChildPoints
<1>6. ASSUME pc[p] \in ChildPoints, Crash(p) PROVE Attendance'
  BY <1>1, <1>6, ChildFollows, ExitAttends DEF Crash, Exit
<1>7. CASE GotMessage(p)
  <2>1. CASE lib[p].msg = NULL
    BY <1>6, <1>7, <2>1 DEF GotMessage, Ready, ChildPoints
  <2>2. CASE lib[p].msg # NULL /\ lib[p].msg.type = MSG_SPAWN
    BY <1>2, <1>3, <1>7, <2>2 DEF GotMessage, Ready, ChildPoints
  <2>3. CASE lib[p].msg # NULL /\ lib[p].msg.type # MSG_SPAWN
    BY <1>3, <1>7, <2>3 DEF GotMessage, Ready, ChildPoints
  <2> QED
    BY <2>1, <2>2, <2>3
<1>8. CASE AwaitRemoval(p)
  BY <1>3, <1>8 DEF AwaitRemoval, Ready, ChildPoints
<1>9. CASE GotRemoval(p)
  BY <1>3, <1>6, <1>9 DEF GotRemoval, Ready, ChildPoints
<1>10. CASE ExitChild(p)
  BY <1>6, <1>10 DEF ExitChild, Ready, ChildPoints, Crash
<1>11. CASE ResetSigtermFlag(p)
  BY <1>2, <1>3, <1>11 DEF ResetSigtermFlag, Ready, ChildPoints
<1>12. CASE AwaitDuplicateCheck(p)
  BY <1>2, <1>3, <1>12 DEF AwaitDuplicateCheck, Ready, ChildPoints
<1>13. CASE child_clone(p)
  <2>1. pc[p] \in ChildPoints /\ "loop" \in ChildPoints /\ "clone_sent" \in ChildPoints
    BY <1>13 DEF child_clone, Ready, ChildPoints
  <2>2. CASE lib[p].msg = NULL
    BY <1>6, <1>13, <2>1, <2>2 DEF child_clone
  <2>3. CASE lib[p].msg # NULL /\ \E l : Goto(p, "loop", l, CloneReturns(p)) /\ UNCHANGED <<sig, parent>>
    BY <1>2, <1>3, <2>1, <2>3
  <2>4. CASE ForkClone(p) /\ sig' = sig
    <3> DEFINE kidMem == [CloneReturns(p) EXCEPT !.name = NextName(p), !.clones_count = 0]
               m == [mem[p] EXCEPT !.kid = nextPid]
               l == message_send(p, PM, MSG_ADD, proc_node_tostr(nextPid, p, NextName(p)))
    <3>1. kidMem.kid = NoPid /\ m.kid = nextPid
      BY <1>1 DEF MemType, CloneReturns
    <3>2. Fork(p, "clone_sent", l, m, "loop", [lib[p] EXCEPT !.msg = NULL], kidMem)
      BY <2>4 DEF ForkClone
    <3> HIDE DEF kidMem, m, l
    <3>3. /\ Follows(p, "clone_sent", m) /\ p # PM /\ pc[p] # "exit" /\ pc[p] \notin Gone
      BY <2>1, <3>1, ChildFollows
    <3>4. "loop" \notin Working /\ kidMem.kid # PM
      BY <3>1 DEF Working, CommandPoints, NoPid, PM
    <3> QED
      BY <2>4, <3>2, <3>3, <3>4, ForkAttends
  <2> QED
    BY <1>13, <2>2, <2>3, <2>4 DEF child_clone
<1>14. CASE send_proc_to_pmanager(p)
  BY <1>2, <1>3, <1>14 DEF send_proc_to_pmanager, KillClone, Ready, ChildPoints
<1>15. CASE CloneAdded(p)
  BY <1>2, <1>3, <1>15 DEF CloneAdded, KillClone, Ready, ChildPoints
<1> QED
  BY <1>4, <1>5, <1>7, <1>8, <1>9, <1>10, <1>11, <1>12, <1>13, <1>14, <1>15 DEF ChildStep

-----------------------------------------------------------------------------
\* The calls of message.c, and the handlers of a process that goes on.
LEMMA StepAttends ==
  ASSUME CalmInv, Attendance, NEW p \in Pid, pc[p] \notin Gone,
         \A x \in Pid \ {p} :
           pc'[x] = pc[x] \/ (pc[x] = "zombie" /\ pc'[x] = "dead"),
         \A x \in Pid \ {p} : lib'[x] = lib[x],
         \/ pc'[p] = pc[p]
         \/ pc[p] = "asleep" /\ pc'[p] = "flag"
         \/ pc[p] = "waitpid" /\ pc'[p] = "poll",
         pc[p] = "exit" => lib'[p].at = "ret" \/ (lib[p].at # "ret" /\ lib'[p].pid = lib[p].pid),
         \A x \in Pid : mem'[x].kid = mem[x].kid /\ mem'[x].peer = mem[x].peer,
         sig'[PM].term = sig[PM].term, parent' = parent
  PROVE  Attendance'
<1> USE DEF CalmInv
<1>1. PM \in Pid /\ TypeInv
  BY Shape
<1>2. ASSUME NEW x \in Pid, pc'[x] \in Working
      PROVE  pc[x] \in Working /\ (LeftBehind(x) => LeftBehind(x)')
  <2>1. CASE x = p
    BY <1>2, <2>1 DEF LeftBehind, Working, CommandPoints
  <2>2. CASE x # p
    BY <1>2, <2>2 DEF LeftBehind, Working, CommandPoints
  <2> QED
    BY <2>1, <2>2
<1>3. ASSUME NEW x \in Pid PROVE Listening(x)' <=> Listening(x)
  BY DEF Listening
<1>4. pc'[PM] = pc[PM] \/ pc'[PM] \notin {"readline", "cleanup", "dead"}
  <2>1. pc[PM] # "zombie"
    BY <1>1, Manager DEF Managing, ManagerPoints
  <2> QED
    BY <1>1, <2>1
<1>5. NoCommand'
  BY <1>1, <1>4 DEF NoCommand, Attendance, Command
<1> QED
  BY <1>1, <1>2, <1>3, <1>5, Attends

LEMMA MessageAttends ==
  ASSUME CalmInv, Attendance, NEW p \in Pid, pc[p] \notin Gone, MessageStep(p)
  PROVE  Attendance'
<1> USE DEF CalmInv
<1>1. /\ lib \in [Pid -> SoundLib] /\ sig \in [Pid -> SignalType] /\ PM \in Pid
      /\ lib[p] \in LibType
  BY Shape DEF SoundLib
<1>2. UNCHANGED <<pc, mem, parent>> /\ \E l : lib' = [lib EXCEPT ![p] = l]
  BY <1>1 DEF MessageStep, WriteText, NotifyReceiver, CheckFlags, Suspend, ReadText, ReadNothing,
     ReadToEnd, ReadAtom, ResetFlags
<1>3. sig'[PM].term = sig[PM].term
  BY <1>1 DEF MessageStep, WriteText, NotifyReceiver, CheckFlags, Suspend, ReadText, ResetFlags,
     PostUsr1, SignalType
<1>4. lib'[p].at = "ret" \/ (lib[p].at # "ret" /\ lib'[p].pid = lib[p].pid)
  <2>1. CASE WriteText(p) \/ NotifyReceiver(p) \/ CheckFlags(p) \/ Suspend(p) \/ ResetFlags(p)
    BY <1>1, <2>1 DEF LibType, WriteText, NotifyReceiver, CheckFlags, Suspend, ResetFlags
  <2>2. CASE ReadText(p)
    <3>1. lib[p].at = "read" /\ (ReadNothing(p) \/ ReadToEnd(p) \/ ReadAtom(p))
      BY <2>2 DEF ReadText
    <3> QED
      BY <1>1, <3>1 DEF LibType, ReadNothing, ReadToEnd, ReadAtom
  <2> QED
    BY <2>1, <2>2 DEF MessageStep
<1> QED
  BY <1>2, <1>3, <1>4, StepAttends

LEMMA HandlerAttends ==
  ASSUME CalmInv, Attendance, NEW p \in Pid,
         set_unread_flag(p) \/ sigterm_handler(p) \/ remove_zombie(p)
  PROVE  Attendance'
<1> USE DEF CalmInv
<1>1. /\ pc \in [Pid -> Points] /\ lib \in [Pid -> SoundLib] /\ mem \in [Pid -> SoundMem]
      /\ sig \in [Pid -> SignalType] /\ PM \in Pid /\ lib[p] \in LibType /\ mem[p] \in MemType
  BY Shape DEF SoundLib, SoundMem
<1>2. pc[p] \notin Gone /\ parent' = parent
  BY DEF set_unread_flag, sigterm_handler, remove_zombie, Alive, ChildPoints, Gone
<1>3. pc[p] \in ChildPoints \/ ~Busy(p)
  <2>1. CASE set_unread_flag(p)
    <3>1. HasTurn(p, "usr1") /\ "usr1" \in Claims
      BY <2>1 DEF set_unread_flag, HasTurn, Claims
    <3>2. Only(p, "usr1")
      BY <3>1, Holder DEF Turn
    <3> QED
      BY <3>2 DEF Only
  <2> QED
    BY <2>1 DEF sigterm_handler, remove_zombie
<1>4. PICK point \in AfterSignal(p) :
        \/ pc' = [pc EXCEPT ![p] = point]
        \/ \E q \in Zombies(p) : pc' = [pc EXCEPT ![q] = "dead", ![p] = point]
  BY DEF set_unread_flag, sigterm_handler, remove_zombie
<1>5. \/ point = pc[p]
      \/ pc[p] = "asleep" /\ point = "flag"
      \/ pc[p] = "waitpid" /\ point = "poll"
  BY <1>2, <1>3, HandlerPoint
<1>6. /\ pc'[p] = point
      /\ \A x \in Pid \ {p} : pc'[x] = pc[x] \/ (pc[x] = "zombie" /\ pc'[x] = "dead")
  BY <1>1, <1>2, <1>4 DEF Zombies, Gone
<1>7. /\ \A x \in Pid \ {p} : lib'[x] = lib[x]
      /\ lib'[p].at = WokenAt(lib[p].at) /\ lib'[p].pid = lib[p].pid
  BY <1>1 DEF set_unread_flag, sigterm_handler, remove_zombie, LibType
<1>8. pc[p] = "exit" => lib'[p].at = "ret" \/ (lib[p].at # "ret" /\ lib'[p].pid = lib[p].pid)
  BY <1>7 DEF WokenAt
<1>9. \A x \in Pid : mem'[x].kid = mem[x].kid /\ mem'[x].peer = mem[x].peer
  BY <1>1 DEF set_unread_flag, sigterm_handler, remove_zombie, MemType
<1>10. sig'[PM].term = sig[PM].term
  <2>1. CASE set_unread_flag(p) \/ remove_zombie(p)
    BY <1>1, <2>1 DEF set_unread_flag, remove_zombie, SignalType
  <2>2. CASE sigterm_handler(p)
    <3>1. p # PM
      BY <1>1, <2>2, Manager DEF sigterm_handler, ChildPoints, Managing, ManagerPoints
    <3> QED
      BY <1>1, <2>2, <3>1 DEF sigterm_handler
  <2> QED
    BY <2>1, <2>2
<1> QED
  BY <1>2, <1>5, <1>6, <1>7, <1>8, <1>9, <1>10, StepAttends

LEMMA BootAttends ==
  ASSUME CalmInv, Attendance, NEW p \in Pid, KilledAtBoot(p)
  PROVE  Attendance'
<1> USE DEF CalmInv
<1>1. pc[p] = "boot" /\ p # PM /\ PM \in Pid /\ TypeInv
  BY Shape, Manager DEF KilledAtBoot, Managing, ManagerPoints
<1>2. Goto(p, "killed", BlankLib, BlankMem) /\ parent' = parent
  BY DEF KilledAtBoot, Goto
<1>3. BlankMem.kid # PM
  BY DEF BlankMem, NoPid, PM
<1>4. Follows(p, "killed", BlankMem)
  BY <1>1, <1>3 DEF Follows, Listening, Working, CommandPoints
<1>5. sig'[PM].term = sig[PM].term
  BY <1>1, Shape DEF KilledAtBoot
<1> QED
  BY <1>1, <1>2, <1>4, <1>5, GotoAttends

\* Without a command of pmanager there is no other program but those left behind.
Deserted == \A x \in Pid : pc[x] \in Working => LeftBehind(x)

LEMMA DesertedAttends ==
  ASSUME Deserted', NoCommand', mem'[PM].kid = NoPid
  PROVE  Attendance'
<1>1. \A x \in Pid : pc'[x] \in Working => LeftBehind(x)'
  BY DEF Deserted
<1>2. \A x \in Pid : Attended(x)'
  BY <1>1 DEF Attended
<1>3. Dismissed'
  BY <1>1 DEF Dismissed
<1>4. \A x \in Pid : ~Helper(x)'
  BY DEF Helper, Command
<1>5. OneHelper'
  BY <1>4 DEF OneHelper
<1> QED
  BY <1>2, <1>3, <1>5 DEF Attendance

LEMMA PromptDeserted ==
  ASSUME Attendance, Command = NoPid
  PROVE  Deserted
<1>1. NoPid \notin Pid
  BY PidFacts DEF NoPid, Pid
<1> QED
  BY <1>1 DEF Deserted, Attendance, Attended, Helper

\* pmanager ends, and leaves only those behind that do not notice.
LEMMA ManagerAttends ==
  ASSUME CalmInv, Deserted, Attendance, pc[PM] \notin Gone, NEW output, ExitPrinting(PM, output)
  PROVE  Attendance'
<1> USE DEF CalmInv
<1>1. PM \in Pid /\ TypeInv
  BY Shape
<1> Ended(PM, output)
  BY <1>1, ExitFacts
<1>2. mem'[PM] = BlankMem /\ BlankMem.kid = NoPid /\ NoPid # PM
  BY DEF Ended, BlankMem, NoPid, PM
<1>3. ASSUME NEW x \in Pid, pc'[x] \in Working PROVE LeftBehind(x)'
  <2>1. x # PM /\ pc'[x] = pc[x] /\ lib'[x] = lib[x]
    BY <1>3 DEF Ended, Working, CommandPoints
  <2> QED
    BY <1>3, <2>1 DEF Deserted, LeftBehind
<1>4. ASSUME NEW x \in Pid PROVE mem'[x].kid # PM
  <2>1. CASE x = PM
    BY <1>2, <2>1
  <2>2. CASE x # PM
    <3>1. mem[x] \in MemType
      BY Shape DEF SoundMem
    <3>2. mem'[x] = mem[x] \/ mem'[x] = [mem[x] EXCEPT !.peer = output]
      BY <2>2 DEF Ended
    <3> QED
      BY <3>1, <3>2 DEF MemType, Attendance, NoCommand
  <2> QED
    BY <2>1, <2>2
<1> QED
  BY <1>2, <1>3, <1>4, DesertedAttends DEF Deserted, NoCommand, Command

LEMMA EndAttends ==
  ASSUME CalmInv, Attendance, NEW p \in Pid, terminate(p)
  PROVE  Attendance'
<1> USE DEF CalmInv
<1>1. ~sig[p].int /\ pc[p] \in ManagerPoints
  BY DEF Order, Discipline, NoInterrupt, terminate
<1>2. sig[p].term # NoPid
  BY <1>1 DEF terminate, Deliverable
<1>3. HasTurn(p, "term") /\ {"term", "busy"} \subseteq Claims
  BY <1>2 DEF HasTurn, Claims
<1>4. Only(p, "term")
  BY <1>3, Holder DEF Turn
<1>5. /\ pc \in [Pid -> Points] /\ lib \in [Pid -> SoundLib] /\ mem \in [Pid -> SoundMem]
      /\ sig \in [Pid -> SignalType] /\ PM \in Pid
  BY Shape
<1>6. p = PM /\ pc[PM] \notin Gone
  <2>1. pc[p] # "exec"
    <3>1. ASSUME pc[p] = "exec" PROVE lib[p].at = "ret"
      <4>1. lib[p].at \in CallPoints
        BY <1>5 DEF SoundLib, LibType
      <4> QED
        BY <3>1, <4>1
        DEF Order, Discipline, CallsOpen, OpenAt, CallPoints, Sending, Answering, Receiving
    <3>2. ~Busy(p)
      BY <1>4 DEF Only
    <3> QED
      BY <3>1, <3>2, Runnable
  <2>2. pc[p] \in Managing
    BY <1>1, <2>1 DEF Managing
  <2> QED
    BY <1>1, <2>2, Manager DEF ManagerPoints, Gone
<1>7. Deserted
  BY <1>2, <1>6 DEF Deserted, Attendance, Dismissed
<1>8. CASE Exit(p)
  BY <1>6, <1>7, <1>8, ManagerAttends DEF Exit
<1>9. CASE \E l, s : Goto(PM, "cleanup", l, [ExitingManager(PM) EXCEPT !.masked = @ \union {s}])
  <2>1. PICK l, m : Goto(PM, "cleanup", l, m) /\ m.kid = NoPid
    <3>1. \A s : [ExitingManager(PM) EXCEPT !.masked = @ \union {s}].kid = NoPid
      BY DEF ExitingManager, NewCommand, BlankMem
    <3> QED
      BY <1>9, <3>1
  <2>2. /\ pc' = [pc EXCEPT ![PM] = "cleanup"]
        /\ lib' = [lib EXCEPT ![PM] = l]
        /\ mem' = [mem EXCEPT ![PM] = m]
    BY <2>1 DEF Goto
  <2>3. ASSUME NEW x \in Pid, pc'[x] \in Working PROVE LeftBehind(x)'
    <3>1. x # PM /\ pc'[x] = pc[x] /\ lib'[x] = lib[x]
      BY <1>5, <2>2, <2>3 DEF Working, CommandPoints
    <3> QED
      BY <1>7, <2>3, <3>1 DEF Deserted, LeftBehind
  <2>4. mem'[PM].kid = NoPid /\ NoPid # PM
    BY <1>5, <2>1, <2>2 DEF NoPid, PM
  <2>5. NoCommand'
    BY <1>5, <2>1, <2>2, <2>4 DEF NoCommand, Attendance, Command
  <2> QED
    BY <2>3, <2>4, <2>5, DesertedAttends DEF Deserted
<1> QED
  BY <1>6, <1>8, <1>9 DEF terminate

LEMMA SignalAttends ==
  ASSUME CalmInv, Attendance, NEW p \in Pid, SignalStep(p)
  PROVE  Attendance'
<1>1. ~DieOfInterrupt(p)
  BY DEF CalmInv, Order, Discipline, NoInterrupt, DieOfInterrupt, Dying, Interrupted
<1> QED
  BY <1>1, HandlerAttends, BootAttends, EndAttends DEF SignalStep, ChildSignal

-----------------------------------------------------------------------------
\* A command goes on, or finishes.
LEMMA CommandFollows ==
  ASSUME CalmInv, Attendance, NEW p \in Pid, pc[p] \in Working, ~Listening(p),
         NEW point, point # "popen", NEW m, m.kid = mem[p].kid
  PROVE  Follows(p, point, m) /\ p # PM
<1>1. p # PM
  BY Manager DEF CalmInv, Working, CommandPoints, Managing, ManagerPoints
<1>2. m.kid # PM
  BY DEF Attendance, NoCommand
<1> QED
  BY <1>1, <1>2 DEF Follows

LEMMA CommandGoesOn ==
  ASSUME CalmInv, Attendance, NEW p \in Pid, pc[p] \in Working \ {"exit"}, ~Listening(p),
         NEW point, point # "popen", NEW l, NEW m, m.kid = mem[p].kid,
         Goto(p, point, l, m), NEW q, q # PM, UNCHANGED sig \/ PostTerm(q, p), parent' = parent
  PROVE  Attendance'
<1>1. Follows(p, point, m)
  BY CommandFollows
<1>2. sig'[PM].term = sig[PM].term
  BY TermAttends DEF CalmInv
<1> QED
  BY <1>1, <1>2, GotoAttends DEF CalmInv

LEMMA CommandCarriesOn ==
  ASSUME CalmInv, Attendance, NEW p \in Pid, pc[p] \in Working \ {"exit"}, ~Listening(p),
         NEW point, point # "popen", NEW l, NEW m, m.kid = mem[p].kid,
         Goto(p, point, l, m), sig' = sig, parent' = parent
  PROVE  Attendance'
<1>1. Follows(p, point, m)
  BY CommandFollows
<1> QED
  BY <1>1, GotoAttends DEF CalmInv

LEMMA FinishAttends ==
  ASSUME CalmInv, Attendance, NEW p \in Pid, pc[p] \in Working \ {"exit"}, ~Listening(p),
         Finish(p), NEW q, q # PM, UNCHANGED sig \/ PostTerm(q, p), parent' = parent
  PROVE  Attendance'
BY CommandGoesOn DEF Finish

LEMMA LeaveAttends ==
  ASSUME CalmInv, Attendance, NEW p \in Pid, pc[p] \in Working, ~Listening(p),
         NEW output, ExitPrinting(p, output)
  PROVE  Attendance'
<1>1. p # PM
  BY Manager DEF CalmInv, Working, CommandPoints, Managing, ManagerPoints
<1> QED
  BY <1>1, ExitAttends DEF Working, CommandPoints, Gone

LEMMA PopenAttends ==
  ASSUME CalmInv, Attendance, NEW p \in Pid, pc[p] = "start", lib[p].at = "ret",
         mem[p].prog # "pinfo", popen(p), sig' = sig
  PROVE  Attendance'
<1> USE DEF CalmInv
<1>1. ~Listening(p) /\ pc[p] \in Working \ {"exit"} /\ NoPid # PM
  BY DEF Working, CommandPoints, NoPid, PM, Listening
<1>2. CASE Finish(p) /\ parent' = parent
  BY <1>1, <1>2, FinishAttends
<1>3. CASE Fork(p, "popen", lib[p], [mem[p] EXCEPT !.peer = Pending],
                "start", BlankLib, NewCommand("pinfo", mem[p].name, parent[p]))
  <2> DEFINE m == [mem[p] EXCEPT !.peer = Pending]
             kidMem == NewCommand("pinfo", mem[p].name, parent[p])
  <2>1. m.kid = mem[p].kid /\ m.peer = Pending /\ kidMem.kid # PM
    BY Shape DEF SoundMem, MemType, NewCommand, BlankMem, NoPid, PM
  <2>2. Fork(p, "popen", lib[p], m, "start", BlankLib, kidMem)
    BY <1>3
  <2> HIDE DEF m, kidMem
  <2>3. PICK k \in Pid : k = nextPid
    BY <1>1, <2>2, ForkFacts DEF Gone
  <2>4. /\ k # p /\ k # PM /\ pc[k] = "unborn"
        /\ pc'[p] = "popen" /\ pc'[k] = "start" /\ mem'[p] = m /\ mem'[k] = kidMem
        /\ parent'[k] = p
        /\ \A x \in Pid \ {k} : parent'[x] = parent[x]
        /\ \A x \in Pid \ {p, k} : pc'[x] = pc[x] /\ lib'[x] = lib[x] /\ mem'[x] = mem[x]
    BY <1>1, <2>2, <2>3, ForkFacts DEF Gone
  <2>5. p # PM /\ PM \in Pid
    BY <1>1, Manager, Shape DEF Managing, ManagerPoints
  <2>6. p = Command
    <3>1. Attended(p) /\ pc[p] \in Working
      BY <1>1 DEF Attendance
    <3>2. ~LeftBehind(p)
      BY DEF LeftBehind
    <3>3. ASSUME Helper(p) PROVE FALSE
      <4>1. PICK c \in Pid : c = Command
        BY <3>3, CommandIsPid DEF Helper
      <4>2. parent[p] = c /\ pc[c] = "popen"
        BY <3>3, <4>1 DEF Helper
      <4> QED
        BY <4>2 DEF Order, Discipline, Relatives
    <3> QED
      BY <3>1, <3>2, <3>3 DEF Attended
  <2>7. Command' = p /\ p # NoPid
    BY <2>4, <2>5, <2>6, CommandIsPid DEF Command
  <2>8. \A x \in Pid : ~Helper(x)
    BY <2>6 DEF Helper
  <2>9. Helper(k)'
    BY <2>1, <2>4, <2>7 DEF Helper
  <2>10. ASSUME NEW x \in Pid, Helper(x)' PROVE x = k
    <3>1. parent'[x] = p
      BY <2>7, <2>10 DEF Helper
    <3>2. x # k => parent[x] = p
      BY <2>4, <3>1
    <3> QED
      BY <3>2 DEF Order, Discipline, Relatives
  <2>11. ASSUME NEW x \in Pid, pc'[x] \in Working, x \notin {p, k}
         PROVE  LeftBehind(x) /\ LeftBehind(x)'
    <3>1. LeftBehind(x)
      BY <2>4, <2>6, <2>8, <2>11 DEF Attendance, Attended
    <3> QED
      BY <2>4, <2>11, <3>1 DEF LeftBehind
  <2>12. \A x \in Pid : Attended(x)'
    BY <2>7, <2>9, <2>11 DEF Attended
  <2>13. OneHelper'
    BY <2>10 DEF OneHelper
  <2>14. Dismissed'
    <3>1. sig[PM].term = NoPid
      BY <1>1 DEF Attendance, Dismissed, LeftBehind
    <3> QED
      BY <3>1 DEF Dismissed
  <2>15. NoCommand'
    BY <2>1, <2>4, <2>5, <2>7 DEF NoCommand, Attendance, Command
  <2> QED
    BY <2>12, <2>13, <2>14, <2>15 DEF Attendance
<1> QED
  BY <1>2, <1>3 DEF popen

LEMMA StartAttends ==
  ASSUME CalmInv, Attendance, NEW p \in Pid, Start(p)
  PROVE  Attendance'
<1> USE DEF CalmInv
<1>1. /\ pc[p] = "start" /\ lib[p].at = "ret" /\ sig' = sig
      /\ pc[p] \in Working \ {"exit"} /\ ~Listening(p) /\ NoPid # PM
  BY DEF Start, pnew_main, pinfo_main, prmall_main, plist_main, ptree_main, pclose_main,
     pspawn_main, phelp_main, Begin, Ready, Working, CommandPoints, NoPid, PM, Listening
<1>2. CASE Finish(p) /\ parent' = parent
  BY <1>1, <1>2, FinishAttends
<1>3. CASE popen(p) /\ mem[p].prog # "pinfo"
  BY <1>1, <1>3, PopenAttends
<1>4. ASSUME NEW point \in {"pnew_asked", "info_asked", "list_asked"}, NEW to, NEW type, NEW content,
             Ask(p, point, to, type, content)
      PROVE  Attendance'
  <2> DEFINE l == message_send(p, to, type, content)
             m == [mem[p] EXCEPT !.peer = to]
  <2>1. m.kid = mem[p].kid
    BY Shape DEF SoundMem, MemType
  <2>2. Goto(p, point, l, m) /\ parent' = parent
    BY <1>4 DEF Ask
  <2> HIDE DEF l, m
  <2> QED
    BY <1>1, <2>1, <2>2, CommandCarriesOn
<1>5. CASE pnew_main(p)
  BY <1>2, <1>4, <1>5 DEF pnew_main, Begin
<1>6. CASE pinfo_main(p)
  BY <1>2, <1>4, <1>6 DEF pinfo_main, Begin
<1>7. CASE prmall_main(p)
  BY <1>2, <1>4, <1>7 DEF prmall_main, Begin
<1>8. CASE plist_main(p)
  BY <1>2, <1>4, <1>8 DEF plist_main, Begin
<1>9. CASE ptree_main(p)
  BY <1>2, <1>4, <1>9 DEF ptree_main, Begin
<1>10. CASE pclose_main(p) \/ pspawn_main(p)
  BY <1>2, <1>3, <1>10 DEF pclose_main, pspawn_main, Begin
<1>11. CASE phelp_main(p)
  BY <1>2, <1>11 DEF phelp_main
<1> QED
  BY <1>5, <1>6, <1>7, <1>8, <1>9, <1>10, <1>11 DEF Start

\* pnew and its call of abort_fork().
LEMMA PnewAttends ==
  ASSUME CalmInv, Attendance, NEW p \in Pid,
         AwaitNameCheck(p) \/ pnew(p) \/ AwaitAdd(p) \/ GotAdd(p)
  PROVE  Attendance'
<1> USE DEF CalmInv
<1>1. /\ pc[p] \in {"pnew_asked", "pnew_reply", "pnew_sent", "pnew_added"}
      /\ pc[p] \in Working \ {"exit"} /\ ~Listening(p) /\ NoPid # PM /\ mem[p].kid # PM
  BY DEF AwaitNameCheck, pnew, AwaitAdd, GotAdd, Ready, Working, CommandPoints, NoPid, PM, Attendance,
     NoCommand, Listening
<1>2. ASSUME Finish(p), UNCHANGED sig \/ PostTerm(mem[p].kid, p), parent' = parent
      PROVE  Attendance'
  BY <1>1, <1>2, FinishAttends
<1>3. ASSUME NEW point, NEW l, Goto(p, point, l, mem[p]), point # "popen",
             UNCHANGED sig \/ PostTerm(mem[p].kid, p), parent' = parent
      PROVE  Attendance'
  BY <1>1, <1>3, CommandGoesOn
<1>4. CASE AwaitNameCheck(p)
  BY <1>2, <1>3, <1>4 DEF AwaitNameCheck
<1>5. CASE pnew(p)
  <2>2. CASE Crash(p)
    BY <1>1, <2>2, LeaveAttends DEF Crash, Exit
  <2>3. CASE Finish(p) /\ UNCHANGED <<sig, parent>>
    BY <1>2, <2>3
  <2>4. CASE ForkProcess(p) /\ sig' = sig
    <3> DEFINE m == [mem[p] EXCEPT !.kid = nextPid]
               kidMem == NewCommand("child", mem[p].name, NoPid)
               l == message_send(p, parent[p], MSG_ADD,
                                 proc_node_tostr(nextPid, parent[p], mem[p].name))
    <3>1. m.kid = nextPid /\ kidMem.kid # PM
      BY Shape DEF SoundMem, MemType, NewCommand, BlankMem, NoPid, PM
    <3>2. Fork(p, "pnew_sent", l, m, "boot", [lib[p] EXCEPT !.msg = NULL], kidMem)
      BY <2>4 DEF ForkProcess
    <3> HIDE DEF m, kidMem, l
    <3>3. p # PM /\ nextPid # PM /\ pc[p] \notin Gone
      BY <1>1, Manager DEF Order, Discipline, OneManager, Working, CommandPoints, Managing, ManagerPoints,
         Gone, PM
    <3>4. Follows(p, "pnew_sent", m)
      BY <1>1, <3>1, <3>3 DEF Follows
    <3>5. "boot" \notin Working
      BY DEF Working, ManagerPoints
    <3> QED
      BY <1>1, <2>4, <3>1, <3>2, <3>3, <3>4, <3>5, ForkAttends
  <2> QED
    BY <1>5, <2>2, <2>3, <2>4 DEF pnew
<1>6. ASSUME abort_fork(p), parent' = parent PROVE Attendance'
  <2>1. CASE Exists(mem[p].kid)
    BY <1>3, <1>6, <2>1 DEF abort_fork
  <2>2. CASE ~Exists(mem[p].kid)
    BY <1>2, <1>6, <2>2 DEF abort_fork
  <2> QED
    BY <2>1, <2>2
<1>7. CASE AwaitAdd(p)
  BY <1>3, <1>6, <1>7 DEF AwaitAdd
<1>8. CASE GotAdd(p)
  BY <1>2, <1>6, <1>8 DEF GotAdd
<1> QED
  BY <1>4, <1>5, <1>7, <1>8

\* The commands that ask for the list, and the victims of prmall.
LEMMA ListAttends ==
  ASSUME CalmInv, Attendance, NEW p \in Pid, AwaitListItem(p) \/ GotListItem(p)
  PROVE  Attendance'
<1> USE DEF CalmInv
<1>1. /\ pc[p] \in {"list_asked", "list_item"} /\ mem[p] \in MemType
      /\ pc[p] \in Working \ {"exit"} /\ ~Listening(p) /\ NoPid # PM
  BY Shape DEF AwaitListItem, GotListItem, Ready, Working, CommandPoints, NoPid, PM, Listening, SoundMem
<1>2. ASSUME Finish(p), sig' = sig, parent' = parent PROVE Attendance'
  BY <1>1, <1>2, FinishAttends
<1>3. ASSUME NEW point, NEW l, NEW m, Goto(p, point, l, m), m.kid = mem[p].kid, point # "popen",
             sig' = sig, parent' = parent
      PROVE  Attendance'
  BY <1>1, <1>3, CommandGoesOn
<1>4. CASE AwaitListItem(p)
  BY <1>2, <1>3, <1>4 DEF AwaitListItem
<1>5. CASE ListItem(p)
  <2>1. \A next : [mem[p] EXCEPT !.procs = next].kid = mem[p].kid
    BY <1>1 DEF MemType
  <2>2. CASE Crash(p)
    BY <1>1, <2>2, LeaveAttends DEF Crash, Exit
  <2>3. ASSUME NEW l, NEW next, Goto(p, "list_asked", l, [mem[p] EXCEPT !.procs = next]),
               sig' = sig, parent' = parent
        PROVE  Attendance'
    BY <1>3, <2>1, <2>3
  <2> QED
    BY <1>5, <2>2, <2>3 DEF ListItem
<1>6. CASE GotListItem(p)
  BY <1>2, <1>3, <1>5, <1>6 DEF GotListItem
<1> QED
  BY <1>4, <1>6

LEMMA VictimAttends ==
  ASSUME CalmInv, Attendance, NEW p \in Pid, kill_proc_tree(p)
  PROVE  Attendance'
<1> USE DEF CalmInv
<1>1. /\ pc[p] = "rm_next" /\ lib[p].at = "ret" /\ mem[p] \in MemType /\ parent' = parent
      /\ pc[p] \in Working \ {"exit"} /\ ~Listening(p) /\ NoPid # PM
  BY Shape DEF kill_proc_tree, Ready, Working, CommandPoints, NoPid, PM, Listening, SoundMem
<1>2. parent[p] = PM
  <2>1. p = Command
    <3>1. ~LeftBehind(p)
      BY <1>1 DEF LeftBehind
    <3>2. ASSUME Helper(p) PROVE FALSE
      <4>1. PICK c \in Pid : c = Command
        BY <3>2, CommandIsPid DEF Helper
      <4>2. parent[p] = c /\ pc[c] = "popen"
        BY <3>2, <4>1 DEF Helper
      <4> QED
        BY <1>1, <4>2 DEF Order, Discipline, Relatives, Gone
    <3> QED
      BY <1>1, <3>1, <3>2 DEF Attendance, Attended
  <2>2. mem[PM].kid # NoPid
    BY <2>1, CommandIsPid DEF Command
  <2> QED
    BY <2>1, <2>2 DEF Order, Discipline, Relatives, Command
<1>3. CASE Finish(p) /\ UNCHANGED sig
  BY <1>1, <1>3, FinishAttends
<1>4. \A rest : [mem[p] EXCEPT !.procs = rest].kid = mem[p].kid
  BY <1>1 DEF MemType
<1>5. ASSUME NEW rest, SparePmanager(p, rest) PROVE Attendance'
  <2>1. Goto(p, "rm_next", lib[p], [mem[p] EXCEPT !.procs = rest]) /\ sig' = sig
    BY <1>5 DEF SparePmanager
  <2> QED
    BY <1>1, <1>4, <2>1, CommandCarriesOn
<1>6. ASSUME NEW rest, NEW q, q # PM, SignalVictim(p, q, rest) PROVE Attendance'
  <2>1. PICK l : PostTerm(q, p) /\ Goto(p, "rm_next", l, [mem[p] EXCEPT !.procs = rest])
    BY <1>6 DEF SignalVictim
  <2> QED
    BY <1>1, <1>4, <1>6, <2>1, CommandGoesOn
<1> QED
  BY <1>2, <1>3, <1>5, <1>6 DEF kill_proc_tree

\* pinfo, pclose and pspawn.
LEMMA CloseAttends ==
  ASSUME CalmInv, Attendance, NEW p \in Pid, pclose(p)
  PROVE  Attendance'
<1> USE DEF CalmInv
<1>1. /\ pc[p] = "popen" /\ mem[p].peer # Pending /\ parent' = parent
      /\ pc[p] \in Working \ {"exit"} /\ ~Listening(p) /\ NoPid # PM
  BY DEF pclose, Ready, Working, CommandPoints, NoPid, PM, Listening
<1>2. CASE Finish(p) /\ UNCHANGED sig
  BY <1>1, <1>2, FinishAttends
<1>3. CASE PostTerm(mem[p].peer, p) /\ Goto(p, "exit", message_wait(p, mem[p].peer), mem[p])
  <2>1. CASE mem[p].peer # PM
    BY <1>1, <1>3, <2>1, CommandGoesOn
  <2>2. CASE mem[p].peer = PM
    <3>1. message_wait(p, PM).pid = PM
      BY Shape DEF message_wait, SoundLib, LibType
    <3>2. /\ pc \in [Pid -> Points] /\ lib \in [Pid -> SoundLib] /\ mem \in [Pid -> SoundMem]
          /\ PM \in Pid /\ p # PM
      BY <1>1, Shape, Manager DEF Managing, ManagerPoints
    <3>3. /\ pc'[p] = "exit" /\ lib'[p].pid = PM /\ mem' = mem
          /\ \A x \in Pid \ {p} : pc'[x] = pc[x] /\ lib'[x] = lib[x]
      BY <1>3, <2>2, <3>1, <3>2 DEF Goto
    <3>4. p = Command
      <4>1. ~LeftBehind(p)
        BY <1>1 DEF LeftBehind
      <4>2. ASSUME Helper(p) PROVE FALSE
        <5>1. PICK c \in Pid : c = Command
          BY <4>2, CommandIsPid DEF Helper
        <5>2. parent[p] = c /\ pc[c] = "popen"
          BY <4>2, <5>1 DEF Helper
        <5> QED
          BY <1>1, <5>2 DEF Order, Discipline, Relatives, Gone
      <4> QED
        BY <1>1, <4>1, <4>2 DEF Attendance, Attended
    <3>5. ASSUME NEW x \in Pid, pc'[x] \in Working PROVE LeftBehind(x)'
      <4>1. CASE x = p
        BY <3>3, <4>1 DEF LeftBehind
      <4>2. CASE x # p
        <5>1. ~Helper(x)
          BY <1>1, <3>4 DEF Helper
        <5>2. LeftBehind(x)
          BY <3>3, <3>4, <3>5, <4>2, <5>1 DEF Attendance, Attended
        <5> QED
          BY <3>3, <4>2, <5>2 DEF LeftBehind
      <4> QED
        BY <4>1, <4>2
    <3>6. \A x \in Pid : ~Helper(x)'
      BY <3>3, <3>4 DEF Helper, Command
    <3>7. NoCommand'
      BY <3>2, <3>3 DEF Attendance, NoCommand, Command
    <3>8. (\A x \in Pid : Attended(x)') /\ OneHelper' /\ Dismissed'
      BY <3>5, <3>6 DEF Attended, OneHelper, Dismissed
    <3> QED
      BY <3>7, <3>8 DEF Attendance
  <2> QED
    BY <2>1, <2>2
<1> QED
  BY <1>2, <1>3 DEF pclose

LEMMA PrintedAttends ==
  ASSUME CalmInv, Attendance, NEW p \in Pid,
         AwaitInfo(p) \/ PrintInfo(p) \/ pspawn(p) \/ AwaitSpawn(p) \/ ExitCommand(p)
  PROVE  Attendance'
<1> USE DEF CalmInv
<1>1. pc[p] \in Working /\ ~Listening(p) /\ NoPid # PM
  BY DEF AwaitInfo, PrintInfo, pspawn, AwaitSpawn, ExitCommand, Ready, Working, CommandPoints, NoPid,
     PM, Listening
<1>2. CASE PrintInfo(p) \/ ExitCommand(p)
  BY <1>1, <1>2, LeaveAttends DEF PrintInfo, ExitCommand, Exit
<1>3. ASSUME Finish(p), pc[p] # "exit", sig' = sig, parent' = parent PROVE Attendance'
  BY <1>1, <1>3, FinishAttends
<1>4. ASSUME NEW point, NEW l, Goto(p, point, l, mem[p]), point # "popen", pc[p] # "exit",
             sig' = sig, parent' = parent
      PROVE  Attendance'
  BY <1>1, <1>4, CommandCarriesOn
<1>5. CASE AwaitInfo(p)
  BY <1>4, <1>5 DEF AwaitInfo, Ready
<1>6. CASE pspawn(p)
  BY <1>3, <1>4, <1>6 DEF pspawn, Ready
<1>7. CASE AwaitSpawn(p)
  BY <1>3, <1>4, <1>7 DEF AwaitSpawn, Ready
<1> QED
  BY <1>2, <1>5, <1>6, <1>7

LEMMA CommandAttends ==
  ASSUME CalmInv, Attendance, NEW p \in Pid, CommandStep(p)
  PROVE  Attendance'
BY StartAttends, PnewAttends, ListAttends, VictimAttends, CloseAttends, PrintedAttends DEF CommandStep

-----------------------------------------------------------------------------
(***************************************************************************)
(* pmanager.                                                               *)
(***************************************************************************)
LEMMA ServingAttends ==
  ASSUME CalmInv, Attendance, pc[PM] \in Managing,
         NEW point \in Managing \ {"readline", "cleanup"}, NEW l, NEW m, m.kid = mem[PM].kid,
         Goto(PM, point, l, m), sig' = sig, parent' = parent
  PROVE  Attendance'
<1> USE DEF CalmInv
<1>1. PM \in Pid
  BY Shape
<1>2. Follows(PM, point, m)
  BY <1>1 DEF Follows, Managing, ManagerPoints, Working, CommandPoints, Listening, Attendance, NoCommand
<1> QED
  BY <1>1, <1>2, GotoAttends DEF Managing, ManagerPoints

\* pmanager forks its next command.
LEMMA ForkCommandAttends ==
  ASSUME CalmInv, Attendance, pc[PM] \in {"readline", "cleanup"},
         NEW m \in MemType, NEW prog, NEW name, NEW to,
         exec_command(PM, m, prog, name, to), sig' = sig
  PROVE  Attendance'
<1> USE DEF CalmInv
<1> DEFINE m1 == [m EXCEPT !.kid = nextPid]
           kidMem == [NewCommand(prog, name, to) EXCEPT !.exiting = m.exiting, !.masked = m.masked]
<1>1. Fork(PM, "poll", lib[PM], m1, "exec", lib[PM], kidMem)
  BY DEF exec_command
<1>2. m1.kid = nextPid /\ kidMem.kid = NoPid /\ NoPid # PM
  BY DEF MemType, NewCommand, BlankMem, NoPid, PM
<1> HIDE DEF m1, kidMem
<1>3. PM \in Pid /\ pc[PM] \notin Gone
  BY Shape DEF Gone
<1>4. PICK k \in Pid : k = nextPid
  BY <1>1, <1>3, ForkFacts
<1>5. /\ k # PM /\ pc'[PM] = "poll" /\ pc'[k] = "exec" /\ mem'[PM] = m1 /\ mem'[k] = kidMem
      /\ \A x \in Pid \ {PM, k} : pc'[x] = pc[x] /\ lib'[x] = lib[x] /\ mem'[x] = mem[x]
  BY <1>1, <1>3, <1>4, ForkFacts
<1>6. Deserted /\ Command' = k
  BY <1>2, <1>4, <1>5, PromptDeserted DEF Attendance, NoCommand, Command
<1>7. ASSUME NEW x \in Pid, x # k, pc'[x] \in Working PROVE LeftBehind(x) /\ LeftBehind(x)'
  <2>1. x # PM
    BY <1>5, <1>7 DEF Working, CommandPoints
  <2> QED
    BY <1>5, <1>6, <1>7, <2>1 DEF Deserted, LeftBehind
<1>8. \A x \in Pid : Attended(x)'
  BY <1>6, <1>7 DEF Attended
<1>9. OneHelper'
  <2>1. \A x \in Pid : ~Helper(x)'
    BY <1>5, <1>6 DEF Helper
  <2> QED
    BY <2>1 DEF OneHelper
<1>10. sig[PM].term = NoPid
  <2>1. Busy(PM)
    <3>1. lib[PM].at \in CallPoints
      BY <1>3, Shape DEF SoundLib, LibType
    <3>2. lib[PM].at = "ret"
      BY <1>3, <3>1
      DEF Order, Discipline, CallsOpen, OpenAt, CallPoints, Sending, Answering, Receiving
    <3> QED
      BY <1>3, <3>2, Runnable
  <2>2. Only(PM, "busy")
    BY <1>3, <2>1, BusyAlone
  <2> QED
    BY <1>3, <2>2 DEF Only
<1>11. Dismissed'
  BY <1>10 DEF Dismissed
<1>12. NoCommand'
  BY <1>2, <1>4, <1>5, <1>6 DEF NoCommand, Attendance, Command
<1> QED
  BY <1>8, <1>9, <1>11, <1>12 DEF Attendance

LEMMA UserAttends ==
  ASSUME CalmInv, Attendance, ReadLine \/ EndOfInput
  PROVE  Attendance'
<1> USE DEF CalmInv
<1>1. /\ pc[PM] = "readline" /\ sig' = sig /\ PM \in Pid /\ mem[PM] \in MemType
  BY Shape DEF ReadLine, EndOfInput, Ready, SoundMem
<1>2. CASE Goto(PM, "cleanup", lib[PM], mem[PM]) /\ parent' = parent
  <2>1. Follows(PM, "cleanup", mem[PM])
    BY <1>1 DEF Follows, Working, CommandPoints, Listening, Attendance, NoCommand, Command
  <2> QED
    BY <1>1, <1>2, <2>1, GotoAttends
<1>3. CASE UNCHANGED <<pc, lib, mem, parent, nextPid>>
  <2>1. NoCommand'
    BY <1>3 DEF Attendance, NoCommand, Command
  <2>2. (\A x \in Pid : Attended(x)') /\ OneHelper' /\ Dismissed'
    BY <1>1, <1>3
    DEF Attendance, Attended, OneHelper, Dismissed, Helper, LeftBehind, Command
  <2> QED
    BY <2>1, <2>2 DEF Attendance
<1>4. CASE \E prog, name, to : exec_command(PM, mem[PM], prog, name, to)
  BY <1>1, <1>4, ForkCommandAttends
<1> QED
  BY <1>2, <1>3, <1>4 DEF ReadLine, EndOfInput

LEMMA ExecAttends ==
  ASSUME CalmInv, Attendance, NEW p \in Pid, ~CopyCleansUp(p), execvp(p)
  PROVE  Attendance'
<1> USE DEF CalmInv
<1> DEFINE m == [mem[p] EXCEPT !.exiting = FALSE]
<1>1. /\ pc[p] = "exec" /\ UNCHANGED <<sig, parent>>
      /\ pc[p] \in Working \ {"exit"} /\ ~Listening(p) /\ mem[p] \in MemType
  BY Shape DEF execvp, Ready, SoundMem, Working, Listening
<1>2. Goto(p, "start", BlankLib, m)
  BY <1>1, Shape DEF execvp, CopyCleansUp, Goto
<1>3. m.kid = mem[p].kid
  BY <1>1 DEF MemType
<1> HIDE DEF m
<1> QED
  BY <1>1, <1>2, <1>3, CommandCarriesOn

LEMMA ReapAttends ==
  ASSUME CalmInv, Attendance, NEW p \in Pid, WaitCommand(p)
  PROVE  Attendance'
<1> USE DEF CalmInv
<1>1. /\ pc[p] \in {"towait", "waitpid"} /\ p = PM /\ pc[PM] \notin Gone /\ pc[PM] \in Managing
      /\ PM \in Pid /\ mem[PM] \in MemType
  BY Manager, Shape DEF WaitCommand, Ready, Managing, ManagerPoints, Gone, SoundMem
<1>2. PICK k \in Pid : k = Command
  <2>1. mem[PM].kid # NoPid
    BY <1>1, Serving DEF Managing, ManagerPoints
  <2> QED
    BY <2>1, CommandIsPid DEF Command
<1>3. CASE pc[mem[p].kid] # "zombie"
  <2>1. Goto(p, "waitpid", lib[p], mem[p]) /\ UNCHANGED <<sig, parent>>
    BY <1>1, <1>3, GotoPoint DEF WaitCommand
  <2> QED
    BY <1>1, <2>1, ServingAttends DEF Managing, ManagerPoints
<1>4. ASSUME pc[k] = "zombie" PROVE Deserted
  <2>1. \A x \in Pid : ~Helper(x)
    BY <1>2, <1>4 DEF Helper
  <2> QED
    BY <1>2, <1>4, <2>1 DEF Deserted, Attendance, Attended, Working, CommandPoints
<1>5. CASE pc[mem[p].kid] = "zombie" /\ mem[p].exiting
  <2>1. ExitPrinting(PM, EndOfFile)
    BY <1>1, <1>5 DEF WaitCommand, EndManager, Exit
  <2>2. Deserted
    BY <1>1, <1>2, <1>4, <1>5 DEF Command
  <2> QED
    BY <1>1, <2>1, <2>2, ManagerAttends
<1>6. CASE pc[mem[p].kid] = "zombie" /\ ~mem[p].exiting
  <2>1. /\ pc' = [pc EXCEPT ![k] = "dead", ![PM] = "readline"]
        /\ mem' = [mem EXCEPT ![PM].kid = NoPid] /\ lib' = lib
    BY <1>1, <1>2, <1>6 DEF WaitCommand, Command
  <2>2. Deserted
    BY <1>1, <1>2, <1>4, <1>6 DEF Command
  <2>3. /\ pc \in [Pid -> Points] /\ mem \in [Pid -> SoundMem]
    BY Shape
  <2>4. mem'[PM].kid = NoPid /\ NoPid # PM /\ \A x \in Pid \ {PM} : mem'[x] = mem[x]
    BY <1>1, <2>1, <2>3 DEF MemType, NoPid, PM
  <2>5. ASSUME NEW x \in Pid, pc'[x] \in Working PROVE LeftBehind(x)'
    <3>1. x # PM /\ x # k /\ pc'[x] = pc[x]
      BY <1>1, <1>2, <2>1, <2>3, <2>5 DEF Working, CommandPoints
    <3> QED
      BY <2>1, <2>2, <2>5, <3>1 DEF Deserted, LeftBehind
  <2>6. NoCommand'
    BY <1>1, <2>4 DEF Attendance, NoCommand, Command
  <2> QED
    BY <2>4, <2>5, <2>6, DesertedAttends DEF Deserted
<1> QED
  BY <1>3, <1>5, <1>6

LEMMA CleanupAttends ==
  ASSUME CalmInv, Attendance, NEW p \in Pid, cleanup(p)
  PROVE  Attendance'
<1> USE DEF CalmInv
<1>1. /\ pc[p] = "cleanup" /\ p = PM /\ pc[PM] \notin Gone /\ mem[PM] \in MemType
  BY Manager, Shape DEF cleanup, Ready, Managing, ManagerPoints, Gone, SoundMem
<1>2. CASE /\ exec_command(p, [mem[p] EXCEPT !.exiting = TRUE], "prmall", pmanager, NoPid)
           /\ sig' = sig
  <2> DEFINE m == [mem[PM] EXCEPT !.exiting = TRUE]
  <2>1. m \in MemType
    BY <1>1 DEF MemType
  <2>2. exec_command(PM, m, "prmall", pmanager, NoPid)
    BY <1>1, <1>2
  <2> HIDE DEF m
  <2> QED
    BY <1>1, <1>2, <2>1, <2>2, ForkCommandAttends
<1>3. CASE EndManager(p)
  <2>1. ExitPrinting(PM, EndOfFile)
    BY <1>1, <1>3 DEF EndManager, Exit
  <2>2. Deserted
    BY <1>1, PromptDeserted DEF Attendance, NoCommand
  <2> QED
    BY <1>1, <2>1, <2>2, ManagerAttends
<1> QED
  BY <1>2, <1>3 DEF cleanup

LEMMA HandleAttends ==
  ASSUME CalmInv, Attendance, NEW p \in Pid,
         Poll(p) \/ AwaitAck(p) \/ message_handler(p) \/ GotAck(p)
  PROVE  Attendance'
<1> USE DEF CalmInv
<1>1. /\ pc[p] \in {"poll", "list_sent", "handle", "list_ack"} /\ p = PM /\ mem[PM] \in MemType
      /\ pc[PM] \in Managing
  BY Manager, Shape DEF Poll, AwaitAck, message_handler, GotAck, Ready, Managing, ManagerPoints, SoundMem
<1>2. ASSUME NEW point \in {"handle", "towait", "list_ack", "list_sent"}, NEW l, NEW m,
             m.kid = mem[PM].kid, Goto(PM, point, l, m), UNCHANGED <<sig, parent>>
      PROVE  Attendance'
  BY <1>1, <1>2, ServingAttends DEF Managing, ManagerPoints
<1>3. CASE Poll(p)
  BY <1>1, <1>2, <1>3 DEF Poll
<1>4. CASE AwaitAck(p)
  BY <1>1, <1>2, <1>4 DEF AwaitAck
<1>5. ASSUME NEW to, NEW procs, SendNode(PM, to, procs) PROVE Attendance'
  <2>1. PICK l : /\ Goto(PM, "list_sent", l, [mem[PM] EXCEPT !.peer = to, !.procs = Tail(procs)])
                 /\ UNCHANGED <<sig, parent>>
    BY <1>5 DEF SendNode
  <2>2. [mem[PM] EXCEPT !.peer = to, !.procs = Tail(procs)].kid = mem[PM].kid
    BY <1>1 DEF MemType
  <2> QED
    BY <1>2, <2>1, <2>2
<1>6. ASSUME NEW to, NEW type, NEW content, Answer(PM, to, type, content) PROVE Attendance'
  BY <1>2, <1>6 DEF Answer
<1>7. CASE GotAck(p)
  <2>1. [mem[PM] EXCEPT !.peer = NoPid].kid = mem[PM].kid
    BY <1>1 DEF MemType
  <2> QED
    BY <1>1, <1>2, <1>5, <1>7, <2>1 DEF GotAck
<1>8. CASE message_handler(p)
  BY <1>1, <1>2, <1>5, <1>6, <1>8
  DEF message_handler, msg_add_handler, msg_info_handler, msg_remove_handler, msg_list_handler
<1> QED
  BY <1>3, <1>4, <1>7, <1>8

-----------------------------------------------------------------------------
LEMMA InitAttends == Init => Attendance
<1> SUFFICES ASSUME Init PROVE Attendance
  OBVIOUS
<1>1. PM \in Pid
  BY PidFacts
<1>2. /\ \A x \in Pid : pc[x] \notin Working /\ mem[x].kid = NoPid
      /\ NoPid # PM
  BY <1>1 DEF Init, Working, CommandPoints, NewCommand, BlankMem, NoPid, PM
<1> QED
  BY <1>1, <1>2 DEF Attendance, Attended, OneHelper, Dismissed, NoCommand, Command

LEMMA StepAttendance == CalmInv /\ Attendance /\ [Next /\ ~Incident]_vars => Attendance'
<1> SUFFICES ASSUME CalmInv, Attendance, [Next /\ ~Incident]_vars PROVE Attendance'
  OBVIOUS
<1>1. CASE UNCHANGED vars
  BY <1>1
  DEF vars, Attendance, Attended, OneHelper, Dismissed, NoCommand, Helper, LeftBehind, Command
<1>2. CASE Next /\ ~Incident
  <2>1. \A p \in Pid : ~CloneRefused(p) /\ ~CopyCleansUp(p)
    BY <1>2 DEF Incident
  <2>2. CASE UserStep
    BY <2>2, UserAttends DEF UserStep
  <2>3. ASSUME NEW p \in Pid, ProcessStep(p)
        PROVE  Attendance'
    <3>1. pc[p] \notin Gone
      BY <2>3 DEF ProcessStep, Runs, Alive
    <3>2. CASE MessageStep(p) \/ ChildStep(p) \/ CommandStep(p)
      BY <3>1, <3>2, MessageAttends, ChildAttends, CommandAttends
    <3>3. CASE ManagerStep(p)
      BY <2>1, <3>3, ExecAttends, ReapAttends, CleanupAttends, HandleAttends DEF ManagerStep
    <3> QED
      BY <2>3, <3>2, <3>3 DEF ProcessStep
  <2>4. ASSUME NEW p \in Pid, SignalStep(p)
        PROVE  Attendance'
    BY <2>4, SignalAttends
  <2> QED
    BY <1>2, <2>2, <2>3, <2>4 DEF Next, Incident
<1> QED
  BY <1>1, <1>2

\* pmanager attends to one command at a time: until an incident, a program at work
\* is the command waitpid() waits for, or the pinfo that command waits for, or has
\* no more to say to anyone.
THEOREM AttendsToOne == CalmSpec => []Attendance
<1>1. CalmSpec => []CalmInv
  BY CalmInvHolds
<1> QED
  BY <1>1, InitAttends, StepAttendance, PTL DEF CalmSpec

-----------------------------------------------------------------------------
(***************************************************************************)
(* Whoever has called a managed process waits for it.                      *)
(***************************************************************************)
\* Those who wait go on waiting.
ClientsStay ==
  \A c, q \in Pid :
    /\ TermClient(c, q) => TermClient(c, q)'
    /\ SpawnClient(c, q) => SpawnClient(c, q)'

\* x is asked for nothing more.
Unasked(x) ==
  /\ sig'[x].term \in {NoPid, sig[x].term}
  /\ mem'[x].sigterm_flag = 1 /\ pc'[x] \notin Terminating =>
       /\ mem[x].sigterm_flag = 1 /\ pc[x] \notin Terminating
       /\ mem'[x].sigterm_sender = mem[x].sigterm_sender
  /\ pc'[x] \in Leaving => pc[x] \in Leaving /\ mem'[x].sigterm_sender = mem[x].sigterm_sender
  /\ pc'[x] \in CloneWork => pc[x] \in CloneWork /\ mem'[x].peer = mem[x].peer

\* x tells nobody but pmanager of anything.
Discreet(x) ==
  pc'[x] \in Engaged =>
    /\ pc[x] \in Engaged
    /\ lib'[x].at \in {"write", "kill"} => lib'[x].pid = PM
    /\ \A c \in Pid \ {PM} : Told(c, x)' => Told(c, x)

LEMMA ClientIsPid ==
  ASSUME NEW c, NEW q, TermClient(c, q) \/ SpawnClient(c, q)
  PROVE  c \in Pid
  BY DEF TermClient, SpawnClient

LEMMA AskedStays ==
  ASSUME ClientsStay, NEW x \in Pid, Asked(x), Unasked(x)
  PROVE  Asked(x)'
<1>1. ASSUME NEW c, TermClient(c, x) PROVE TermClient(c, x)'
  BY <1>1, ClientIsPid DEF ClientsStay
<1>2. ASSUME NEW c, SpawnClient(c, x) PROVE SpawnClient(c, x)'
  BY <1>2, ClientIsPid DEF ClientsStay
<1>3. PICK t, s, r : t = sig[x].term /\ s = mem[x].sigterm_sender /\ r = mem[x].peer
  OBVIOUS
<1>4. sig'[x].term # NoPid => TermClient(t, x)' /\ sig'[x].term = t
  BY <1>1, <1>3 DEF Asked, Unasked
<1>5. mem'[x].sigterm_flag = 1 /\ pc'[x] \notin Terminating =>
        TermClient(s, x)' /\ mem'[x].sigterm_sender = s
  BY <1>1, <1>3 DEF Asked, Unasked
<1>6. pc'[x] \in Leaving => TermClient(s, x)' /\ mem'[x].sigterm_sender = s
  BY <1>1, <1>3 DEF Asked, Unasked
<1>7. pc'[x] \in CloneWork => SpawnClient(r, x)' /\ mem'[x].peer = r
  BY <1>2, <1>3 DEF Asked, Unasked
<1> QED
  BY <1>4, <1>5, <1>6, <1>7 DEF Asked, TermClient, SpawnClient, Waiting

LEMMA ReportsStay ==
  ASSUME NEW x \in Pid, Reports(x), Discreet(x)
  PROVE  Reports(x)'
  BY DEF Reports, Discreet, Told

LEMMA OrderStays ==
  ASSUME ClientsStay, NEW parcel, Ordered(parcel),
         \A x \in Pid : pc'[x] \in Family => pc[x] \in Family
  PROVE  Ordered(parcel)'
<1>1. PICK s, to : parcel.msg # NULL => s = parcel.msg.sender /\ to = parcel.to
  OBVIOUS
<1>2. SpawnClient(s, to) /\ to \in Pid => SpawnClient(s, to)'
  BY ClientIsPid DEF ClientsStay
<1> QED
  BY <1>1, <1>2 DEF Ordered, SpawnClient, TermClient, Waiting

\* A step keeps the service going when nobody stops waiting, nobody is asked who is
\* not waited for, and nothing is written that nobody waits for.
LEMMA ServiceStays ==
  ASSUME Service, ClientsStay,
         \A x \in Pid : Unasked(x) \/ Asked(x)',
         \A x \in Pid : Discreet(x) \/ Reports(x)',
         \A x \in Pid : pc'[x] \in Family => pc[x] \in Family,
         \A x \in Pid : JustRead(x)',
         \A parcel \in Parcels' : parcel \in Parcels \/ Ordered(parcel)'
  PROVE  Service'
<1>1. \A x \in Pid : Asked(x)'
  BY AskedStays DEF Service
<1>2. \A x \in Pid : Reports(x)'
  BY ReportsStay DEF Service
<1>3. \A parcel \in Parcels' : Ordered(parcel)'
  BY OrderStays DEF Service
<1> QED
  BY <1>1, <1>2, <1>3 DEF Service

-----------------------------------------------------------------------------
\* p waits for nobody's answer.
NoClient(p) == \A q : ~TermClient(p, q) /\ ~SpawnClient(p, q)

\* p does not stop waiting for an answer.
StillClient(p) ==
  \A q \in Pid :
    /\ TermClient(p, q) => TermClient(p, q)'
    /\ SpawnClient(p, q) => SpawnClient(p, q)'

LEMMA ReadyNoClient ==
  ASSUME NEW p \in Pid, lib[p].at = "ret", pc[p] # "spawn_sent" \/ lib[p].status # 0
  PROVE  NoClient(p)
  BY DEF NoClient, TermClient, SpawnClient, Waiting

\* What a step of p's program to `point' with memories l and m makes of the
\* requests p serves.
ServePoint(p, point, l, m) ==
  /\ point \in Family => pc[p] \in Family
  /\ point = "got" => l.at \notin {"check", "suspend", "asleep"}
  /\ m.sigterm_flag = 1 /\ point \notin Terminating =>
       /\ mem[p].sigterm_flag = 1 /\ pc[p] \notin Terminating
       /\ m.sigterm_sender = mem[p].sigterm_sender
  /\ point \in Leaving =>
       /\ \/ pc[p] \in Leaving
          \/ mem[p].sigterm_flag = 1 /\ pc[p] \notin Terminating
       /\ m.sigterm_sender = mem[p].sigterm_sender
  /\ point \in CloneWork =>
       \/ pc[p] \in CloneWork /\ m.peer = mem[p].peer
       \/ SpawnClient(m.peer, p)
  /\ point \in Engaged =>
       /\ l.at # "kill" /\ (l.at = "write" => l.pid = PM)
       /\ pc[p] \in Engaged \/ \A c \in Pid \ {PM} : ~Told(c, p)
  /\ l.unread_flag =>
       \/ p = PM
       \/ lib[p].unread_flag /\ lib[p].at # "reset" /\ l.message_sender = lib[p].message_sender

\* p writes no MSG_SPAWN.
Orderly(l) ==
  l.at = "write" /\ \A parcel : parcel = Parcel(l.pid, MessageOf(l.text)) => Ordered(parcel)'

\* SIGTERM is sent by p, which is going to wait for the answer.
TermsClient(p, point, l) ==
  \/ UNCHANGED sig
  \/ \E q : PostTerm(q, p) /\ point \in {"exit", "rm_next"} /\ l.at = "check" /\ l.pid = q

LEMMA PostedTerm ==
  ASSUME TypeInv, NEW p \in Pid, NEW q, PostTerm(q, p)
  PROVE  /\ \A x \in Pid : sig'[x].usr1 = sig[x].usr1
         /\ \A x \in Pid \ {q} : sig'[x].term = sig[x].term
         /\ q \in Pid => sig'[q].term \in {p, sig[q].term}
  BY Shape DEF PostTerm, SignalType

LEMMA GotoServes ==
  ASSUME CalmInv, Service, NEW p \in Pid, NEW point, NEW l, NEW m, Goto(p, point, l, m),
         fifo' = fifo, NoClient(p) \/ StillClient(p), ServePoint(p, point, l, m), TermsClient(p, point, l),
         Empty(point, l) \/ Orderly(l)
  PROVE  Service'
<1>1. /\ pc'[p] = point /\ lib'[p] = l /\ mem'[p] = m
      /\ \A x \in Pid \ {p} : pc'[x] = pc[x] /\ lib'[x] = lib[x] /\ mem'[x] = mem[x]
      /\ PM \in Pid /\ TypeInv
  BY Shape DEF CalmInv, Goto
<1>2. \A x \in Pid : sig'[x].usr1 = sig[x].usr1
  BY <1>1, PostedTerm DEF TermsClient
<1>3. ClientsStay
  <2>1. ASSUME NEW c \in Pid \ {p}, NEW q \in Pid
        PROVE  /\ TermClient(c, q) => TermClient(c, q)'
               /\ SpawnClient(c, q) => SpawnClient(c, q)'
    BY <1>1 DEF TermClient, SpawnClient, Waiting
  <2> QED
    BY <2>1 DEF ClientsStay, NoClient, StillClient
<1>4. ASSUME NEW c \in Pid \ {PM}, NEW x \in Pid, Told(c, x)' PROVE Told(c, x)
  <2>1. CASE c = p
    BY <1>1, <1>2, <1>4, <2>1 DEF Told, ServePoint
  <2>2. CASE c # p
    BY <1>1, <1>2, <1>4, <2>2 DEF Told
  <2> QED
    BY <2>1, <2>2
<1>5. ASSUME NEW x \in Pid PROVE Discreet(x) \/ Reports(x)'
  <2>1. CASE x = p
    <3>1. ASSUME point \in Engaged
          PROVE  /\ l.at \in {"write", "kill"} => l.pid = PM
                 /\ \A c \in Pid \ {PM} : ~Told(c, p)'
      <4>1. \A c \in Pid \ {PM} : ~Told(c, p)
        BY <3>1 DEF ServePoint, Service, Reports
      <4>2. \A c \in Pid \ {PM} : ~Told(c, p)'
        BY <1>4, <4>1
      <4>3. l.at \in {"write", "kill"} => l.pid = PM
        BY <3>1 DEF ServePoint
      <4> QED
        BY <4>2, <4>3
    <3> QED
      BY <1>1, <2>1, <3>1 DEF Reports, Told
  <2>2. CASE x # p
    <3>1. pc'[x] \in Engaged => (lib[x].at \in {"write", "kill"} => lib[x].pid = PM)
      BY <1>1, <2>2 DEF Service, Reports
    <3> QED
      BY <1>1, <1>4, <2>2, <3>1 DEF Discreet
  <2> QED
    BY <2>1, <2>2
<1>6. ASSUME NEW q, PostTerm(q, p), q \in Pid, point \in {"exit", "rm_next"}, l.at = "check", l.pid = q
      PROVE  sig'[q].term # sig[q].term => sig'[q].term = p /\ TermClient(p, q)'
  <2>1. sig'[q].term \in {p, sig[q].term}
    BY <1>1, <1>6, PostedTerm
  <2>2. TermClient(p, q)'
    BY <1>1, <1>6 DEF TermClient, Waiting
  <2> QED
    BY <2>1, <2>2
<1>7. ASSUME NEW x \in Pid PROVE Unasked(x) \/ Asked(x)'
  <2>1. Asked(x)
    BY DEF Service
  <2>2. /\ sig'[x].term # NoPid /\ sig'[x].term # sig[x].term => sig'[x].term = p /\ TermClient(p, x)'
    BY <1>1, <1>6, PostedTerm DEF TermsClient
  <2>3. PICK t : t = sig[x].term
    OBVIOUS
  <2>4. t # NoPid => TermClient(t, x)'
    BY <1>3, <2>1, <2>3, ClientIsPid DEF ClientsStay, Asked
  <2>5. CASE x = p
    <3>1. PICK s, r, r2 : s = mem[p].sigterm_sender /\ r = m.peer /\ r2 = mem[p].peer
      OBVIOUS
    <3>2. \A c : /\ TermClient(c, p) => TermClient(c, p)'
                 /\ SpawnClient(c, p) => SpawnClient(c, p)'
      BY <1>3, ClientIsPid DEF ClientsStay
    <3>3. m.sigterm_flag = 1 /\ point \notin Terminating => m.sigterm_sender = s /\ TermClient(s, p)'
      BY <2>1, <2>5, <3>1, <3>2 DEF ServePoint, Asked
    <3>4. point \in Leaving => m.sigterm_sender = s /\ TermClient(s, p)'
      BY <2>1, <2>5, <3>1, <3>2 DEF ServePoint, Asked
    <3>5. point \in CloneWork => SpawnClient(r, p)'
      BY <2>1, <2>5, <3>1, <3>2 DEF ServePoint, Asked
    <3>6. sig'[p].term # NoPid =>
            \/ sig'[p].term = t /\ TermClient(t, p)'
            \/ sig'[p].term = p /\ TermClient(p, p)'
      BY <2>2, <2>3, <2>4, <2>5
    <3> QED
      BY <1>1, <2>5, <3>1, <3>3, <3>4, <3>5, <3>6 DEF Asked, TermClient, SpawnClient, Waiting
  <2>6. CASE x # p
    <3>1. CASE sig'[x].term \in {NoPid, sig[x].term}
      BY <1>1, <2>6, <3>1 DEF Unasked
    <3>2. CASE sig'[x].term \notin {NoPid, sig[x].term}
      <4>1. PICK s, r : s = mem[x].sigterm_sender /\ r = mem[x].peer
        OBVIOUS
      <4>2. \A c : /\ TermClient(c, x) => TermClient(c, x)'
                   /\ SpawnClient(c, x) => SpawnClient(c, x)'
        BY <1>3, ClientIsPid DEF ClientsStay
      <4>3. pc'[x] = pc[x] /\ mem'[x] = mem[x]
        BY <1>1, <2>6
      <4>4. /\ mem[x].sigterm_flag = 1 /\ pc[x] \notin Terminating => TermClient(s, x)'
            /\ pc[x] \in Leaving => TermClient(s, x)'
            /\ pc[x] \in CloneWork => SpawnClient(r, x)'
        BY <2>1, <4>1, <4>2 DEF Asked
      <4>5. sig'[x].term = p /\ TermClient(p, x)'
        BY <2>2, <3>2
      <4> QED
        BY <4>1, <4>3, <4>4, <4>5 DEF Asked, TermClient, SpawnClient, Waiting
    <3> QED
      BY <3>1, <3>2
  <2> QED
    BY <2>5, <2>6
<1>8. \A x \in Pid : pc'[x] \in Family => pc[x] \in Family
  BY <1>1 DEF ServePoint
<1>9. \A x \in Pid : JustRead(x)'
  BY <1>1 DEF Service, JustRead, Waiting, ServePoint
<1>10. ASSUME NEW parcel \in Parcels' PROVE parcel \in Parcels \/ Ordered(parcel)'
  <2>1. OnItsWay' = OnItsWay
    BY DEF OnItsWay
  <2>2. \A x \in Pid \ {p} : Carried(x)' = Carried(x)
    BY <1>1 DEF Carried
  <2>3. CASE Empty(point, l)
    <3>1. Carried(p)' = {}
      BY <1>1, <2>3, EmptyCarries
    <3> QED
      BY <2>1, <2>2, <3>1 DEF Parcels
  <2>4. CASE Orderly(l)
    <3>1. Carried(p)' = {Parcel(l.pid, MessageOf(l.text))}
      BY <1>1, <2>4 DEF Carried, Orderly
    <3>2. \A q \in Carried(p)' : Ordered(q)'
      BY <2>4, <3>1 DEF Orderly
    <3> QED
      BY <2>1, <2>2, <3>2 DEF Parcels
  <2> QED
    BY <2>3, <2>4
<1> QED
  BY <1>3, <1>5, <1>7, <1>8, <1>9, <1>10, ServiceStays

\* The process p forks has been asked for nothing.
LEMMA ForkServes ==
  ASSUME CalmInv, Service, NEW p \in Pid, pc[p] \notin Gone, NEW point, NEW l, NEW m,
         NEW kidPoint, NEW kidLib, NEW kidMem,
         Fork(p, point, l, m, kidPoint, kidLib, kidMem),
         UNCHANGED <<sig, fifo>>, NoClient(p), ServePoint(p, point, l, m),
         kidPoint \in {"exec", "start", "boot", "loop"}, kidLib.at = "ret", ~kidLib.unread_flag,
         kidMem.sigterm_flag # 1,
         Empty(point, l) \/ Orderly(l)
  PROVE  Service'
<1>0. PICK kid : kid = nextPid
  OBVIOUS
<1>1. /\ kid \in Pid /\ kid # p /\ kid # PM /\ pc[kid] = "unborn" /\ PM \in Pid
      /\ pc'[p] = point /\ pc'[kid] = kidPoint
      /\ lib'[p] = l /\ lib'[kid] = kidLib
      /\ mem'[p] = m /\ mem'[kid] = kidMem
      /\ \A x \in Pid \ {p, kid} : pc'[x] = pc[x] /\ lib'[x] = lib[x] /\ mem'[x] = mem[x]
  BY <1>0, ForkFacts, Shape DEF CalmInv
<1>2. sig[kid] = NoSignals
  BY <1>1 DEF CalmInv, Order, Discipline, CallsOpen, Gone
<1>3. ClientsStay
  <2>1. ASSUME NEW c \in Pid \ {p, kid}, NEW q \in Pid
        PROVE  /\ TermClient(c, q) => TermClient(c, q)'
               /\ SpawnClient(c, q) => SpawnClient(c, q)'
    BY <1>1 DEF TermClient, SpawnClient, Waiting
  <2>2. \A q : ~TermClient(kid, q) /\ ~SpawnClient(kid, q)
    BY <1>1 DEF TermClient, SpawnClient
  <2> QED
    BY <2>1, <2>2 DEF ClientsStay, NoClient
<1>4. ASSUME NEW c \in Pid \ {PM}, NEW x \in Pid, Told(c, x)' PROVE Told(c, x)
  <2>1. CASE c = p
    BY <1>1, <1>4, <2>1 DEF Told, ServePoint
  <2>2. CASE c = kid
    BY <1>1, <1>2, <1>4, <2>2 DEF Told, NoSignals, NoPid, Pid
  <2>3. CASE c \notin {p, kid}
    BY <1>1, <1>4, <2>3 DEF Told
  <2> QED
    BY <2>1, <2>2, <2>3
<1>5. ASSUME NEW x \in Pid PROVE Discreet(x) \/ Reports(x)'
  <2>1. CASE x = p
    <3>1. ASSUME point \in Engaged
          PROVE  /\ l.at \in {"write", "kill"} => l.pid = PM
                 /\ \A c \in Pid \ {PM} : ~Told(c, p)'
      <4>1. \A c \in Pid \ {PM} : ~Told(c, p)
        BY <3>1 DEF ServePoint, Service, Reports
      <4>2. \A c \in Pid \ {PM} : ~Told(c, p)'
        BY <1>4, <4>1
      <4>3. l.at \in {"write", "kill"} => l.pid = PM
        BY <3>1 DEF ServePoint
      <4> QED
        BY <4>2, <4>3
    <3> QED
      BY <1>1, <2>1, <3>1 DEF Reports, Told
  <2>2. CASE x = kid
    BY <1>1, <2>2 DEF Discreet, Engaged, Leaving, CloneWork, Cloning
  <2>3. CASE x \notin {p, kid}
    <3>1. pc'[x] \in Engaged => (lib[x].at \in {"write", "kill"} => lib[x].pid = PM)
      BY <1>1, <2>3 DEF Service, Reports
    <3> QED
      BY <1>1, <1>4, <2>3, <3>1 DEF Discreet
  <2> QED
    BY <2>1, <2>2, <2>3
<1>6. ASSUME NEW x \in Pid PROVE Unasked(x) \/ Asked(x)'
  <2>1. Asked(x)
    BY DEF Service
  <2>2. CASE x = p
    <3>1. PICK t, s, r : t = sig[p].term /\ s = mem[p].sigterm_sender /\ r = m.peer
      OBVIOUS
    <3>2. \A c : /\ TermClient(c, p) => TermClient(c, p)'
                 /\ SpawnClient(c, p) => SpawnClient(c, p)'
      BY <1>3, ClientIsPid DEF ClientsStay
    <3>3. m.sigterm_flag = 1 /\ point \notin Terminating => m.sigterm_sender = s /\ TermClient(s, p)'
      BY <2>1, <2>2, <3>1, <3>2 DEF ServePoint, Asked
    <3>4. point \in Leaving => m.sigterm_sender = s /\ TermClient(s, p)'
      BY <2>1, <2>2, <3>1, <3>2 DEF ServePoint, Asked
    <3>5. point \in CloneWork => SpawnClient(r, p)'
      BY <2>1, <2>2, <3>1, <3>2 DEF ServePoint, Asked
    <3>6. sig'[p].term = t /\ (t # NoPid => TermClient(t, p)')
      BY <2>1, <2>2, <3>1, <3>2 DEF Asked
    <3> QED
      BY <1>1, <2>2, <3>1, <3>3, <3>4, <3>5, <3>6 DEF Asked, TermClient, SpawnClient, Waiting
  <2>3. CASE x = kid
    BY <1>1, <1>2, <2>3 DEF Unasked, NoSignals, CloneWork, Leaving, Cloning
  <2>4. CASE x \notin {p, kid}
    BY <1>1, <2>4 DEF Unasked
  <2> QED
    BY <2>2, <2>3, <2>4
<1>7. \A x \in Pid : pc'[x] \in Family => pc[x] \in Family
  BY <1>1 DEF ServePoint, Family
<1>8. \A x \in Pid : JustRead(x)'
  BY <1>1 DEF Service, JustRead, Waiting, ServePoint
<1>9. ASSUME NEW parcel \in Parcels' PROVE parcel \in Parcels \/ Ordered(parcel)'
  <2>1. OnItsWay' = OnItsWay
    BY DEF OnItsWay
  <2>2. \A x \in Pid \ {p, kid} : Carried(x)' = Carried(x)
    BY <1>1 DEF Carried
  <2>3. Carried(kid)' = {}
    BY <1>1, EmptyCarries DEF Empty, Reading
  <2>4. CASE Empty(point, l)
    <3>1. Carried(p)' = {}
      BY <1>1, <2>4, EmptyCarries
    <3> QED
      BY <2>1, <2>2, <2>3, <3>1 DEF Parcels
  <2>5. CASE Orderly(l)
    <3>1. Carried(p)' = {Parcel(l.pid, MessageOf(l.text))}
      BY <1>1, <2>5 DEF Carried, Orderly
    <3>2. \A q \in Carried(p)' : Ordered(q)'
      BY <2>5, <3>1 DEF Orderly
    <3> QED
      BY <2>1, <2>2, <2>3, <3>2 DEF Parcels
  <2> QED
    BY <2>4, <2>5
<1> QED
  BY <1>3, <1>5, <1>6, <1>7, <1>8, <1>9, ServiceStays

\* p ends, and leaves nobody waiting who has not been waiting before.
LEMMA ExitServes ==
  ASSUME CalmInv, Service, NEW p \in Pid, pc[p] \notin Gone, NEW output, ExitPrinting(p, output),
         fifo' = fifo, NoClient(p)
  PROVE  Service'
<1>1. Ended(p, output) /\ PM \in Pid
  BY ExitFacts, Shape DEF CalmInv
<1>2. /\ pc'[p] \in {"zombie", "dead"} /\ lib'[p] = BlankLib /\ sig'[p] = NoSignals /\ mem'[p] = BlankMem
      /\ \A x \in Pid \ {p} :
           /\ pc'[x] = pc[x] \/ (pc[x] = "zombie" /\ pc'[x] = "dead")
           /\ lib'[x] = lib[x] /\ sig'[x].usr1 = sig[x].usr1 /\ sig'[x].term = sig[x].term
           /\ mem'[x] = mem[x] \/ pc[x] = "popen"
           /\ mem'[x].sigterm_flag = mem[x].sigterm_flag
           /\ mem'[x].sigterm_sender = mem[x].sigterm_sender
  <2>1. ASSUME NEW x \in Pid \ {p}
        PROVE  /\ mem'[x] = mem[x] \/ pc[x] = "popen"
               /\ mem'[x].sigterm_flag = mem[x].sigterm_flag
               /\ mem'[x].sigterm_sender = mem[x].sigterm_sender
    <3>1. mem[x] \in MemType
      BY Shape DEF CalmInv, SoundMem
    <3>2. \/ mem'[x] = mem[x]
          \/ pc[x] = "popen" /\ mem'[x] = [mem[x] EXCEPT !.peer = output]
      BY <1>1 DEF Ended
    <3> QED
      BY <3>1, <3>2 DEF MemType
  <2>2. pc'[p] \in {"zombie", "dead"} /\ lib'[p] = BlankLib /\ sig'[p] = NoSignals /\ mem'[p] = BlankMem
    BY <1>1 DEF Ended
  <2>3. \A x \in Pid \ {p} :
           /\ pc'[x] = pc[x] \/ (pc[x] = "zombie" /\ pc'[x] = "dead")
           /\ lib'[x] = lib[x] /\ sig'[x].usr1 = sig[x].usr1 /\ sig'[x].term = sig[x].term
    BY <1>1 DEF Ended
  <2> QED
    BY <2>1, <2>2, <2>3
<1>3. ClientsStay
  <2>1. ASSUME NEW c \in Pid \ {p}, NEW q \in Pid
        PROVE  /\ TermClient(c, q) => TermClient(c, q)'
               /\ SpawnClient(c, q) => SpawnClient(c, q)'
    BY <1>2 DEF TermClient, SpawnClient, Waiting
  <2> QED
    BY <2>1 DEF ClientsStay, NoClient
<1>4. \A c, x \in Pid : Told(c, x)' => Told(c, x)
  BY <1>2 DEF Told, NoSignals, BlankLib, NoPid, Pid
<1>5. ASSUME NEW x \in Pid PROVE Discreet(x)
  <2>1. CASE x = p
    BY <1>2, <2>1 DEF Discreet, Engaged, Leaving, CloneWork, Cloning
  <2>2. CASE x # p
    BY <1>2, <1>4, <2>2 DEF Discreet, Service, Reports, Engaged, Leaving, CloneWork, Cloning
  <2> QED
    BY <2>1, <2>2
<1>6. ASSUME NEW x \in Pid PROVE Unasked(x)
  <2>1. CASE x = p
    BY <1>2, <2>1 DEF Unasked, NoSignals, BlankMem, Leaving, CloneWork, Cloning
  <2>2. CASE x # p
    BY <1>2, <2>2 DEF Unasked, Leaving, CloneWork, Cloning, Terminating
  <2> QED
    BY <2>1, <2>2
<1>7. \A x \in Pid : pc'[x] \in Family => pc[x] \in Family
  BY <1>2 DEF Family, ChildPoints
<1>8. \A x \in Pid : JustRead(x)'
  BY <1>2 DEF Service, JustRead, Waiting
<1>9. Parcels' \subseteq Parcels
  <2>1. OnItsWay' = OnItsWay
    BY DEF OnItsWay
  <2>2. Carried(p)' = {}
    BY <1>2 DEF Carried, BlankLib, Reading
  <2>3. \A x \in Pid \ {p} : Carried(x)' \subseteq Carried(x)
    BY <1>2 DEF Carried, Reading
  <2> QED
    BY <2>1, <2>2, <2>3 DEF Parcels
<1> QED
  BY <1>3, <1>5, <1>6, <1>7, <1>8, <1>9, ServiceStays

-----------------------------------------------------------------------------
(***************************************************************************)
(* The managed processes.                                                  *)
(***************************************************************************)
LEMMA Untold ==
  ASSUME NEW q, NEW d, d \notin {"usr1", "unread"}, Only(q, d), NEW p \in Pid
  PROVE  \A c \in Pid : ~Told(c, p)
  BY DEF Only, Told, NoPid, Pid

LEMMA OrderlySend ==
  ASSUME TypeInv, NEW p \in Pid, NEW to, NEW type \in MsgType \ {MSG_SPAWN}, NEW content \in Str
  PROVE  Orderly(message_send(p, to, type, content))
<1>1. PICK l : l = message_send(p, to, type, content)
  OBVIOUS
<1>2. l.at = "write" /\ l.pid = to /\ l.text = MessageText(p, type, content)
  BY <1>1, SendCall
<1>3. p \in Nat
  BY DEF Pid
<1>4. ASSUME NEW parcel, parcel = Parcel(to, MessageOf(MessageText(p, type, content))), parcel.msg # NULL
      PROVE  parcel.msg.type = type
  <2>1. parcel.msg = MessageOf(MessageText(p, type, content))
    BY <1>4 DEF Parcel
  <2> QED
    BY <1>3, <1>4, <2>1, Arrives
<1> QED
  BY <1>1, <1>2, <1>4 DEF Orderly, Ordered

LEMMA OrderlyTypes ==
  ASSUME TypeInv, NEW p \in Pid
  PROVE  /\ \A to : \A type \in {MSG_ADD, MSG_REMOVE, MSG_INFO, MSG_ERROR, MSG_SUCCESS, MSG_LIST} :
              Orderly(message_send(p, to, type, <<Pad>>))
         /\ \A to : Orderly(resume_process(p, to))
         /\ {MSG_ADD, MSG_REMOVE, MSG_INFO, MSG_ERROR, MSG_SUCCESS, MSG_LIST} \subseteq MsgType \ {MSG_SPAWN}
<1>1. {MSG_ADD, MSG_REMOVE, MSG_INFO, MSG_ERROR, MSG_SUCCESS, MSG_LIST} \subseteq MsgType \ {MSG_SPAWN}
  BY AtomAssumption DEF MsgType
<1>2. \A to : \A type \in {MSG_ADD, MSG_REMOVE, MSG_INFO, MSG_ERROR, MSG_SUCCESS, MSG_LIST} :
        Orderly(message_send(p, to, type, <<Pad>>))
  BY <1>1, Contents, OrderlySend
<1> QED
  BY <1>1, <1>2 DEF resume_process

\* A process goes on with the request it serves, or ends it.
LEMMA ChildServes ==
  ASSUME CalmInv, Service, NEW p \in Pid, pc[p] \in ChildPoints \union {"boot"}, lib[p].at = "ret",
         NEW point \in ChildPoints \ {"got"}, NEW l, NEW m, Goto(p, point, l, m),
         UNCHANGED <<sig, fifo>>, Begins(p, l),
         m.sigterm_flag = 1 /\ point \notin Terminating =>
           /\ mem[p].sigterm_flag = 1 /\ pc[p] \notin Terminating
           /\ m.sigterm_sender = mem[p].sigterm_sender,
         point \in Engaged =>
           /\ pc[p] \in Engaged /\ (pc[p] \in Leaving <=> point \in Leaving)
           /\ m.sigterm_sender = mem[p].sigterm_sender /\ m.peer = mem[p].peer
           /\ l.at # "write",
         Empty(point, l) \/ Orderly(l)
  PROVE  Service'
<1>0. point \in CloneWork => point \notin Leaving
  BY DEF CloneWork, Cloning, Leaving
<1>1. ServePoint(p, point, l, m)
  BY <1>0 DEF ServePoint, Begins, Engaged, Family
<1>2. NoClient(p)
  BY ReadyNoClient DEF ChildPoints
<1> QED
  BY <1>1, <1>2, GotoServes DEF TermsClient

LEMMA SleepServes ==
  ASSUME CalmInv, TextInv, Service, NEW p \in Pid,
         RegisterHandlers(p) \/ Sleep(p) \/ CheckSigtermFlag(p) \/ CheckUnreadFlag(p)
  PROVE  Service'
<1>0. TypeInv
  BY DEF CalmInv
<1>1. CASE RegisterHandlers(p) \/ Sleep(p)
  <2>1. PICK point \in {"loop", "asleep"} :
          /\ pc' = [pc EXCEPT ![p] = point]
          /\ pc[p] \in {"boot", "loop"} /\ lib[p].at = "ret"
    BY <1>1 DEF RegisterHandlers, Sleep, Ready
  <2>2. Goto(p, point, lib[p], mem[p]) /\ UNCHANGED <<sig, fifo>>
    BY <1>0, <1>1, <2>1, GotoPoint DEF RegisterHandlers, Sleep
  <2>3. Empty(point, lib[p]) /\ Begins(p, lib[p])
    BY <1>0, <2>1, Calls, WaitBegins DEF Reading
  <2> QED
    BY <2>1, <2>2, <2>3, ChildServes DEF ChildPoints, Terminating, Engaged, Leaving, CloneWork, Cloning
<1>2. CASE CheckSigtermFlag(p)
  <2>1. pc[p] = "flag" /\ lib[p].at = "ret" /\ UNCHANGED <<sig, fifo>>
    BY <1>2 DEF CheckSigtermFlag, Ready
  <2>2. CASE mem[p].sigterm_flag = 1
    <3>1. PICK l : l = message_send(p, PM, MSG_REMOVE, <<Pad>>)
      OBVIOUS
    <3>2. Goto(p, "term_sent", l, mem[p])
      BY <1>2, <2>2, <3>1 DEF CheckSigtermFlag
    <3>3. Only(p, "sigterm")
      BY <2>1, <2>2, Holder DEF CalmInv, Turn, HasTurn, Claims, Terminating
    <3>4. \A c \in Pid : ~Told(c, p)
      BY <3>3, Untold
    <3>5. l.at = "write" /\ l.pid = PM /\ Begins(p, l) /\ Orderly(l)
      BY <1>0, <3>1, SendCall, Contents, OrderlyTypes
    <3>6. ServePoint(p, "term_sent", l, mem[p])
      BY <2>1, <2>2, <3>4, <3>5
      DEF ServePoint, Begins, Terminating, Engaged, Leaving, CloneWork, Cloning, Family, ChildPoints
    <3>7. NoClient(p)
      BY <2>1, ReadyNoClient
    <3> QED
      BY <2>1, <3>2, <3>5, <3>6, <3>7, GotoServes DEF TermsClient
  <2>3. CASE mem[p].sigterm_flag # 1
    <3>1. Goto(p, "unread", lib[p], mem[p])
      BY <1>2, <2>3 DEF CheckSigtermFlag
    <3>2. Empty("unread", lib[p]) /\ Begins(p, lib[p])
      BY <1>0, <2>1, Calls, WaitBegins DEF Reading
    <3> QED
      BY <2>1, <2>3, <3>1, <3>2, ChildServes DEF ChildPoints, Engaged, Leaving, CloneWork, Cloning
  <2> QED
    BY <2>2, <2>3
<1>3. CASE CheckUnreadFlag(p)
  <2>1. pc[p] = "unread" /\ lib[p].at = "ret" /\ UNCHANGED <<sig, fifo>>
    BY <1>3 DEF CheckUnreadFlag, Ready
  <2>2. CASE lib[p].unread_flag
    <3>1. PICK l : l = message_read(p)
      OBVIOUS
    <3>2. Goto(p, "got", l, mem[p]) /\ Empty("got", l)
      BY <1>0, <1>3, <2>2, <3>1, Calls DEF CheckUnreadFlag
    <3>3. l.at = "read" /\ Begins(p, l)
      BY <1>0, <3>1, CallFacts, WaitBegins
    <3>4. ServePoint(p, "got", l, mem[p])
      BY <2>1, <3>3
      DEF ServePoint, Begins, Terminating, Engaged, Leaving, CloneWork, Cloning, Family, ChildPoints
    <3>5. NoClient(p)
      BY <2>1, ReadyNoClient
    <3> QED
      BY <2>1, <3>2, <3>4, <3>5, GotoServes DEF TermsClient
  <2>3. CASE ~lib[p].unread_flag
    <3>1. Goto(p, "loop", lib[p], mem[p])
      BY <1>3, <2>3 DEF CheckUnreadFlag
    <3>2. Empty("loop", lib[p]) /\ Begins(p, lib[p])
      BY <1>0, <2>1, Calls, WaitBegins DEF Reading
    <3> QED
      BY <2>1, <3>1, <3>2, ChildServes DEF ChildPoints, Terminating, Engaged, Leaving, CloneWork, Cloning
  <2> QED
    BY <2>2, <2>3
<1> QED
  BY <1>1, <1>2, <1>3

\* The sender of the MSG_SPAWN p starts to serve waits for it.
LEMMA GotServes ==
  ASSUME CalmInv, TextInv, Service, NEW p \in Pid, GotMessage(p)
  PROVE  Service'
<1>0. TypeInv /\ lib[p] \in LibType /\ mem[p] \in MemType
  BY Shape DEF CalmInv, SoundLib, SoundMem
<1>1. pc[p] = "got" /\ lib[p].at = "ret" /\ UNCHANGED fifo
  BY DEF GotMessage, Ready
<1>2. NoClient(p) /\ pc[p] \notin Gone
  BY <1>1, ReadyNoClient DEF Gone
<1>3. CASE lib[p].msg = NULL
  <2>1. Exit(p)
    BY <1>3 DEF GotMessage, Crash
  <2> QED
    BY <1>1, <1>2, <2>1, ExitServes DEF Exit
<1>4. CASE lib[p].msg # NULL /\ lib[p].msg.type = MSG_SPAWN
  <2>1. PICK l, s, m : /\ l = message_send(p, PM, MSG_INFO, NextName(p)) /\ s = lib[p].msg.sender
                       /\ m = [mem[p] EXCEPT !.peer = s]
    OBVIOUS
  <2>2. Goto(p, "clone_asked", l, m) /\ UNCHANGED sig
    BY <1>4, <2>1 DEF GotMessage
  <2>3. SpawnClient(s, p)
    <3>1. PICK parcel : parcel = Parcel(p, lib[p].msg)
      OBVIOUS
    <3>2. parcel \in Parcels
      BY <1>1, <3>1 DEF Parcels, Carried, Reading
    <3>3. parcel.to = p /\ parcel.msg = lib[p].msg
      BY <3>1 DEF Parcel
    <3>4. pc[p] \in Family
      BY <1>1 DEF Family, ChildPoints
    <3> QED
      BY <1>4, <2>1, <3>2, <3>3, <3>4 DEF Service, Ordered
  <2>4. Busy(p) /\ Only(p, "busy")
    BY <1>1, Runnable, BusyAlone DEF CalmInv, Receiving
  <2>5. \A c \in Pid : ~Told(c, p)
    BY <2>4, Untold
  <2>6. l.at = "write" /\ l.pid = PM /\ Begins(p, l) /\ Orderly(l)
    BY <1>0, <2>1, SendCall, Contents, SendBegins, OrderlyTypes, OrderlySend
  <2>7. m.peer = s /\ m.sigterm_flag = mem[p].sigterm_flag /\ m.sigterm_sender = mem[p].sigterm_sender
    BY <1>0, <2>1 DEF MemType
  <2>8. ServePoint(p, "clone_asked", l, m)
    BY <1>1, <2>3, <2>5, <2>6, <2>7
    DEF ServePoint, Begins, Terminating, Engaged, Leaving, CloneWork, Cloning, Family, ChildPoints
  <2> QED
    BY <1>1, <1>2, <2>2, <2>6, <2>8, GotoServes DEF TermsClient
<1>5. CASE lib[p].msg # NULL /\ lib[p].msg.type # MSG_SPAWN
  <2>1. UNCHANGED sig /\ Goto(p, "loop", [lib[p] EXCEPT !.msg = NULL], mem[p])
    BY <1>5 DEF GotMessage
  <2>2. Empty("loop", [lib[p] EXCEPT !.msg = NULL]) /\ Begins(p, [lib[p] EXCEPT !.msg = NULL])
    BY <1>0, <1>1, Calls, WaitBegins DEF Reading
  <2> QED
    BY <1>1, <2>1, <2>2, ChildServes DEF ChildPoints, Terminating, Engaged, Leaving, CloneWork, Cloning
<1> QED
  BY <1>3, <1>4, <1>5

LEMMA TerminateServes ==
  ASSUME CalmInv, TextInv, Service, NEW p \in Pid,
         AwaitRemoval(p) \/ GotRemoval(p) \/ ExitChild(p) \/ ResetSigtermFlag(p)
  PROVE  Service'
<1>0. TypeInv /\ lib[p] \in LibType /\ mem[p] \in MemType
  BY Shape DEF CalmInv, SoundLib, SoundMem
<1>1. /\ lib[p].at = "ret" /\ UNCHANGED fifo
      /\ pc[p] \in {"term_sent", "term_reply", "term_done", "term_failed"}
  BY DEF AwaitRemoval, GotRemoval, ExitChild, ResetSigtermFlag, Ready
<1>2. NoClient(p) /\ pc[p] \notin Gone /\ pc[p] \in ChildPoints
  BY <1>1, ReadyNoClient DEF Gone, ChildPoints
<1>3. CASE Exit(p)
  BY <1>1, <1>2, <1>3, ExitServes DEF Exit
<1>4. CASE AwaitRemoval(p)
  <2>1. pc[p] = "term_sent" /\ UNCHANGED sig /\ lib[p].status = 0
    <3>1. pc[p] = "term_sent" /\ lib[p].at = "ret"
      BY <1>4 DEF AwaitRemoval, Ready
    <3> QED
      BY <1>4, <3>1 DEF AwaitRemoval, CalmInv, Order, Discipline, ManagerReached, Reaches
  <2>2. PICK l : l = message_wait(p, PM)
    OBVIOUS
  <2>3. Goto(p, "term_reply", l, mem[p])
    BY <1>4, <2>1, <2>2 DEF AwaitRemoval
  <2>4. Empty("term_reply", l) /\ Begins(p, l) /\ l.at = "check"
    BY <1>0, <2>2, Calls, WaitBegins
  <2> QED
    BY <1>1, <1>2, <2>1, <2>3, <2>4, ChildServes
    DEF ChildPoints, Terminating, Engaged, Leaving, CloneWork, Cloning
<1>5. CASE GotRemoval(p) /\ lib[p].msg # NULL
  <2>1. PICK l : l = resume_process(p, mem[p].sigterm_sender)
    OBVIOUS
  <2>2. PICK point \in {"term_done", "term_failed"} : Goto(p, point, l, mem[p])
    BY <1>5, <2>1 DEF GotRemoval
  <2>3. UNCHANGED sig /\ Begins(p, l) /\ Orderly(l)
    BY <1>0, <1>5, <2>1, Contents, OrderlyTypes DEF GotRemoval
  <2> QED
    BY <1>1, <1>2, <2>2, <2>3, ChildServes
    DEF ChildPoints, Terminating, Engaged, Leaving, CloneWork, Cloning
<1>6. CASE ResetSigtermFlag(p)
  <2>1. PICK m : m = [mem[p] EXCEPT !.sigterm_flag = 0]
    OBVIOUS
  <2>2. Goto(p, "unread", lib[p], m) /\ UNCHANGED sig /\ m.sigterm_flag = 0
    BY <1>0, <1>6, <2>1 DEF ResetSigtermFlag, MemType
  <2>3. Empty("unread", lib[p]) /\ Begins(p, lib[p])
    BY <1>0, <1>1, Calls, WaitBegins DEF Reading
  <2> QED
    BY <1>1, <1>2, <2>2, <2>3, ChildServes
    DEF ChildPoints, Terminating, Engaged, Leaving, CloneWork, Cloning
<1> QED
  BY <1>3, <1>4, <1>5, <1>6 DEF GotRemoval, ExitChild, Crash

\* p answers a MSG_SPAWN, or forgets it.
LEMMA ReturnServes ==
  ASSUME CalmInv, TextInv, Service, NEW p \in Pid, lib[p].at = "ret",
         pc[p] \in {"clone_asked", "clone_reply", "clone_added"},
         NEW l, NEW m, Goto(p, "loop", l, m),
         (\E to : l = resume_process(p, to)) \/ l = [lib[p] EXCEPT !.msg = NULL],
         m.sigterm_flag = mem[p].sigterm_flag, m.sigterm_sender = mem[p].sigterm_sender,
         UNCHANGED <<sig, fifo>>
  PROVE  Service'
<1>1. TypeInv
  BY DEF CalmInv
<1>2. Begins(p, l) /\ (Orderly(l) \/ Empty("loop", l))
  BY <1>1, Contents, OrderlyTypes, WaitBegins, Calls DEF Reading
<1> QED
  BY <1>2, ChildServes DEF ChildPoints, Terminating, Engaged, Leaving, CloneWork, Cloning

LEMMA ForkCloneServes ==
  ASSUME CalmInv, TextInv, Service, NEW p \in Pid, pc[p] = "clone_reply", lib[p].at = "ret",
         ForkClone(p), UNCHANGED <<sig, fifo>>
  PROVE  Service'
<1>0. TypeInv /\ lib[p] \in LibType /\ mem[p] \in MemType
  BY Shape DEF CalmInv, SoundLib, SoundMem
<1>1. PICK name : name = NextName(p)
  OBVIOUS
<1>2. PICK kid : kid = nextPid
  OBVIOUS
<1>3. PICK l : l = message_send(p, PM, MSG_ADD, proc_node_tostr(kid, p, name))
  OBVIOUS
<1>4. PICK m, kidMem, kidLib :
        /\ kidLib = [lib[p] EXCEPT !.msg = NULL]
        /\ m = [mem[p] EXCEPT !.kid = kid]
        /\ kidMem = [[mem[p] EXCEPT !.peer = NoPid, !.kid = NoPid] EXCEPT !.name = name, !.clones_count = 0]
        /\ Fork(p, "clone_sent", l, m, "loop", kidLib, kidMem)
  BY <1>1, <1>2, <1>3 DEF ForkClone, CloneReturns
<1>5. Busy(p) /\ ~lib[p].unread_flag /\ mem[p].sigterm_flag # 1
  BY Runnable, BusyAlone DEF CalmInv, Receiving, Terminating
<1>6. kidLib.at = "ret" /\ ~kidLib.unread_flag
  BY <1>0, <1>4, <1>5 DEF LibType
<1>7. /\ m.sigterm_flag = mem[p].sigterm_flag /\ m.sigterm_sender = mem[p].sigterm_sender
      /\ m.peer = mem[p].peer /\ kidMem.sigterm_flag # 1
  <2>1. /\ m.sigterm_flag = mem[p].sigterm_flag /\ m.sigterm_sender = mem[p].sigterm_sender
        /\ m.peer = mem[p].peer
    BY <1>0, <1>4 DEF MemType
  <2>2. kidMem.sigterm_flag = mem[p].sigterm_flag
    BY <1>0, <1>4 DEF MemType
  <2> QED
    BY <1>5, <2>1, <2>2
<1>8. Orderly(l) /\ Begins(p, l) /\ l.at = "write" /\ l.pid = PM
  <2>1. proc_node_tostr(kid, p, name) \in Str
    BY <1>0, <1>1, <1>2, ForkedPid, Contents, TextTypes, AtomFacts
  <2> QED
    BY <1>0, <1>3, <2>1, OrderlyTypes, OrderlySend, SendBegins, SendCall
<1>9. ServePoint(p, "clone_sent", l, m)
  BY <1>7, <1>8
  DEF ServePoint, Begins, Terminating, Engaged, Leaving, CloneWork, Cloning, Family, ChildPoints
<1>10. NoClient(p) /\ pc[p] \notin Gone
  BY ReadyNoClient DEF Gone
<1> QED
  BY <1>4, <1>6, <1>7, <1>8, <1>9, <1>10, ForkServes

LEMMA CloneServes ==
  ASSUME CalmInv, TextInv, Service, NEW p \in Pid, ~CloneRefused(p),
         AwaitDuplicateCheck(p) \/ child_clone(p) \/ send_proc_to_pmanager(p) \/ CloneAdded(p)
  PROVE  Service'
<1>0. TypeInv /\ lib[p] \in LibType /\ mem[p] \in MemType
  BY Shape DEF CalmInv, SoundLib, SoundMem
<1>1. /\ lib[p].at = "ret" /\ UNCHANGED fifo
      /\ pc[p] \in {"clone_asked", "clone_reply", "clone_sent", "clone_added"}
  BY DEF AwaitDuplicateCheck, child_clone, send_proc_to_pmanager, CloneAdded, Ready
<1>2. ASSUME NEW m, m = CloneReturns(p) \/ m = [CloneReturns(p) EXCEPT !.clones_count = @ + 1]
      PROVE  m.sigterm_flag = mem[p].sigterm_flag /\ m.sigterm_sender = mem[p].sigterm_sender
  BY <1>0, <1>2 DEF CloneReturns, MemType
<1>3. NoClient(p) /\ pc[p] \notin Gone /\ pc[p] \in ChildPoints
  BY <1>1, ReadyNoClient DEF Gone, ChildPoints
<1>4. ASSUME NEW point \in {"clone_reply", "clone_added"}, Goto(p, point, message_wait(p, PM), mem[p]),
             UNCHANGED sig
      PROVE  Service'
  <2>1. PICK l : l = message_wait(p, PM)
    OBVIOUS
  <2>2. Empty(point, l) /\ Begins(p, l) /\ l.at = "check"
    BY <1>0, <2>1, Calls, WaitBegins
  <2> QED
    BY <1>1, <1>3, <1>4, <2>1, <2>2, ChildServes
    DEF ChildPoints, Terminating, Engaged, Leaving, CloneWork, Cloning
<1>5. CASE AwaitDuplicateCheck(p)
  <2>1. pc[p] = "clone_asked"
    BY <1>5 DEF AwaitDuplicateCheck, Ready
  <2> QED
    BY <1>1, <1>2, <1>4, <1>5, <2>1, ReturnServes DEF AwaitDuplicateCheck
<1>6. CASE child_clone(p)
  <2>1. pc[p] = "clone_reply"
    BY <1>6 DEF child_clone, Ready
  <2>2. CASE ForkClone(p) /\ UNCHANGED sig
    BY <1>1, <2>1, <2>2, ForkCloneServes
  <2>3. CASE Crash(p)
    BY <1>1, <1>3, <2>3, ExitServes DEF Crash, Exit
  <2>4. CASE Goto(p, "loop", resume_process(p, mem[p].peer), CloneReturns(p)) /\ UNCHANGED sig
    BY <1>1, <1>2, <2>1, <2>4, ReturnServes
  <2>5. CASE Goto(p, "loop", [lib[p] EXCEPT !.msg = NULL], CloneReturns(p)) /\ UNCHANGED sig
    BY <1>1, <1>2, <2>1, <2>5, ReturnServes
  <2> QED
    BY <1>6, <2>2, <2>3, <2>4, <2>5 DEF child_clone
<1>7. CASE send_proc_to_pmanager(p)
  <2>1. pc[p] = "clone_sent"
    BY <1>7 DEF send_proc_to_pmanager, Ready
  <2>2. lib[p].status = 0
    BY <1>1, <2>1 DEF CalmInv, Order, Discipline, ManagerReached, Reaches
  <2> QED
    BY <1>4, <1>7, <2>2 DEF send_proc_to_pmanager
<1>8. CASE CloneAdded(p)
  <2>1. pc[p] = "clone_added" /\ Ready(p, "clone_added")
    BY <1>8 DEF CloneAdded, Ready
  <2>2. /\ Goto(p, "loop", resume_process(p, mem[p].peer), [CloneReturns(p) EXCEPT !.clones_count = @ + 1])
        /\ UNCHANGED sig
    BY <1>8, <2>1 DEF CloneAdded, CloneRefused
  <2> QED
    BY <1>1, <1>2, <2>1, <2>2, ReturnServes
<1> QED
  BY <1>5, <1>6, <1>7, <1>8

LEMMA ChildStepServes ==
  ASSUME CalmInv, TextInv, Service, NEW p \in Pid, ~CloneRefused(p), ChildStep(p)
  PROVE  Service'
  BY SleepServes, GotServes, TerminateServes, CloneServes DEF ChildStep

-----------------------------------------------------------------------------
(***************************************************************************)
(* The commands.                                                           *)
(***************************************************************************)
LEMMA WorkServes ==
  ASSUME CalmInv, Service, NEW p \in Pid, pc[p] \notin Family, NoClient(p) \/ StillClient(p),
         NEW point, point \notin Family, NEW l, NEW m, Goto(p, point, l, m), fifo' = fifo,
         TermsClient(p, point, l), (lib[p].at = "ret" /\ Begins(p, l)) \/ l = BlankLib,
         m.sigterm_flag = mem[p].sigterm_flag, m.sigterm_sender = mem[p].sigterm_sender,
         Empty(point, l) \/ Orderly(l)
  PROVE  Service'
<1>1. /\ point \notin Engaged /\ point \notin Leaving /\ point \notin CloneWork /\ point # "got"
      /\ pc[p] \notin Terminating
  BY DEF Engaged, Leaving, CloneWork, Cloning, Family, ChildPoints, Terminating
<1>2. ServePoint(p, point, l, m)
  BY <1>1 DEF ServePoint, Begins, BlankLib
<1> QED
  BY <1>2, GotoServes

LEMMA FinishServes ==
  ASSUME CalmInv, Service, NEW p \in Pid, pc[p] \notin Family, NoClient(p), Finish(p),
         UNCHANGED <<sig, fifo>>
  PROVE  Service'
<1>1. "exit" \notin Family /\ Empty("exit", BlankLib)
  BY DEF Family, ChildPoints, Empty, BlankLib, Reading
<1> QED
  BY <1>1, WorkServes DEF Finish, TermsClient

LEMMA LeaveServes ==
  ASSUME CalmInv, Service, NEW p \in Pid, pc[p] \in CommandPoints, NoClient(p),
         NEW output, ExitPrinting(p, output), fifo' = fifo
  PROVE  Service'
  BY ExitServes DEF CommandPoints, Gone

\* A command goes on, and leaves its flags alone.
LEMMA GoOnServes ==
  ASSUME CalmInv, Service, NEW p \in Pid, pc[p] \notin Family, lib[p].at = "ret",
         pc[p] # "spawn_sent" \/ lib[p].status # 0,
         NEW point, point \notin Family, NEW l, NEW m, Goto(p, point, l, m), UNCHANGED <<sig, fifo>>,
         Begins(p, l), Empty(point, l) \/ Orderly(l),
         m.sigterm_flag = mem[p].sigterm_flag, m.sigterm_sender = mem[p].sigterm_sender
  PROVE  Service'
  BY ReadyNoClient, WorkServes DEF TermsClient

LEMMA StartServes ==
  ASSUME CalmInv, TextInv, Service, NEW p \in Pid, Start(p)
  PROVE  Service'
<1>0. TypeInv /\ mem[p] \in MemType
  BY Shape DEF CalmInv, SoundMem
<1>1. pc[p] = "start" /\ lib[p].at = "ret" /\ UNCHANGED <<sig, fifo>>
  BY DEF Start, pnew_main, pinfo_main, prmall_main, plist_main, ptree_main, pclose_main, pspawn_main,
     phelp_main, Begin, Ready
<1>2. NoClient(p) /\ pc[p] \notin Family /\ pc[p] \notin Gone
  BY <1>1, ReadyNoClient DEF Family, ChildPoints, Gone
<1>3. CASE Finish(p)
  BY <1>1, <1>2, <1>3, FinishServes
<1>4. ASSUME NEW point \in {"pnew_asked", "info_asked", "list_asked"}, NEW to,
             NEW type \in {MSG_INFO, MSG_LIST}, NEW content \in Str, Ask(p, point, to, type, content)
      PROVE  Service'
  <2>1. PICK l, m : l = message_send(p, to, type, content) /\ m = [mem[p] EXCEPT !.peer = to]
    OBVIOUS
  <2>2. Goto(p, point, l, m)
    BY <1>4, <2>1 DEF Ask
  <2>3. type \in MsgType \ {MSG_SPAWN} /\ type \in MsgType
    BY <1>0, OrderlyTypes
  <2>4. Begins(p, l) /\ Orderly(l)
    BY <1>0, <2>1, <2>3, SendBegins, OrderlySend
  <2>5. m.sigterm_flag = mem[p].sigterm_flag /\ m.sigterm_sender = mem[p].sigterm_sender
    BY <1>0, <2>1 DEF MemType
  <2> QED
    BY <1>1, <1>2, <2>2, <2>4, <2>5, GoOnServes DEF Family, ChildPoints
<1>5. CASE popen(p)
  <2>1. ASSUME NEW m, m = [mem[p] EXCEPT !.peer = Pending], NEW kidMem,
               kidMem = NewCommand("pinfo", mem[p].name, parent[p]),
               Fork(p, "popen", lib[p], m, "start", BlankLib, kidMem)
        PROVE  Service'
    <3>1. m.sigterm_flag = mem[p].sigterm_flag /\ kidMem.sigterm_flag # 1
      BY <1>0, <2>1 DEF MemType, NewCommand, BlankMem
    <3>2. Empty("popen", lib[p]) /\ BlankLib.at = "ret" /\ ~BlankLib.unread_flag
      BY <1>1 DEF Empty, Reading, BlankLib
    <3>3. m.sigterm_sender = mem[p].sigterm_sender
      BY <1>0, <2>1 DEF MemType
    <3>4. ServePoint(p, "popen", lib[p], m)
      BY <1>1, <3>1, <3>3
      DEF ServePoint, Terminating, Engaged, Leaving, CloneWork, Cloning, Family, ChildPoints
    <3> QED
      BY <1>1, <1>2, <2>1, <3>1, <3>2, <3>4, ForkServes
  <2> QED
    BY <1>3, <1>5, <2>1 DEF popen
<1>6. \A to : \A point \in {"pnew_asked", "info_asked", "list_asked"} : \A name \in {mem[p].name, pmanager} :
        \A type \in {MSG_INFO, MSG_LIST} : Ask(p, point, to, type, name) => Service'
  BY <1>0, <1>4, Contents
<1> QED
  BY <1>3, <1>5, <1>6
  DEF Start, pnew_main, pinfo_main, prmall_main, plist_main, ptree_main, pclose_main, pspawn_main,
      phelp_main, Begin

\* A command sends SIGTERM and waits for the answer, unless there is nobody to answer.
LEMMA TermServes ==
  ASSUME CalmInv, Service, NEW p \in Pid, pc[p] \notin Family, lib[p].at = "ret", pc[p] # "spawn_sent",
         NEW q, PostTerm(q, p), NEW point \in {"exit", "rm_next"}, NEW m, fifo' = fifo,
         \/ Goto(p, point, message_wait(p, q), m)
         \/ Goto(p, point, BlankLib, m) /\ ~Exists(q)
         \/ Goto(p, point, lib[p], m) /\ ~Exists(q),
         m.sigterm_flag = mem[p].sigterm_flag, m.sigterm_sender = mem[p].sigterm_sender
  PROVE  Service'
<1>0. TypeInv
  BY DEF CalmInv
<1>1. NoClient(p) /\ point \notin Family /\ Empty(point, BlankLib) /\ Empty(point, lib[p])
  BY <1>0, Calls, ReadyNoClient DEF Family, ChildPoints, Reading
<1>2. ~Exists(q) => sig' = sig
  BY DEF PostTerm
<1>3. CASE Goto(p, point, message_wait(p, q), m)
  <2>1. PICK l : l = message_wait(p, q)
    OBVIOUS
  <2>2. Empty(point, l) /\ Begins(p, l) /\ l.at = "check" /\ l.pid = q
    BY <1>0, <2>1, Calls, WaitBegins
  <2> QED
    BY <1>1, <1>3, <2>1, <2>2, WorkServes DEF TermsClient
<1>4. Begins(p, lib[p])
  BY <1>0, WaitBegins
<1> QED
  BY <1>1, <1>2, <1>3, <1>4, WorkServes DEF TermsClient

LEMMA ForkProcessServes ==
  ASSUME CalmInv, TextInv, Service, NEW p \in Pid, pc[p] = "pnew_reply", lib[p].at = "ret",
         ForkProcess(p), UNCHANGED <<sig, fifo>>
  PROVE  Service'
<1>0. TypeInv /\ lib[p] \in LibType /\ mem[p] \in MemType
  BY Shape DEF CalmInv, SoundLib, SoundMem
<1>1. PICK kid : kid = nextPid
  OBVIOUS
<1>2. PICK l : l = message_send(p, parent[p], MSG_ADD, proc_node_tostr(kid, parent[p], mem[p].name))
  OBVIOUS
<1>3. PICK m, kidMem, kidLib :
        /\ kidLib = [lib[p] EXCEPT !.msg = NULL]
        /\ m = [mem[p] EXCEPT !.kid = kid]
        /\ kidMem = NewCommand("child", mem[p].name, NoPid)
        /\ Fork(p, "pnew_sent", l, m, "boot", kidLib, kidMem)
  BY <1>1, <1>2 DEF ForkProcess
<1>4. Busy(p) /\ ~lib[p].unread_flag
  BY Runnable, BusyAlone DEF CalmInv, Receiving
<1>5. kidLib.at = "ret" /\ ~kidLib.unread_flag
  BY <1>0, <1>3, <1>4 DEF LibType
<1>6. /\ m.sigterm_flag = mem[p].sigterm_flag /\ m.sigterm_sender = mem[p].sigterm_sender
      /\ kidMem.sigterm_flag # 1
  BY <1>0, <1>3 DEF MemType, NewCommand, BlankMem
<1>7. Orderly(l) /\ Begins(p, l)
  <2>1. proc_node_tostr(kid, parent[p], mem[p].name) \in Str
    BY <1>0, <1>1, ForkedPid, Contents, TextTypes, AtomFacts
  <2> QED
    BY <1>0, <1>2, <2>1, OrderlyTypes, OrderlySend, SendBegins
<1>8. ServePoint(p, "pnew_sent", l, m)
  BY <1>6, <1>7
  DEF ServePoint, Begins, Terminating, Engaged, Leaving, CloneWork, Cloning, Family, ChildPoints
<1>9. NoClient(p) /\ pc[p] \notin Gone
  BY ReadyNoClient DEF Gone
<1> QED
  BY <1>3, <1>5, <1>6, <1>7, <1>8, <1>9, ForkServes

LEMMA PnewServes ==
  ASSUME CalmInv, TextInv, Service, NEW p \in Pid,
         AwaitNameCheck(p) \/ pnew(p) \/ AwaitAdd(p) \/ GotAdd(p)
  PROVE  Service'
<1>0. TypeInv
  BY DEF CalmInv
<1>1. /\ lib[p].at = "ret" /\ UNCHANGED fifo
      /\ pc[p] \in {"pnew_asked", "pnew_reply", "pnew_sent", "pnew_added"}
  BY DEF AwaitNameCheck, pnew, AwaitAdd, GotAdd, Ready
<1>2. NoClient(p) /\ pc[p] \notin Family /\ pc[p] \in CommandPoints
  BY <1>1, ReadyNoClient DEF Family, ChildPoints, CommandPoints
<1>3. CASE Finish(p) /\ UNCHANGED sig
  BY <1>1, <1>2, <1>3, FinishServes
<1>4. ASSUME NEW point \in {"pnew_reply", "pnew_added"}, NEW from, UNCHANGED sig,
             Goto(p, point, message_wait(p, from), mem[p])
      PROVE  Service'
  BY <1>0, <1>1, <1>2, <1>4, Calls, WaitBegins, GoOnServes DEF Family, ChildPoints
<1>5. CASE abort_fork(p)
  BY <1>1, <1>2, <1>5, TermServes DEF abort_fork, Finish
<1>6. CASE pnew(p)
  <2>1. pc[p] = "pnew_reply"
    BY <1>6 DEF pnew, Ready
  <2>2. CASE Crash(p)
    BY <1>1, <1>2, <2>2, LeaveServes DEF Crash, Exit
  <2>3. CASE ForkProcess(p) /\ UNCHANGED sig
    BY <1>1, <2>1, <2>3, ForkProcessServes
  <2> QED
    BY <1>3, <1>6, <2>2, <2>3 DEF pnew
<1> QED
  BY <1>3, <1>4, <1>5, <1>6 DEF AwaitNameCheck, AwaitAdd, GotAdd

LEMMA ListServes ==
  ASSUME CalmInv, TextInv, Service, NEW p \in Pid,
         AwaitListItem(p) \/ GotListItem(p) \/ kill_proc_tree(p)
  PROVE  Service'
<1>0. TypeInv /\ mem[p] \in MemType
  BY Shape DEF CalmInv, SoundMem
<1>1. /\ lib[p].at = "ret" /\ UNCHANGED fifo
      /\ pc[p] \in {"list_asked", "list_item", "rm_next"}
  BY DEF AwaitListItem, GotListItem, kill_proc_tree, Ready
<1>2. NoClient(p) /\ pc[p] \notin Family /\ pc[p] \in CommandPoints
  BY <1>1, ReadyNoClient DEF Family, ChildPoints, CommandPoints
<1>3. CASE Finish(p) /\ UNCHANGED sig
  BY <1>1, <1>2, <1>3, FinishServes
<1>4. ASSUME NEW rest, NEW m, m = [mem[p] EXCEPT !.procs = rest]
      PROVE  m.sigterm_flag = mem[p].sigterm_flag /\ m.sigterm_sender = mem[p].sigterm_sender
  BY <1>0, <1>4 DEF MemType
<1>5. CASE AwaitListItem(p)
  BY <1>0, <1>1, <1>2, <1>3, <1>5, Calls, WaitBegins, GoOnServes DEF AwaitListItem, Family, ChildPoints
<1>6. CASE GotListItem(p)
  <2>1. CASE ListItem(p)
    <3>1. CASE Crash(p)
      BY <1>1, <1>2, <3>1, LeaveServes DEF Crash, Exit
    <3>2. CASE ~Crash(p)
      <4>1. PICK rest, l, m :
              /\ l = message_send(p, parent[p], MSG_SUCCESS, <<Pad>>)
              /\ m = [mem[p] EXCEPT !.procs = rest]
              /\ Goto(p, "list_asked", l, m) /\ UNCHANGED sig
        BY <2>1, <3>2 DEF ListItem
      <4>2. Begins(p, l) /\ Orderly(l)
        BY <1>0, <4>1, Contents, OrderlyTypes
      <4> QED
        BY <1>1, <1>2, <1>4, <4>1, <4>2, GoOnServes DEF Family, ChildPoints
    <3> QED
      BY <3>1, <3>2
  <2>2. ASSUME NEW point \in {"rm_next", "exit"}, UNCHANGED sig,
               Goto(p, point, [lib[p] EXCEPT !.msg = NULL], mem[p])
        PROVE  Service'
    BY <1>0, <1>1, <1>2, <2>2, Calls, WaitBegins, GoOnServes DEF Family, ChildPoints, Reading
  <2> QED
    BY <1>3, <1>6, <2>1, <2>2 DEF GotListItem
<1>7. CASE kill_proc_tree(p)
  <2>1. ASSUME NEW rest, SparePmanager(p, rest) PROVE Service'
    <3>1. PICK m : m = [mem[p] EXCEPT !.procs = rest]
      OBVIOUS
    <3>2. Goto(p, "rm_next", lib[p], m) /\ UNCHANGED sig
      BY <2>1, <3>1 DEF SparePmanager
    <3>3. Begins(p, lib[p]) /\ Empty("rm_next", lib[p]) /\ "rm_next" \notin Family
      BY <1>0, <1>1, Calls, WaitBegins DEF Family, ChildPoints, Reading
    <3>4. pc[p] = "rm_next"
      BY <1>7 DEF kill_proc_tree, Ready
    <3> QED
      BY <1>1, <1>2, <1>4, <3>1, <3>2, <3>3, <3>4, GoOnServes
  <2>2. ASSUME NEW q, NEW rest, SignalVictim(p, q, rest) PROVE Service'
    <3>1. PICK m : m = [mem[p] EXCEPT !.procs = rest]
      OBVIOUS
    <3>2. /\ PostTerm(q, p)
          /\ Goto(p, "rm_next", IF Exists(q) THEN message_wait(p, q) ELSE lib[p], m)
      BY <2>2, <3>1 DEF SignalVictim
    <3> QED
      BY <1>1, <1>2, <1>4, <3>1, <3>2, TermServes
  <2> QED
    BY <1>3, <1>7, <2>1, <2>2 DEF kill_proc_tree
<1> QED
  BY <1>5, <1>6, <1>7

\* The sender of MSG_SPAWN is going to wait for the answer.
LEMMA SpawnServes ==
  ASSUME CalmInv, TextInv, Service, NEW p \in Pid, pspawn(p)
  PROVE  Service'
<1>0. TypeInv
  BY DEF CalmInv
<1>1. pc[p] = "popen" /\ lib[p].at = "ret" /\ UNCHANGED <<sig, fifo>>
  BY DEF pspawn, Ready
<1>2. NoClient(p) /\ pc[p] \notin Family
  BY <1>1, ReadyNoClient DEF Family, ChildPoints
<1>3. CASE Finish(p)
  BY <1>1, <1>2, <1>3, FinishServes
<1>4. CASE Goto(p, "spawn_sent", message_send(p, mem[p].peer, MSG_SPAWN, <<Pad>>), mem[p])
  <2>1. PICK l, to : to = mem[p].peer /\ l = message_send(p, to, MSG_SPAWN, <<Pad>>)
    OBVIOUS
  <2>2. l.at = "write" /\ l.pid = to /\ l.text = MessageText(p, MSG_SPAWN, <<Pad>>) /\ Begins(p, l)
    BY <1>0, <2>1, SendCall, Contents
  <2>3. pc'[p] = "spawn_sent" /\ mem'[p].peer = to /\ lib'[p].at = "write"
    BY <1>0, <1>4, <2>1, <2>2, Shape DEF Goto
  <2>4. SpawnClient(p, to)'
    BY <2>3 DEF SpawnClient
  <2>5. ASSUME NEW parcel, parcel = Parcel(l.pid, MessageOf(l.text)) PROVE Ordered(parcel)'
    <3>1. parcel.to = to /\ parcel.msg = MessageOf(MessageText(p, MSG_SPAWN, <<Pad>>))
      BY <2>2, <2>5 DEF Parcel
    <3>2. parcel.msg # NULL => parcel.msg.sender = p
      BY <1>0, <3>1, Contents, Arrives DEF Pid
    <3> QED
      BY <2>4, <3>1, <3>2 DEF Ordered
  <2>6. Orderly(l)
    BY <2>2, <2>5 DEF Orderly
  <2> QED
    BY <1>1, <1>2, <1>4, <2>1, <2>2, <2>6, GoOnServes DEF Family, ChildPoints
<1> QED
  BY <1>3, <1>4 DEF pspawn

LEMMA InfoServes ==
  ASSUME CalmInv, TextInv, Service, NEW p \in Pid,
         ExitCommand(p) \/ AwaitInfo(p) \/ PrintInfo(p) \/ pclose(p) \/ pspawn(p) \/ AwaitSpawn(p)
  PROVE  Service'
<1>0. TypeInv
  BY DEF CalmInv
<1>1. lib[p].at = "ret" /\ UNCHANGED fifo
  BY DEF ExitCommand, AwaitInfo, PrintInfo, pclose, pspawn, AwaitSpawn, Ready
<1>2. CASE ExitCommand(p)
  <2>1. pc[p] = "exit" /\ Exit(p)
    BY <1>2 DEF ExitCommand, Ready
  <2> QED
    BY <1>1, <2>1, ReadyNoClient, LeaveServes DEF Exit, CommandPoints
<1>3. CASE AwaitInfo(p)
  <2>1. pc[p] = "info_asked" /\ UNCHANGED sig
    BY <1>3 DEF AwaitInfo, Ready
  <2>2. PICK l : /\ l = message_wait(p, mem[p].peer) \/ l = [lib[p] EXCEPT !.msg = NULL]
                 /\ Goto(p, "info_reply", l, mem[p])
    BY <1>3 DEF AwaitInfo
  <2>3. Begins(p, l) /\ Empty("info_reply", l)
    BY <1>0, <1>1, <2>2, WaitBegins, Calls DEF Reading
  <2> QED
    BY <1>1, <2>1, <2>2, <2>3, GoOnServes DEF Family, ChildPoints
<1>4. CASE PrintInfo(p)
  <2>1. PICK output : ExitPrinting(p, output)
    BY <1>4 DEF PrintInfo
  <2>2. pc[p] = "info_reply"
    BY <1>4 DEF PrintInfo, Ready
  <2> QED
    BY <1>1, <2>1, <2>2, ReadyNoClient, LeaveServes DEF CommandPoints
<1>5. CASE pclose(p)
  <2>1. pc[p] = "popen"
    BY <1>5 DEF pclose, Ready
  <2>2. CASE Finish(p) /\ UNCHANGED sig
    BY <1>1, <2>1, <2>2, ReadyNoClient, FinishServes DEF Family, ChildPoints
  <2> QED
    BY <1>1, <1>5, <2>1, <2>2, TermServes DEF pclose, Family, ChildPoints
<1>6. CASE AwaitSpawn(p)
  <2>1. pc[p] = "spawn_sent" /\ UNCHANGED sig /\ pc[p] \notin Family
    BY <1>6 DEF AwaitSpawn, Ready, Family, ChildPoints
  <2>2. CASE lib[p].status = 0
    <3>1. PICK l : l = message_wait(p, mem[p].peer)
      OBVIOUS
    <3>2. Goto(p, "exit", l, mem[p])
      BY <1>6, <2>2, <3>1 DEF AwaitSpawn
    <3>3. Empty("exit", l) /\ l.at = "check" /\ l.pid = mem[p].peer /\ Begins(p, l)
      BY <1>0, <3>1, Calls, WaitBegins
    <3>4. pc'[p] = "exit" /\ lib'[p] = l
      BY <1>0, <3>2, Shape DEF Goto
    <3>5. ASSUME NEW q \in Pid PROVE /\ TermClient(p, q) => TermClient(p, q)'
                                     /\ SpawnClient(p, q) => SpawnClient(p, q)'
      <4>1. ~TermClient(p, q) /\ (SpawnClient(p, q) => mem[p].peer = q)
        BY <2>1 DEF TermClient, SpawnClient
      <4>2. mem[p].peer = q => TermClient(p, q)'
        BY <3>3, <3>4 DEF TermClient, Waiting
      <4> QED
        BY <4>1, <4>2 DEF SpawnClient
    <3>6. StillClient(p)
      BY <3>5 DEF StillClient
    <3>7. "exit" \notin Family
      BY DEF Family, ChildPoints
    <3> QED
      BY <1>1, <2>1, <3>2, <3>3, <3>6, <3>7, WorkServes DEF TermsClient
  <2>3. CASE lib[p].status # 0
    BY <1>1, <1>6, <2>1, <2>3, ReadyNoClient, FinishServes DEF AwaitSpawn
  <2> QED
    BY <2>2, <2>3
<1> QED
  BY <1>2, <1>3, <1>4, <1>5, <1>6, SpawnServes

LEMMA CommandServes ==
  ASSUME CalmInv, TextInv, Service, NEW p \in Pid, CommandStep(p)
  PROVE  Service'
  BY StartServes, PnewServes, ListServes, InfoServes DEF CommandStep

-----------------------------------------------------------------------------
(***************************************************************************)
(* pmanager.                                                               *)
(***************************************************************************)
\* Nobody has moved.
LEMMA SameServes ==
  ASSUME Service, UNCHANGED <<pc, lib, mem, sig, fifo>>
  PROVE  Service'
BY DEF Service, Asked, TermClient, SpawnClient, Waiting, Reports, Told, Ordered, JustRead, Parcels,
   OnItsWay, Carried

LEMMA ExecCommandServes ==
  ASSUME CalmInv, Service, NEW p \in Pid, pc[p] \in {"readline", "cleanup"}, lib[p].at = "ret",
         NEW m, m.sigterm_flag = mem[p].sigterm_flag, m.sigterm_sender = mem[p].sigterm_sender,
         NEW prog, NEW name, NEW to, exec_command(p, m, prog, name, to), UNCHANGED <<sig, fifo>>
  PROVE  Service'
<1>0. TypeInv /\ PM \in Pid
  BY PidFacts DEF CalmInv
<1>1. PICK k, kidMem :
        /\ k = [m EXCEPT !.kid = nextPid]
        /\ kidMem = [NewCommand(prog, name, to) EXCEPT !.exiting = m.exiting, !.masked = m.masked]
        /\ Fork(p, "poll", lib[p], k, "exec", lib[p], kidMem)
  BY DEF exec_command
<1>2. Busy(p) /\ ~lib[p].unread_flag
  BY Runnable, BusyAlone DEF CalmInv
<1>3. /\ k.sigterm_flag = mem[p].sigterm_flag /\ k.sigterm_sender = mem[p].sigterm_sender
      /\ kidMem.sigterm_flag # 1
  BY <1>1 DEF NewCommand, BlankMem
<1>4. Empty("poll", lib[p])
  BY <1>0, Calls DEF Reading
<1>5. ServePoint(p, "poll", lib[p], k)
  BY <1>2, <1>3 DEF ServePoint, Terminating, Engaged, Leaving, CloneWork, Cloning, Family, ChildPoints
<1>6. NoClient(p) /\ pc[p] \notin Gone
  BY ReadyNoClient DEF Gone
<1> QED
  BY <1>1, <1>2, <1>3, <1>4, <1>5, <1>6, ForkServes

LEMMA UserServes ==
  ASSUME CalmInv, Service, ReadLine \/ EndOfInput
  PROVE  Service'
<1>1. /\ PM \in Pid /\ pc[PM] = "readline" /\ lib[PM].at = "ret" /\ TypeInv
      /\ UNCHANGED <<sig, fifo>>
  BY PidFacts DEF ReadLine, EndOfInput, Ready, CalmInv
<1>2. CASE Goto(PM, "cleanup", lib[PM], mem[PM])
  BY <1>1, <1>2, Calls, WaitBegins, GoOnServes DEF Family, ChildPoints, Reading
<1>3. CASE UNCHANGED <<pc, lib, mem>>
  BY <1>1, <1>3, SameServes
<1>4. CASE \E prog, name, to : exec_command(PM, mem[PM], prog, name, to)
  BY <1>1, <1>4, ExecCommandServes
<1> QED
  BY <1>2, <1>3, <1>4 DEF ReadLine, EndOfInput

LEMMA ExecServes ==
  ASSUME CalmInv, Service, NEW p \in Pid, ~CopyCleansUp(p), execvp(p)
  PROVE  Service'
<1>0. TypeInv
  BY DEF CalmInv
<1>1. pc[p] = "exec" /\ lib[p].at = "ret" /\ UNCHANGED <<sig, fifo>> /\ Ready(p, "exec")
  BY DEF execvp, Ready
<1>2. pc'[p] # "cleanup"
  BY <1>1 DEF CopyCleansUp
<1>3. PICK m : m = [mem[p] EXCEPT !.exiting = FALSE]
  OBVIOUS
<1>4. Goto(p, "start", BlankLib, m)
  BY <1>0, <1>2, <1>3, Shape DEF execvp, Goto
<1>5. m.sigterm_flag = mem[p].sigterm_flag /\ m.sigterm_sender = mem[p].sigterm_sender
  BY <1>0, <1>3, Shape DEF SoundMem, MemType
<1>6. Empty("start", BlankLib) /\ NoClient(p) /\ pc[p] \notin Family /\ "start" \notin Family
  BY <1>0, <1>1, Calls, ReadyNoClient DEF Family, ChildPoints, Reading
<1> QED
  BY <1>1, <1>4, <1>5, <1>6, WorkServes DEF TermsClient

LEMMA ReapServes ==
  ASSUME CalmInv, Service, pc[PM] \in {"towait", "waitpid"}, lib[PM].at = "ret",
         pc[mem[PM].kid] = "zombie",
         pc' = [pc EXCEPT ![mem[PM].kid] = "dead", ![PM] = "readline"],
         mem' = [mem EXCEPT ![PM].kid = NoPid],
         UNCHANGED <<lib, sig, fifo>>
  PROVE  Service'
<1>0. PICK kid : kid = mem[PM].kid
  OBVIOUS
<1>1. /\ TypeInv /\ PM \in Pid /\ kid \in Pid /\ kid # PM /\ pc[kid] = "zombie"
  <2>1. kid # NoPid
    BY <1>0, Serving DEF CalmInv, Managing, ManagerPoints
  <2>2. PM \in Pid /\ mem[PM] \in MemType /\ TypeInv
    BY Shape, PidFacts DEF CalmInv, SoundMem
  <2>3. kid \in Pid
    BY <1>0, <2>1, <2>2 DEF MemType
  <2> QED
    BY <1>0, <2>2, <2>3
<1>2. /\ pc'[PM] = "readline" /\ pc'[kid] = "dead"
      /\ \A x \in Pid \ {PM, kid} : pc'[x] = pc[x]
      /\ \A x \in Pid : /\ mem'[x].peer = mem[x].peer
                        /\ mem'[x].sigterm_flag = mem[x].sigterm_flag
                        /\ mem'[x].sigterm_sender = mem[x].sigterm_sender
  BY <1>0, <1>1, Shape DEF SoundMem, MemType
<1>3. mem[kid].sigterm_flag = 0
  BY <1>1 DEF CalmInv, Order, Discipline, CallsOpen, Gone
<1>4. ClientsStay
  BY <1>1, <1>2 DEF ClientsStay, TermClient, SpawnClient, Waiting
<1>5. ASSUME NEW x \in Pid
      PROVE  /\ Unasked(x) /\ Discreet(x) /\ JustRead(x)'
             /\ pc'[x] \in Family => pc[x] \in Family
  <2>1. CASE x \in {PM, kid}
    BY <1>1, <1>2, <1>3, <2>1
    DEF Unasked, Discreet, JustRead, Engaged, Leaving, CloneWork, Cloning, Terminating, Family, ChildPoints
  <2>2. CASE x \notin {PM, kid}
    <3>1. Unasked(x)
      BY <1>2, <2>2 DEF Unasked
    <3>2. Discreet(x)
      BY <1>2, <2>2 DEF Discreet, Told, Service, Reports
    <3>3. JustRead(x)'
      BY <1>2, <2>2 DEF Service, JustRead, Waiting
    <3> QED
      BY <1>2, <2>2, <3>1, <3>2, <3>3
  <2> QED
    BY <2>1, <2>2
<1>6. Parcels' \subseteq Parcels
  <2>1. ASSUME NEW x \in Pid PROVE Carried(x)' \subseteq Carried(x)
    BY <1>2 DEF Carried, Reading
  <2>2. OnItsWay' = OnItsWay
    BY DEF OnItsWay
  <2> QED
    BY <2>1, <2>2 DEF Parcels
<1> QED
  BY <1>4, <1>5, <1>6, ServiceStays

LEMMA WaitServes ==
  ASSUME CalmInv, Service, NEW p \in Pid, WaitCommand(p) \/ cleanup(p)
  PROVE  Service'
<1>0. /\ TypeInv /\ p = PM /\ PM \in Pid /\ lib[p].at = "ret" /\ fifo' = fifo
      /\ pc[PM] \in {"towait", "waitpid", "cleanup"}
  BY Manager, PidFacts DEF CalmInv, WaitCommand, cleanup, Ready, Managing, ManagerPoints
<1>1. CASE EndManager(PM)
  <2>1. NoClient(PM) /\ pc[PM] \notin Gone
    BY <1>0, ReadyNoClient DEF Gone
  <2> QED
    BY <1>0, <1>1, <2>1, ExitServes DEF EndManager, Exit
<1>2. CASE WaitCommand(p)
  <2>1. CASE pc' = [pc EXCEPT ![PM] = "waitpid"] /\ UNCHANGED <<lib, mem, sig>> /\ pc[PM] = "towait"
    <3>1. Goto(PM, "waitpid", lib[PM], mem[PM])
      BY <1>0, <2>1, GotoPoint
    <3>2. Empty("waitpid", lib[PM]) /\ Begins(PM, lib[PM])
      BY <1>0, Calls, WaitBegins DEF Reading
    <3> QED
      BY <1>0, <2>1, <3>1, <3>2, GoOnServes DEF Family, ChildPoints
  <2>2. CASE /\ pc[mem[PM].kid] = "zombie" /\ pc[PM] \in {"towait", "waitpid"}
             /\ pc' = [pc EXCEPT ![mem[PM].kid] = "dead", ![PM] = "readline"]
             /\ mem' = [mem EXCEPT ![PM].kid = NoPid]
             /\ UNCHANGED <<lib, sig>>
    BY <1>0, <2>2, ReapServes
  <2> QED
    BY <1>0, <1>1, <1>2, <2>1, <2>2 DEF WaitCommand, Ready
<1>3. CASE /\ pc[PM] = "cleanup" /\ UNCHANGED sig
           /\ exec_command(PM, [mem[PM] EXCEPT !.exiting = TRUE], "prmall", pmanager, NoPid)
  <2>1. PICK m : m = [mem[PM] EXCEPT !.exiting = TRUE]
    OBVIOUS
  <2>2. m.sigterm_flag = mem[PM].sigterm_flag /\ m.sigterm_sender = mem[PM].sigterm_sender
    BY <1>0, <2>1, Shape DEF SoundMem, MemType
  <2> QED
    BY <1>0, <1>3, <2>1, <2>2, ExecCommandServes
<1> QED
  BY <1>0, <1>1, <1>2, <1>3 DEF cleanup, Ready

-----------------------------------------------------------------------------
LEMMA SendNodeServes ==
  ASSUME CalmInv, Service, NEW p \in Pid, pc[p] \in {"handle", "list_ack"}, lib[p].at = "ret", NEW to,
         NEW procs \in Seq(TreeNode), procs # <<>>, SendNode(p, to, procs)
  PROVE  Service'
<1>0. TypeInv
  BY DEF CalmInv
<1>1. PICK n \in TreeNode : n = Head(procs)
  OBVIOUS
<1>2. n.pid \in Nat /\ n.ppid \in Nat /\ n.name \in Str
  BY <1>1 DEF TreeNode
<1>3. proc_node_tostr(n.pid, n.ppid, n.name) \in Str
  BY <1>2, AtomFacts, TextTypes
<1>4. PICK l, m : /\ l = message_send(p, to, MSG_INFO, proc_node_tostr(n.pid, n.ppid, n.name))
                  /\ m = [mem[p] EXCEPT !.peer = to, !.procs = Tail(procs)]
  OBVIOUS
<1>5. Goto(p, "list_sent", l, m) /\ UNCHANGED <<sig, fifo>>
  BY <1>1, <1>4 DEF SendNode
<1>6. m.sigterm_flag = mem[p].sigterm_flag /\ m.sigterm_sender = mem[p].sigterm_sender
  BY <1>0, <1>4, Shape DEF SoundMem, MemType
<1>7. Orderly(l) /\ Begins(p, l)
  BY <1>0, <1>3, <1>4, OrderlyTypes, OrderlySend, SendBegins
<1> QED
  BY <1>5, <1>6, <1>7, GoOnServes DEF Family, ChildPoints

LEMMA HandleServes ==
  ASSUME CalmInv, Service, NEW p \in Pid, message_handler(p) \/ GotAck(p)
  PROVE  Service'
<1>1. /\ TypeInv /\ lib[p].at = "ret" /\ pc[p] \in {"handle", "list_ack"} /\ pc[p] \notin Family
      /\ Begins(p, lib[p]) /\ Empty("towait", lib[p]) /\ "towait" \notin Family
  BY WaitBegins, Calls DEF message_handler, GotAck, Ready, CalmInv, Family, ChildPoints, Reading
<1>2. ASSUME NEW to, NEW type \in {MSG_ERROR, MSG_SUCCESS}, Answer(p, to, type, <<Pad>>)
      PROVE  Service'
  <2>1. PICK l : l = message_send(p, to, type, <<Pad>>)
    OBVIOUS
  <2>2. Goto(p, "towait", l, mem[p]) /\ UNCHANGED <<sig, fifo>>
    BY <1>2, <2>1 DEF Answer
  <2>3. Begins(p, l) /\ Orderly(l)
    BY <1>1, <2>1, Contents, OrderlyTypes
  <2> QED
    BY <1>1, <2>2, <2>3, GoOnServes
<1>3. CASE GotAck(p)
  <2>1. mem[p].procs \in Seq(TreeNode) /\ mem[p] \in MemType
    BY <1>1, Shape DEF SoundMem, MemType
  <2>2. CASE mem[p].procs # <<>>
    BY <1>1, <1>3, <2>1, <2>2, SendNodeServes DEF GotAck
  <2>3. CASE mem[p].procs = <<>>
    <3>1. PICK l, m : l = message_send(p, mem[p].peer, MSG_SUCCESS, <<Pad>>) /\ m = [mem[p] EXCEPT !.peer = NoPid]
      OBVIOUS
    <3>2. Goto(p, "towait", l, m) /\ UNCHANGED <<sig, fifo>>
      BY <1>3, <2>3, <3>1 DEF GotAck
    <3>3. Begins(p, l) /\ Orderly(l)
      BY <1>1, <3>1, Contents, OrderlyTypes
    <3>4. m.sigterm_flag = mem[p].sigterm_flag /\ m.sigterm_sender = mem[p].sigterm_sender
      BY <2>1, <3>1 DEF MemType
    <3> QED
      BY <1>1, <3>2, <3>3, <3>4, GoOnServes
  <2> QED
    BY <2>2, <2>3
<1>4. CASE message_handler(p) /\ lib[p].msg = NULL
  BY <1>1, <1>4, GoOnServes DEF message_handler
<1>5. CASE message_handler(p) /\ lib[p].msg # NULL
  <2>1. trees[p] \in Seq(TreeNode)
    BY <1>1 DEF TypeInv, ManagerInv, CleanTree
  <2>2. CASE msg_info_handler(p, lib[p].msg)
    <3>1. PICK i : i = proc_node_find_by_name(trees[p], lib[p].msg.content)
      OBVIOUS
    <3>2. CASE i = 0
      BY <1>2, <2>2, <3>1, <3>2 DEF msg_info_handler
    <3>3. CASE i # 0
      <4>1. i \in 1..Len(trees[p])
        BY <2>1, <3>1, <3>3, FindByName
      <4>2. PICK n \in TreeNode : n = trees[p][i]
        BY <2>1, <4>1
      <4>3. n.pid \in Nat /\ n.ppid \in Nat /\ n.name \in Str
        BY <4>2 DEF TreeNode
      <4>4. proc_node_tostr(n.pid, n.ppid, n.name) \in Str
        BY <4>3, AtomFacts, TextTypes
      <4>5. PICK l : l = message_send(p, lib[p].msg.sender, MSG_INFO, proc_node_tostr(n.pid, n.ppid, n.name))
        OBVIOUS
      <4>6. Goto(p, "towait", l, mem[p]) /\ UNCHANGED <<sig, fifo>>
        BY <2>2, <3>1, <3>3, <4>2, <4>5 DEF msg_info_handler, Answer
      <4>7. Begins(p, l) /\ Orderly(l)
        BY <1>1, <4>4, <4>5, OrderlyTypes, OrderlySend, SendBegins
      <4> QED
        BY <1>1, <4>6, <4>7, GoOnServes
    <3> QED
      BY <3>2, <3>3
  <2>3. CASE msg_list_handler(p, lib[p].msg)
    <3>1. PICK i : i = proc_node_find_by_name(trees[p], lib[p].msg.content)
      OBVIOUS
    <3>2. CASE i = 0
      BY <1>2, <2>3, <3>1, <3>2 DEF msg_list_handler
    <3>3. CASE i # 0
      <4>1. i \in 1..Len(trees[p])
        BY <2>1, <3>1, <3>3, FindByName
      <4>2. PICK procs \in Seq(TreeNode) : procs = proc_node_get_array(trees[p], i) /\ procs # <<>>
        BY <2>1, <4>1, ArrayTyped
      <4>3. SendNode(p, lib[p].msg.sender, procs)
        BY <2>3, <3>1, <3>3, <4>2 DEF msg_list_handler
      <4> QED
        BY <1>1, <4>2, <4>3, SendNodeServes
    <3> QED
      BY <3>2, <3>3
  <2>4. CASE msg_add_handler(p, lib[p].msg)
    BY <1>2, <2>4 DEF msg_add_handler
  <2>5. CASE msg_remove_handler(p, lib[p].msg)
    BY <1>2, <2>5 DEF msg_remove_handler
  <2> QED
    BY <1>2, <1>5, <2>2, <2>3, <2>4, <2>5 DEF message_handler
<1> QED
  BY <1>3, <1>4, <1>5

LEMMA ManagerServes ==
  ASSUME CalmInv, Service, NEW p \in Pid, ~CopyCleansUp(p), ManagerStep(p)
  PROVE  Service'
<1>0. TypeInv
  BY DEF CalmInv
<1>1. CASE Poll(p)
  <2>1. pc[p] = "poll" /\ lib[p].at = "ret" /\ UNCHANGED <<sig, fifo>>
    BY <1>1 DEF Poll, Ready
  <2>2. PICK l : \E point \in {"handle", "towait"} :
          Goto(p, point, l, mem[p]) /\ Begins(p, l) /\ Empty(point, l)
    <3>1. Begins(p, message_read(p)) /\ Empty("handle", message_read(p))
      BY <1>0, WaitBegins, Calls
    <3>2. Begins(p, lib[p]) /\ Empty("towait", lib[p])
      BY <1>0, <2>1, WaitBegins, Calls DEF Reading
    <3> QED
      BY <1>1, <3>1, <3>2 DEF Poll
  <2> QED
    BY <2>1, <2>2, GoOnServes DEF Family, ChildPoints
<1>2. CASE AwaitAck(p)
  <2>1. pc[p] = "list_sent" /\ lib[p].at = "ret" /\ UNCHANGED <<sig, fifo>>
    BY <1>2 DEF AwaitAck, Ready
  <2>2. PICK l : l = message_wait(p, mem[p].peer)
    OBVIOUS
  <2>3. Goto(p, "list_ack", l, mem[p]) /\ Begins(p, l) /\ Empty("list_ack", l)
    BY <1>0, <1>2, <2>2, WaitBegins, Calls DEF AwaitAck
  <2> QED
    BY <2>1, <2>3, GoOnServes DEF Family, ChildPoints
<1> QED
  BY <1>1, <1>2, ExecServes, WaitServes, HandleServes DEF ManagerStep

-----------------------------------------------------------------------------
(***************************************************************************)
(* message.c.                                                              *)
(***************************************************************************)
LEMMA MessageParcels ==
  ASSUME CalmInv, TextInv, NEW p \in Pid, MessageStep(p)
  PROVE  /\ TypeInv /\ lib[p] \in LibType /\ lib \in [Pid -> SoundLib] /\ UNCHANGED <<pc, mem>>
         /\ \A x \in Pid \ {p} : lib'[x] = lib[x]
         /\ Parcels' \subseteq Parcels
<1>1. /\ TypeInv /\ lib \in [Pid -> SoundLib] /\ lib[p] \in LibType /\ fifo \in Seq(LetterType)
      /\ UNCHANGED <<pc, mem>>
      /\ \A x \in Pid \ {p} : lib'[x] = lib[x]
  <2>1. lib \in [Pid -> SoundLib] /\ fifo \in Seq(LetterType) /\ TypeInv
    BY Shape DEF CalmInv, TypeInv, KernelInv
  <2>2. UNCHANGED <<pc, mem>>
    BY DEF MessageStep, WriteText, NotifyReceiver, CheckFlags, Suspend, ReadText, ResetFlags
  <2>3. ReadText(p) => ReadToEnd(p)
    BY ReadsWhole
  <2>4. \A x \in Pid \ {p} : lib'[x] = lib[x]
    BY <2>1, <2>3
    DEF MessageStep, WriteText, NotifyReceiver, CheckFlags, Suspend, ReadToEnd, ResetFlags
  <2> QED
    BY <2>1, <2>2, <2>4 DEF SoundLib
<1>3. \A x \in Pid \ {p} : Carried(x)' = Carried(x)
  BY <1>1 DEF Carried
<1>4. OpenAt(pc[p], lib[p]) /\ TextAt(p)
  BY DEF CalmInv, Order, Discipline, CallsOpen, TextInv
<1>5. ASSUME fifo' = fifo, Carried(p)' \subseteq Carried(p) PROVE Parcels' \subseteq Parcels
  <2>1. OnItsWay' = OnItsWay
    BY <1>5 DEF OnItsWay
  <2> QED
    BY <1>3, <1>5, <2>1 DEF Parcels
<1>6. CASE WriteText(p)
  <2>1. /\ lib[p].at = "write" /\ fifo' = Append(fifo, Letter(lib[p].pid, lib[p].text))
        /\ lib'[p].at = "kill"
    BY <1>1, <1>6 DEF WriteText, LibType
  <2>2. fifo = <<>>
    BY <2>1, WritesAlone
  <2>3. PICK letter : letter = Letter(lib[p].pid, lib[p].text)
    OBVIOUS
  <2>4. fifo' = <<letter>>
    BY <2>1, <2>2, <2>3
  <2>5. OnItsWay' = {Parcel(letter.to, MessageOf(letter.text))}
    <3>1. Len(fifo') = 1 /\ fifo'[1] = letter /\ 1..1 = {1}
      BY <2>4
    <3> QED
      BY <3>1 DEF OnItsWay
  <2>6. OnItsWay' = Carried(p)
    BY <2>1, <2>3, <2>5 DEF Carried, Letter
  <2>7. Carried(p)' = {}
    BY <2>1 DEF Carried
  <2>8. Parcels' \subseteq Parcels
    BY <1>3, <2>6, <2>7 DEF Parcels
  <2> QED
    BY <1>1, <2>8
<1>7. CASE NotifyReceiver(p)
  <2>1. lib[p].at = "kill" /\ lib'[p].at = "ret" /\ fifo' = fifo
    BY <1>1, <1>7 DEF NotifyReceiver, LibType
  <2>2. pc[p] \in Sending \union Answering
    BY <1>4, <2>1 DEF OpenAt
  <2>3. Carried(p)' = {}
    BY <1>1, <2>1, <2>2 DEF Carried, Reading, Sending, Answering
  <2> QED
    BY <1>1, <1>5, <2>1, <2>3
<1>8. CASE CheckFlags(p) \/ Suspend(p)
  <2>1. /\ lib[p].at \in {"check", "suspend"} /\ lib'[p].at \in {"read", "suspend", "asleep"}
        /\ fifo' = fifo
    BY <1>1, <1>8 DEF CheckFlags, Suspend, LibType
  <2>2. Carried(p)' = {}
    BY <2>1 DEF Carried
  <2> QED
    BY <1>1, <1>5, <2>1, <2>2
<1>9. CASE ReadText(p)
  <2>1. Len(fifo) = 1 /\ fifo[1].to = p /\ ReadToEnd(p) /\ lib[p].at = "read" /\ lib[p].text = <<>>
    BY <1>4, <1>9, ReadsWhole DEF ReadText, TextAt
  <2>2. PICK text : text = fifo[1].text
    OBVIOUS
  <2>3. text \in Str /\ fifo[1] = Head(fifo) /\ Tail(fifo) = <<>>
    <3>1. ASSUME NEW S, NEW s \in Seq(S), Len(s) = 1
          PROVE  s[1] \in S /\ s[1] = Head(s) /\ Tail(s) = <<>>
      <4>1. s # <<>> /\ s[1] \in S /\ s[1] = Head(s)
        BY <3>1
      <4>2. PICK rest : rest = Tail(s)
        OBVIOUS
      <4>3. rest \in Seq(S) /\ Len(rest) = 0
        BY <3>1, <4>1, <4>2
      <4>4. rest = <<>>
        BY <4>3
      <4> QED
        BY <4>1, <4>2, <4>4
    <3>2. fifo[1] \in LetterType /\ fifo[1] = Head(fifo) /\ Tail(fifo) = <<>>
      BY <1>1, <2>1, <3>1
    <3> QED
      BY <2>2, <3>2 DEF LetterType
  <2>4. lib[p].text \o Head(fifo).text = text
    BY <2>1, <2>2, <2>3 DEF Str
  <2>5. fifo' = <<>> /\ lib'[p].at = "reset" /\ lib'[p].msg = MessageOf(text)
    BY <1>1, <2>1, <2>3, <2>4 DEF ReadToEnd, LibType
  <2>6. OnItsWay = {Parcel(p, MessageOf(text))}
    <3>1. 1..Len(fifo) = {1}
      BY <2>1
    <3> QED
      BY <2>1, <2>2, <3>1 DEF OnItsWay
  <2>7. OnItsWay' = {} /\ Carried(p)' = {Parcel(p, MessageOf(text))}
    BY <2>5 DEF OnItsWay, Carried
  <2>8. Parcels' \subseteq Parcels
    BY <1>3, <2>6, <2>7 DEF Parcels
  <2> QED
    BY <1>1, <2>8
<1>10. CASE ResetFlags(p)
  <2>1. /\ lib[p].at = "reset" /\ lib'[p].at = "ret" /\ lib'[p].msg = lib[p].msg /\ fifo' = fifo
    BY <1>1, <1>10 DEF ResetFlags, LibType
  <2>2. Carried(p)' \subseteq Carried(p)
    BY <2>1 DEF Carried
  <2> QED
    BY <1>1, <1>5, <2>1, <2>2
<1> QED
  BY <1>6, <1>7, <1>8, <1>9, <1>10 DEF MessageStep

\* A call goes on and p waits for whom it waited for.
LEMMA CallServes ==
  ASSUME Service, NEW p \in Pid, UNCHANGED <<pc, mem>>,
         \A x \in Pid : sig'[x].term = sig[x].term,
         \A x \in Pid \ {p} : lib'[x] = lib[x], Parcels' \subseteq Parcels,
         StillClient(p), JustRead(p)',
         \A x \in Pid : pc[x] \in Engaged => \A c \in Pid \ {PM} : Told(c, x)' => Told(c, x),
         lib'[p].at \in {"write", "kill"} =>
           lib[p].at \in {"write", "kill"} /\ lib'[p].pid = lib[p].pid
  PROVE  Service'
<1>1. ClientsStay
  <2>1. ASSUME NEW c \in Pid \ {p}, NEW q \in Pid
        PROVE  /\ TermClient(c, q) => TermClient(c, q)'
               /\ SpawnClient(c, q) => SpawnClient(c, q)'
    BY <2>1 DEF TermClient, SpawnClient, Waiting
  <2> QED
    BY <2>1 DEF ClientsStay, StillClient
<1>2. ASSUME NEW x \in Pid PROVE Unasked(x)
  BY DEF Unasked
<1>3. ASSUME NEW x \in Pid PROVE Discreet(x)
  <2>1. pc[x] \in Engaged => (lib[x].at \in {"write", "kill"} => lib[x].pid = PM)
    BY DEF Service, Reports
  <2> QED
    BY <2>1 DEF Discreet
<1>4. ASSUME NEW x \in Pid PROVE JustRead(x)'
  BY DEF Service, JustRead, Waiting
<1> QED
  BY <1>1, <1>2, <1>3, <1>4, ServiceStays

\* p has been told of a text, which is the only one.
LEMMA CheckedText ==
  ASSUME CalmInv, TextInv, NEW p \in Pid, lib[p].unread_flag, lib[p].at = "check"
  PROVE  Only(p, "unread") /\ \A parcel \in Parcels : parcel.to = p
<1>1. Only(p, "unread")
  BY Holder DEF CalmInv, Turn, HasTurn, Claims
<1>2. ASSUME NEW x \in Pid PROVE Carried(x) = {}
  <2>1. lib[x].at # "write" /\ ~(lib[x].at = "ret" /\ pc[x] \in Reading)
    BY <1>1 DEF Only, Busy, BusyAt, Reading, Receiving
  <2>2. lib[x].at # "reset"
    BY <1>1, Reader DEF Only
  <2> QED
    BY <2>1, <2>2 DEF Carried
<1>3. Holds(p, lib[p].message_sender)
  BY DEF TextInv, TextAt
<1>4. \A parcel \in OnItsWay : parcel.to = p
  BY <1>3 DEF Holds, OnItsWay, Parcel
<1> QED
  BY <1>1, <1>2, <1>4 DEF Parcels

\* p has its answer: the one it waited for serves it no longer.
LEMMA AnnouncedServes ==
  ASSUME CalmInv, TextInv, Service, NEW p \in Pid, CheckFlags(p), Announced(p)
  PROVE  Service'
<1>1. /\ TypeInv /\ lib[p] \in LibType /\ UNCHANGED <<pc, mem>> /\ Parcels' \subseteq Parcels
      /\ \A x \in Pid \ {p} : lib'[x] = lib[x]
      /\ PM \in Pid
  BY MessageParcels, PidFacts DEF MessageStep
<1>2. /\ lib[p].at = "check" /\ UNCHANGED sig
      /\ lib'[p] = [lib[p] EXCEPT !.at = "read"]
  BY MessageParcels DEF CheckFlags, MessageStep
<1>3. lib'[p].at = "read" /\ lib'[p].unread_flag = lib[p].unread_flag
      /\ lib'[p].message_sender = lib[p].message_sender
  BY <1>1, <1>2 DEF LibType
<1>4. Only(p, "unread") /\ \A parcel \in Parcels : parcel.to = p
  BY <1>2, CheckedText DEF Announced
<1>5. pc[p] \in Receiving
  BY <1>2 DEF CalmInv, Order, Discipline, CallsOpen, OpenAt
<1>6. p = PM => pc[p] \notin {"exit", "rm_next"}
  BY Manager DEF CalmInv, Managing, ManagerPoints
<1>7. \A c, x \in Pid : Told(c, x)' => Told(c, x)
  BY <1>1, <1>2, <1>3 DEF Told
<1>8. ASSUME NEW x \in Pid, pc[x] \in Engaged PROVE ~TermClient(p, x) /\ ~SpawnClient(p, x)
  <2>1. ~TermClient(p, x)
    <3>1. SUFFICES ASSUME TermClient(p, x) PROVE FALSE
      OBVIOUS
    <3>2. p # PM /\ lib[p].pid = x
      BY <1>6, <3>1 DEF TermClient
    <3>3. Told(p, x)
      BY <1>2, <3>2 DEF Announced, Told, Pid
    <3> QED
      BY <1>8, <3>2, <3>3 DEF Service, Reports
  <2>2. pc[p] # "spawn_sent"
    BY <1>5 DEF Receiving
  <2> QED
    BY <2>1, <2>2 DEF SpawnClient
<1>10. ASSUME NEW x \in Pid PROVE Asked(x)'
  <2>1. Asked(x) /\ sig[x].term = NoPid /\ ~(mem[x].sigterm_flag = 1 /\ pc[x] \notin Terminating)
    BY <1>4 DEF Service, Only
  <2>2. PICK s, r : s = mem[x].sigterm_sender /\ r = mem[x].peer
    OBVIOUS
  <2>3. pc[x] \in Leaving => TermClient(s, x)'
    <3>1. SUFFICES ASSUME pc[x] \in Leaving PROVE TermClient(s, x)'
      OBVIOUS
    <3>2. TermClient(s, x) /\ s \in Pid
      BY <2>1, <2>2, <3>1, ClientIsPid DEF Asked
    <3>3. s # p
      BY <1>8, <3>1, <3>2 DEF Engaged
    <3> QED
      BY <1>1, <3>2, <3>3 DEF TermClient, SpawnClient, Waiting
  <2>4. pc[x] \in CloneWork => SpawnClient(r, x)'
    <3>1. SUFFICES ASSUME pc[x] \in CloneWork PROVE SpawnClient(r, x)'
      OBVIOUS
    <3>2. SpawnClient(r, x) /\ r \in Pid
      BY <2>1, <2>2, <3>1, ClientIsPid DEF Asked
    <3>3. r # p
      BY <1>8, <3>1, <3>2 DEF Engaged
    <3> QED
      BY <1>1, <3>2, <3>3 DEF TermClient, SpawnClient, Waiting
  <2> QED
    BY <1>1, <1>2, <2>1, <2>2, <2>3, <2>4 DEF Asked, TermClient, SpawnClient, Waiting
<1>11. ASSUME NEW x \in Pid PROVE Reports(x)'
  BY <1>1, <1>2, <1>3, <1>7 DEF Service, Reports
<1>12. ASSUME NEW parcel \in Parcels' PROVE Ordered(parcel)'
  <2>1. parcel \in Parcels /\ parcel.to = p /\ Ordered(parcel)
    BY <1>1, <1>4 DEF Service
  <2>2. SUFFICES ASSUME parcel.msg # NULL, parcel.msg.type = MSG_SPAWN, pc[p] \in Family
                 PROVE  SpawnClient(parcel.msg.sender, p)'
    BY <1>1, <2>1 DEF Ordered
  <2>3. PICK s : s = parcel.msg.sender
    OBVIOUS
  <2>4. SpawnClient(s, p) /\ s \in Pid
    BY <2>1, <2>2, <2>3, ClientIsPid DEF Ordered
  <2>5. s # p
    BY <2>2, <2>4 DEF SpawnClient, TermClient, Family, ChildPoints
  <2>6. SpawnClient(s, p)'
    BY <1>1, <2>4, <2>5 DEF TermClient, SpawnClient, Waiting
  <2> QED
    BY <2>3, <2>6 DEF SpawnClient, TermClient, Waiting
<1>13. ASSUME NEW x \in Pid PROVE JustRead(x)'
  BY <1>1, <1>3 DEF Service, JustRead, Waiting
<1> QED
  BY <1>10, <1>11, <1>12, <1>13 DEF Service

LEMMA MessageServes ==
  ASSUME CalmInv, TextInv, Service, NEW p \in Pid, ~TextLost(p), MessageStep(p)
  PROVE  Service'
<1>1. /\ TypeInv /\ lib[p] \in LibType /\ lib \in [Pid -> SoundLib] /\ UNCHANGED <<pc, mem>>
      /\ Parcels' \subseteq Parcels
      /\ \A x \in Pid \ {p} : lib'[x] = lib[x]
      /\ sig \in [Pid -> SignalType]
  BY MessageParcels, Shape DEF CalmInv
<1>2. OpenAt(pc[p], lib[p])
  BY DEF CalmInv, Order, Discipline, CallsOpen
<1>3. ASSUME lib[p].at \notin {"check", "suspend", "asleep"}, pc[p] # "spawn_sent" PROVE NoClient(p)
  BY <1>3 DEF NoClient, TermClient, SpawnClient, Waiting
<1>4. NoClient(p) => StillClient(p)
  BY DEF NoClient, StillClient
<1>5. ASSUME UNCHANGED sig, lib'[p].message_sender = lib[p].message_sender,
             lib[p].at # "reset", lib'[p].unread_flag = lib[p].unread_flag
      PROVE  \A c, x \in Pid : Told(c, x)' => Told(c, x)
  BY <1>1, <1>5 DEF Told
<1>6. CASE WriteText(p)
  <2>1. /\ lib[p].at = "write" /\ lib'[p].at = "kill" /\ lib'[p].pid = lib[p].pid /\ UNCHANGED sig
        /\ lib'[p].message_sender = lib[p].message_sender /\ lib'[p].unread_flag = lib[p].unread_flag
    BY <1>1, <1>6 DEF WriteText, LibType
  <2>2. StillClient(p)
    BY <1>1, <2>1 DEF StillClient, TermClient, SpawnClient, Waiting
  <2>3. JustRead(p)'
    BY <2>1 DEF JustRead, Waiting
  <2>4. \A c, x \in Pid : Told(c, x)' => Told(c, x)
    BY <1>5, <2>1
  <2> QED
    BY <1>1, <2>1, <2>2, <2>3, <2>4, CallServes
<1>7. CASE NotifyReceiver(p)
  <2>1. PICK to : to = lib[p].pid
    OBVIOUS
  <2>2. /\ lib[p].at = "kill" /\ lib'[p].at = "ret" /\ PostUsr1(to, p)
        /\ lib'[p].message_sender = lib[p].message_sender /\ lib'[p].unread_flag = lib[p].unread_flag
        /\ lib'[p].status = IF Exists(to) THEN 0 ELSE -1
    BY <1>1, <1>7, <2>1 DEF NotifyReceiver, LibType
  <2>3. Exists(to)
    BY <1>7, <2>1 DEF TextLost
  <2>4. StillClient(p)
    BY <1>1, <2>2, <2>3 DEF StillClient, TermClient, SpawnClient, Waiting
  <2>5. JustRead(p)'
    BY <2>2 DEF JustRead, Waiting
  <2>6. \A x \in Pid : sig'[x].term = sig[x].term
    BY <1>1, <2>2 DEF PostUsr1, SignalType
  <2>7. \A x \in Pid : sig'[x].usr1 # sig[x].usr1 => x = to /\ sig'[x].usr1 = p
    BY <1>1, <2>2 DEF PostUsr1, SignalType
  <2>8. ASSUME NEW x \in Pid, pc[x] \in Engaged, NEW c \in Pid \ {PM}, Told(c, x)' PROVE Told(c, x)
    <3>1. CASE x = p
      <4>1. to = PM
        BY <2>1, <2>2, <2>8, <3>1 DEF Service, Reports
      <4> QED
        BY <1>1, <2>2, <2>7, <2>8, <4>1 DEF Told
    <3>2. CASE x # p
      BY <1>1, <2>2, <2>7, <2>8, <3>2 DEF Told
    <3> QED
      BY <3>1, <3>2
  <2> QED
    BY <1>1, <2>2, <2>4, <2>5, <2>6, <2>8, CallServes
<1>8. CASE Suspend(p) \/ (CheckFlags(p) /\ ~Announced(p))
  <2>1. /\ lib[p].at \in {"check", "suspend"} /\ lib'[p].at \in {"suspend", "asleep"}
        /\ lib'[p].pid = lib[p].pid /\ UNCHANGED sig
        /\ lib'[p].message_sender = lib[p].message_sender /\ lib'[p].unread_flag = lib[p].unread_flag
    BY <1>1, <1>8 DEF CheckFlags, Suspend, LibType
  <2>2. StillClient(p)
    BY <1>1, <2>1 DEF StillClient, TermClient, SpawnClient, Waiting
  <2>3. JustRead(p)'
    BY <1>1, <2>1 DEF Service, JustRead, Waiting
  <2>4. \A c, x \in Pid : Told(c, x)' => Told(c, x)
    BY <1>5, <2>1
  <2> QED
    BY <1>1, <2>1, <2>2, <2>3, <2>4, CallServes
<1>9. CASE ReadText(p)
  <2>0. lib[p].at = "read" /\ UNCHANGED sig /\ ReadToEnd(p)
    BY <1>9, ReadsWhole DEF ReadText
  <2>1. /\ lib[p].at = "read" /\ lib'[p].at = "reset" /\ UNCHANGED sig
        /\ lib'[p].message_sender = lib[p].message_sender /\ lib'[p].unread_flag = lib[p].unread_flag
    BY <1>1, <2>0 DEF ReadToEnd, LibType
  <2>2. StillClient(p)
    BY <1>2, <1>3, <1>4, <2>1 DEF OpenAt, Receiving
  <2>3. JustRead(p)'
    BY <2>1 DEF JustRead, Waiting
  <2>4. \A c, x \in Pid : Told(c, x)' => Told(c, x)
    BY <1>5, <2>1
  <2> QED
    BY <1>1, <2>1, <2>2, <2>3, <2>4, CallServes
<1>10. CASE ResetFlags(p)
  <2>1. /\ lib[p].at = "reset" /\ lib'[p].at = "ret" /\ UNCHANGED sig /\ ~lib'[p].unread_flag
    BY <1>1, <1>10 DEF ResetFlags, LibType
  <2>2. StillClient(p)
    BY <1>2, <1>3, <1>4, <2>1 DEF OpenAt, Receiving
  <2>3. JustRead(p)'
    BY <2>1 DEF JustRead, Waiting
  <2>4. \A c, x \in Pid : Told(c, x)' => Told(c, x)
    BY <1>1, <2>1 DEF Told
  <2> QED
    BY <1>1, <2>1, <2>2, <2>3, <2>4, CallServes
<1> QED
  BY <1>6, <1>7, <1>8, <1>9, <1>10, AnnouncedServes DEF MessageStep

-----------------------------------------------------------------------------
(***************************************************************************)
(* The signals.                                                            *)
(***************************************************************************)
\* A handler that leaves a flag: p waits for whom it waited for, and what the flag
\* says has been said by the signal.
LEMMA HandlerServes ==
  ASSUME CalmInv, Service, NEW p \in Pid, fifo' = fifo,
         pc[p] \notin Gone, ~Busy(p) \/ pc[p] \in ChildPoints,
         pc'[p] \in AfterSignal(p),
         \A x \in Pid \ {p} :
           /\ lib'[x] = lib[x] /\ (pc'[x] = pc[x] \/ (pc[x] = "zombie" /\ pc'[x] = "dead"))
           /\ mem'[x] = mem[x] /\ sig'[x] = sig[x],
         lib'[p].at = WokenAt(lib[p].at), lib'[p].pid = lib[p].pid, lib'[p].status = lib[p].status,
         lib'[p].text = lib[p].text, lib'[p].msg = lib[p].msg,
         mem'[p].peer = mem[p].peer,
         sig'[p].term \in {NoPid, sig[p].term},
         mem'[p] = mem[p] \/ (sig[p].term # NoPid /\ mem'[p].sigterm_sender = sig[p].term),
         \A x \in Pid : Told(p, x)' => Told(p, x)
  PROVE  Service'
<1>1. \/ pc'[p] = pc[p]
      \/ pc[p] = "asleep" /\ pc'[p] = "flag"
      \/ pc[p] = "waitpid" /\ pc'[p] = "poll"
  BY HandlerPoint
<1>2. \/ lib'[p].at = lib[p].at
      \/ lib[p].at = "asleep" /\ lib'[p].at = "check"
  BY DEF WokenAt
<1>3. ClientsStay
  <2>1. ASSUME NEW c \in Pid \ {p}, NEW q \in Pid
        PROVE  /\ TermClient(c, q) => TermClient(c, q)'
               /\ SpawnClient(c, q) => SpawnClient(c, q)'
    BY <2>1 DEF TermClient, SpawnClient, Waiting
  <2>2. ASSUME NEW q \in Pid
        PROVE  /\ TermClient(p, q) => TermClient(p, q)'
               /\ SpawnClient(p, q) => SpawnClient(p, q)'
    BY <1>1, <1>2, <2>2 DEF TermClient, SpawnClient, Waiting
  <2> QED
    BY <2>1, <2>2 DEF ClientsStay
<1>4. ASSUME NEW c \in Pid, NEW x \in Pid, Told(c, x)' PROVE Told(c, x)
  <2>1. CASE c # p
    BY <1>4, <2>1 DEF Told
  <2> QED
    BY <1>4, <2>1
<1>5. ASSUME NEW x \in Pid PROVE Discreet(x)
  <2>1. pc'[x] \in Engaged => pc[x] \in Engaged
    BY <1>1 DEF Engaged, Leaving, CloneWork, Cloning
  <2>2. lib'[x].at \in {"write", "kill"} => lib[x].at \in {"write", "kill"} /\ lib'[x].pid = lib[x].pid
    BY <1>2
  <2> QED
    BY <1>4, <2>1, <2>2 DEF Discreet, Service, Reports
<1>6. ASSUME NEW x \in Pid PROVE Unasked(x) \/ Asked(x)'
  <2>1. CASE x # p
    BY <2>1 DEF Unasked, Leaving, CloneWork, Cloning, Terminating
  <2>2. CASE x = p /\ mem'[p] = mem[p]
    BY <1>1, <2>2 DEF Unasked, Leaving, CloneWork, Cloning, Terminating
  <2>3. CASE x = p /\ sig[p].term # NoPid /\ mem'[p].sigterm_sender = sig[p].term
    <3>1. PICK t, r : t = sig[p].term /\ r = mem[p].peer
      OBVIOUS
    <3>2. \A c : /\ TermClient(c, p) => TermClient(c, p)'
                 /\ SpawnClient(c, p) => SpawnClient(c, p)'
      BY <1>3, ClientIsPid DEF ClientsStay
    <3>3. TermClient(t, p)' /\ (pc[p] \in CloneWork => SpawnClient(r, p)')
      BY <2>3, <3>1, <3>2 DEF Service, Asked
    <3>4. /\ sig'[p].term \in {NoPid, t} /\ mem'[p].sigterm_sender = t /\ mem'[p].peer = r
          /\ pc'[p] \in CloneWork => pc[p] \in CloneWork
      BY <1>1, <2>3, <3>1 DEF CloneWork, Cloning
    <3> QED
      BY <2>3, <3>3, <3>4 DEF Asked, TermClient, SpawnClient, Waiting
  <2> QED
    BY <2>1, <2>2, <2>3
<1>7. \A x \in Pid : pc'[x] \in Family => pc[x] \in Family
  BY <1>1 DEF Family, ChildPoints
<1>8. \A x \in Pid : JustRead(x)'
  BY <1>1, <1>2 DEF Service, JustRead, Waiting
<1>9. Parcels' \subseteq Parcels
  <2>1. OnItsWay' = OnItsWay
    BY DEF OnItsWay
  <2>2. Carried(p)' \subseteq Carried(p)
    BY <1>1, <1>2 DEF Carried, Reading
  <2>3. \A x \in Pid \ {p} : Carried(x)' \subseteq Carried(x)
    BY DEF Carried, Reading
  <2> QED
    BY <2>1, <2>2, <2>3 DEF Parcels
<1> QED
  BY <1>3, <1>5, <1>6, <1>7, <1>8, <1>9, ServiceStays

LEMMA FlagServes ==
  ASSUME CalmInv, Service, NEW p \in Pid,
         set_unread_flag(p) \/ sigterm_handler(p) \/ remove_zombie(p)
  PROVE  Service'
<1>1. /\ TypeInv /\ pc \in [Pid -> Points] /\ lib \in [Pid -> SoundLib] /\ lib[p] \in LibType
      /\ mem \in [Pid -> SoundMem] /\ mem[p] \in MemType /\ sig \in [Pid -> SignalType]
      /\ sig[p] \in SignalType
  BY Shape DEF CalmInv, SoundLib, SoundMem
<1>2. CASE set_unread_flag(p)
  <2>1. /\ UNCHANGED <<fifo, mem>> /\ pc[p] \notin Gone /\ sig[p].usr1 # NoPid
        /\ \E point \in AfterSignal(p) : pc' = [pc EXCEPT ![p] = point]
        /\ sig' = [sig EXCEPT ![p].usr1 = NoPid]
        /\ lib' = [lib EXCEPT ![p].unread_flag = TRUE,
                              ![p].message_sender = sig[p].usr1,
                              ![p].at = WokenAt(@)]
    BY <1>2 DEF set_unread_flag, Alive
  <2>2. /\ lib'[p].at = WokenAt(lib[p].at) /\ lib'[p].pid = lib[p].pid /\ lib'[p].status = lib[p].status
        /\ lib'[p].text = lib[p].text /\ lib'[p].msg = lib[p].msg
        /\ lib'[p].message_sender = sig[p].usr1
        /\ \A x \in Pid \ {p} : lib'[x] = lib[x]
    BY <1>1, <2>1 DEF LibType
  <2>3. /\ sig'[p].usr1 = NoPid /\ sig'[p].term = sig[p].term
        /\ \A x \in Pid \ {p} : sig'[x] = sig[x]
    BY <1>1, <2>1 DEF SignalType
  <2>4. HasTurn(p, "usr1") /\ "usr1" \in Claims
    BY <2>1 DEF HasTurn, Claims
  <2>5. ~Busy(p)
    BY <2>4, Holder DEF CalmInv, Turn, Only
  <2>6. pc'[p] \in AfterSignal(p) /\ \A x \in Pid \ {p} : pc'[x] = pc[x]
    BY <1>1, <2>1
  <2>7. \A x \in Pid : Told(p, x)' => Told(p, x)
    BY <2>2, <2>3 DEF Told, NoPid, Pid
  <2> QED
    BY <2>1, <2>2, <2>3, <2>5, <2>6, <2>7, HandlerServes
<1>3. CASE sigterm_handler(p)
  <2>1. /\ fifo' = fifo /\ pc[p] \in ChildPoints /\ sig[p].term # NoPid
        /\ \E point \in AfterSignal(p) : pc' = [pc EXCEPT ![p] = point]
        /\ sig' = [sig EXCEPT ![p].term = NoPid]
        /\ lib' = [lib EXCEPT ![p].at = WokenAt(@)]
        /\ mem' = [mem EXCEPT ![p].sigterm_flag = 1, ![p].sigterm_sender = sig[p].term,
                              ![p].overwrote = mem[p].sigterm_flag = 1]
    BY <1>3 DEF sigterm_handler
  <2>2. /\ lib'[p].at = WokenAt(lib[p].at) /\ lib'[p].pid = lib[p].pid /\ lib'[p].status = lib[p].status
        /\ lib'[p].text = lib[p].text /\ lib'[p].msg = lib[p].msg
        /\ lib'[p].message_sender = lib[p].message_sender /\ lib'[p].unread_flag = lib[p].unread_flag
        /\ \A x \in Pid \ {p} : lib'[x] = lib[x]
    BY <1>1, <2>1 DEF LibType
  <2>3. /\ sig'[p].usr1 = sig[p].usr1 /\ sig'[p].term = NoPid
        /\ \A x \in Pid \ {p} : sig'[x] = sig[x]
    BY <1>1, <2>1 DEF SignalType
  <2>4. /\ mem'[p].sigterm_sender = sig[p].term /\ mem'[p].peer = mem[p].peer
        /\ \A x \in Pid \ {p} : mem'[x] = mem[x]
    BY <1>1, <2>1 DEF MemType
  <2>5. pc'[p] \in AfterSignal(p) /\ (\A x \in Pid \ {p} : pc'[x] = pc[x]) /\ pc[p] \notin Gone
    BY <1>1, <2>1 DEF ChildPoints, Gone
  <2>6. \A x \in Pid : Told(p, x)' => Told(p, x)
    BY <2>2, <2>3 DEF Told, WokenAt
  <2> QED
    BY <2>1, <2>2, <2>3, <2>4, <2>5, <2>6, HandlerServes
<1>4. CASE remove_zombie(p)
  <2>1. /\ UNCHANGED <<fifo, mem>> /\ pc[p] \in ChildPoints
        /\ sig' = [sig EXCEPT ![p].chld = FALSE]
        /\ lib' = [lib EXCEPT ![p].at = WokenAt(@)]
    BY <1>4 DEF remove_zombie
  <2>2. /\ lib'[p].at = WokenAt(lib[p].at) /\ lib'[p].pid = lib[p].pid /\ lib'[p].status = lib[p].status
        /\ lib'[p].text = lib[p].text /\ lib'[p].msg = lib[p].msg
        /\ lib'[p].message_sender = lib[p].message_sender /\ lib'[p].unread_flag = lib[p].unread_flag
        /\ \A x \in Pid \ {p} : lib'[x] = lib[x]
    BY <1>1, <2>1 DEF LibType
  <2>3. /\ sig'[p].usr1 = sig[p].usr1 /\ sig'[p].term = sig[p].term
        /\ \A x \in Pid \ {p} : sig'[x] = sig[x]
    BY <1>1, <2>1 DEF SignalType
  <2>4. PICK q \in Zombies(p), point \in AfterSignal(p) : pc' = [pc EXCEPT ![q] = "dead", ![p] = point]
    BY <1>4 DEF remove_zombie
  <2>5. q \in Pid /\ pc[q] = "zombie"
    BY DEF Zombies
  <2>6. /\ pc'[p] \in AfterSignal(p)
        /\ \A x \in Pid \ {p} : pc'[x] = pc[x] \/ (pc[x] = "zombie" /\ pc'[x] = "dead")
    BY <1>1, <2>4, <2>5
  <2>7. pc[p] \notin Gone
    BY <2>1 DEF ChildPoints, Gone
  <2>8. \A x \in Pid : Told(p, x)' => Told(p, x)
    BY <2>2, <2>3 DEF Told, WokenAt
  <2> QED
    BY <2>1, <2>2, <2>3, <2>6, <2>7, <2>8, HandlerServes
<1> QED
  BY <1>2, <1>3, <1>4

LEMMA BootServes ==
  ASSUME CalmInv, Service, NEW p \in Pid, KilledAtBoot(p)
  PROVE  Service'
<1>1. /\ pc[p] = "boot" /\ fifo' = fifo
      /\ pc'[p] = "killed" /\ lib'[p] = BlankLib /\ mem'[p] = BlankMem /\ sig'[p] = NoSignals
      /\ \A x \in Pid \ {p} : pc'[x] = pc[x] /\ lib'[x] = lib[x] /\ mem'[x] = mem[x] /\ sig'[x] = sig[x]
  BY Shape DEF CalmInv, KilledAtBoot
<1>2. ClientsStay
  <2>1. ASSUME NEW c \in Pid, NEW q \in Pid
        PROVE  /\ TermClient(c, q) => TermClient(c, q)'
               /\ SpawnClient(c, q) => SpawnClient(c, q)'
    BY <1>1, <2>1 DEF TermClient, SpawnClient, Waiting
  <2> QED
    BY <2>1 DEF ClientsStay
<1>3. \A c, x \in Pid : Told(c, x)' => Told(c, x)
  BY <1>1 DEF Told, NoSignals, BlankLib, NoPid, Pid
<1>4. ASSUME NEW x \in Pid PROVE Unasked(x) /\ Discreet(x) /\ JustRead(x)'
  <2>1. CASE x = p
    BY <1>1, <2>1
    DEF Unasked, Discreet, JustRead, NoSignals, BlankMem, Engaged, Leaving, CloneWork, Cloning
  <2>2. CASE x # p
    BY <1>1, <1>3, <2>2 DEF Unasked, Discreet, JustRead, Service, Reports, Waiting
  <2> QED
    BY <2>1, <2>2
<1>5. \A x \in Pid : pc'[x] \in Family => pc[x] \in Family
  BY <1>1 DEF Family, ChildPoints
<1>6. Parcels' \subseteq Parcels
  <2>1. OnItsWay' = OnItsWay
    BY <1>1 DEF OnItsWay
  <2>2. Carried(p)' = {}
    BY <1>1 DEF Carried, BlankLib, Reading
  <2>3. \A x \in Pid \ {p} : Carried(x)' = Carried(x)
    BY <1>1 DEF Carried
  <2> QED
    BY <2>1, <2>2, <2>3 DEF Parcels
<1> QED
  BY <1>2, <1>4, <1>5, <1>6, ServiceStays

\* pmanager, which has been told to end, waits for its command only.
LEMMA EndServes ==
  ASSUME CalmInv, Service, NEW p \in Pid, terminate(p)
  PROVE  Service'
<1>1. /\ TypeInv /\ pc[p] \in ManagerPoints /\ ~sig[p].int /\ lib[p] \in LibType /\ PM \in Pid
      /\ fifo' = fifo /\ mem[p] \in MemType
  BY Shape, PidFacts DEF CalmInv, Order, Discipline, NoInterrupt, terminate, SoundLib, SoundMem
<1>2. sig[p].term # NoPid
  BY <1>1 DEF terminate, Deliverable
<1>3. Only(p, "term")
  <2>1. HasTurn(p, "term") /\ "term" \in Claims
    BY <1>2 DEF HasTurn, Claims
  <2> QED
    BY <2>1, Holder DEF CalmInv, Turn
<1>4. ~Busy(p)
  BY <1>3 DEF Only
<1>5. pc[p] # "exec"
  BY <1>1, <1>4
  DEF Busy, BusyAt, CalmInv, Order, Discipline, CallsOpen, OpenAt, LibType, CallPoints, Sending,
      Answering, Receiving
<1>6. p = PM /\ pc[p] \in Managing
  BY <1>1, <1>5, Manager DEF CalmInv, Managing
<1>7. NoClient(p)
  BY <1>6 DEF NoClient, TermClient, SpawnClient, Managing, ManagerPoints
<1>8. CASE Exit(p)
  <2>1. pc[p] \notin Gone
    BY <1>6 DEF Managing, ManagerPoints, Gone
  <2> QED
    BY <1>1, <1>7, <1>8, <2>1, ExitServes DEF Exit
<1>9. ASSUME NEW s \in Deliverable(p), NEW l, NEW m, Goto(PM, "cleanup", l, m),
             sig' = IF s = "int" THEN [sig EXCEPT ![p].int = FALSE] ELSE [sig EXCEPT ![p].term = NoPid],
             l = [lib[p] EXCEPT !.at = "ret", !.pid = NoPid, !.text = <<>>, !.msg = NULL],
             m = [ExitingManager(p) EXCEPT !.masked = @ \union {s}]
       PROVE  Service'
  <2>1. /\ l.at = "ret" /\ l.unread_flag = lib[p].unread_flag /\ m.sigterm_flag = 0
    BY <1>1, <1>9 DEF LibType, ExitingManager, NewCommand, BlankMem
  <2>2. /\ pc'[p] = "cleanup" /\ lib'[p] = l /\ mem'[p] = m
        /\ \A x \in Pid \ {p} : pc'[x] = pc[x] /\ lib'[x] = lib[x] /\ mem'[x] = mem[x]
    BY <1>1, <1>6, <1>9, Shape DEF Goto
  <2>3. \A x \in Pid : sig'[x].usr1 = sig[x].usr1 /\ sig'[x].term \in {NoPid, sig[x].term}
    BY <1>1, <1>9, Shape DEF SignalType
  <2>4. ClientsStay
    <3>1. ASSUME NEW c \in Pid \ {p}, NEW q \in Pid
          PROVE  /\ TermClient(c, q) => TermClient(c, q)'
                 /\ SpawnClient(c, q) => SpawnClient(c, q)'
      BY <2>2, <3>1 DEF TermClient, SpawnClient, Waiting
    <3> QED
      BY <1>7, <3>1 DEF ClientsStay, NoClient
  <2>5. ASSUME NEW c \in Pid, NEW x \in Pid, Told(c, x)' PROVE Told(c, x)
    <3>1. CASE c = p
      <4>1. ~lib[p].unread_flag
        BY <1>3 DEF Only
      <4> QED
        BY <2>1, <2>2, <2>3, <2>5, <3>1, <4>1 DEF Told
    <3>2. CASE c # p
      BY <2>2, <2>3, <2>5, <3>2 DEF Told
    <3> QED
      BY <3>1, <3>2
  <2>6. ASSUME NEW x \in Pid PROVE Unasked(x) /\ Discreet(x) /\ JustRead(x)'
    <3>1. CASE x = p
      BY <2>1, <2>2, <2>3, <3>1
      DEF Unasked, Discreet, JustRead, Engaged, Leaving, CloneWork, Cloning
    <3>2. CASE x # p
      <4>1. Unasked(x)
        BY <2>2, <2>3, <3>2 DEF Unasked
      <4>2. Discreet(x)
        BY <2>2, <2>5, <3>2 DEF Discreet, Service, Reports
      <4>3. JustRead(x)'
        BY <2>2, <3>2 DEF JustRead, Service, Waiting
      <4> QED
        BY <4>1, <4>2, <4>3
    <3> QED
      BY <3>1, <3>2
  <2>7. \A x \in Pid : pc'[x] \in Family => pc[x] \in Family
    BY <2>2 DEF Family, ChildPoints
  <2>8. Parcels' \subseteq Parcels
    <3>1. OnItsWay' = OnItsWay
      BY <1>1 DEF OnItsWay
    <3>2. Carried(p)' = {}
      BY <2>1, <2>2 DEF Carried, Reading
    <3>3. \A x \in Pid \ {p} : Carried(x)' = Carried(x)
      BY <2>2 DEF Carried
    <3> QED
      BY <3>1, <3>2, <3>3 DEF Parcels
  <2> QED
    BY <2>4, <2>6, <2>7, <2>8, ServiceStays
<1> QED
  BY <1>6, <1>8, <1>9 DEF terminate

-----------------------------------------------------------------------------
LEMMA InitServes == Init => Service
<1> SUFFICES ASSUME Init PROVE Service
  OBVIOUS
<1>1. /\ fifo = <<>>
      /\ \A p \in Pid : /\ lib[p] = BlankLib /\ sig[p] = NoSignals /\ pc[p] \in {"readline", "unborn"}
                        /\ mem[p].sigterm_flag = 0
  BY DEF Init, NewCommand, BlankMem
<1>2. Parcels = {}
  <2>1. \A p \in Pid : Carried(p) = {}
    BY <1>1 DEF Carried, BlankLib, Reading
  <2>2. OnItsWay = {}
    BY <1>1 DEF OnItsWay
  <2> QED
    BY <2>1, <2>2 DEF Parcels
<1>3. \A p \in Pid : Asked(p)
  BY <1>1 DEF Asked, NoSignals, Leaving, CloneWork, Cloning
<1>4. \A p \in Pid : Reports(p) /\ JustRead(p)
  BY <1>1 DEF Reports, JustRead, Engaged, Leaving, CloneWork, Cloning
<1> QED
  BY <1>2, <1>3, <1>4 DEF Service

LEMMA StepService ==
  ASSUME CalmInv, TextInv, Service, [MailStep]_vars
  PROVE  Service'
<1>1. CASE UNCHANGED vars
  BY <1>1, SameServes DEF vars
<1>2. CASE MailStep
  <2>1. \A p \in Pid : ~CopyCleansUp(p) /\ ~CloneRefused(p) /\ ~TextLost(p)
    BY <1>2 DEF MailStep, Incident
  <2>2. CASE UserStep
    BY <2>2, UserServes DEF UserStep
  <2>3. ASSUME NEW p \in Pid, ProcessStep(p)
        PROVE  Service'
    BY <2>1, <2>3, MessageServes, ChildStepServes, CommandServes, ManagerServes DEF ProcessStep
  <2>4. ASSUME NEW p \in Pid, SignalStep(p)
        PROVE  Service'
    <3>1. ~DieOfInterrupt(p)
      BY DEF CalmInv, Order, Discipline, NoInterrupt, DieOfInterrupt, Dying, Interrupted
    <3> QED
      BY <2>4, <3>1, FlagServes, BootServes, EndServes DEF SignalStep, ChildSignal
  <2> QED
    BY <1>2, <2>2, <2>3, <2>4 DEF MailStep, Next, Incident
<1> QED
  BY <1>1, <1>2

\* Whoever made a managed process serve a request waits for its answer, and the
\* process tells nobody but pmanager of anything while it serves it: until an
\* incident, or a text that loses its addressee.
THEOREM ServedWaits == MailSpec => []Service
<1>1. CalmInv /\ TextInv /\ Service /\ [MailStep]_vars => Service'
  BY StepService
<1> QED
  BY <1>1, InitServes, MailInvHolds, PTL DEF MailSpec, MailStep

-----------------------------------------------------------------------------
(***************************************************************************)
(* The prompt.                                                             *)
(***************************************************************************)
\* Nobody but a command left behind serves a request, or waits for an answer, when
\* pmanager has no command.
LEMMA PromptUnserved ==
  ASSUME CalmInv, Attendance, Service, pc[PM] = "readline", NEW p \in Pid \ {PM}
  PROVE  pc[p] \notin Engaged
<1>1. Deserted
  <2>1. Command = NoPid
    BY DEF Attendance, NoCommand
  <2> QED
    BY <2>1, PromptDeserted
<1>2. ASSUME NEW c, SpawnClient(c, p) PROVE FALSE
  <2>1. c \in Pid /\ pc[c] \in Working
    BY <1>2 DEF SpawnClient, TermClient, Working, CommandPoints
  <2>2. pc[c] = "exit" /\ (lib[c].at = "ret" \/ lib[c].pid = PM)
    BY <1>1, <2>1 DEF Deserted, LeftBehind
  <2> QED
    BY <1>2, <2>2 DEF SpawnClient, TermClient, Waiting
<1>3. ASSUME pc[p] \in Leaving PROVE FALSE
  BY <1>2, <1>3 DEF Service, Asked, SpawnClient
<1>4. ASSUME pc[p] \in CloneWork PROVE FALSE
  BY <1>2, <1>4 DEF Service, Asked
<1> QED
  BY <1>3, <1>4 DEF Engaged

LEMMA PromptIsQuiet ==
  ASSUME CalmInv, TextInv, Attendance, Service
  PROVE  QuietAtPrompt
<1> SUFFICES ASSUME pc[PM] = "readline"
             PROVE  /\ fifo = <<>>
                    /\ \A p \in Pid : sig[p].usr1 = NoPid /\ sig[p].term = NoPid
                    /\ ~lib[PM].unread_flag
                    /\ \A p \in Pid : lib[p].at \in {"ret", "asleep"} \/ pc[p] = "exit"
  BY DEF QuietAtPrompt
<1>1. PM \in Pid /\ \A p \in Pid : lib[p].at \in CallPoints
  BY PidFacts, Shape DEF CalmInv, SoundLib, LibType
<1>2. \A p \in Pid : OpenAt(pc[p], lib[p])
  BY DEF CalmInv, Order, Discipline, CallsOpen
<1>3. lib[PM].at = "ret"
  BY <1>1, <1>2 DEF OpenAt, CallPoints, Sending, Answering, Receiving
<1>4. Only(PM, "busy")
  <2>1. HasTurn(PM, "busy") /\ "busy" \in Claims
    BY <1>3 DEF HasTurn, Claims, Busy, BusyAt
  <2> QED
    BY <1>1, <2>1, Holder DEF CalmInv, Turn
<1>5. \A p \in Pid : sig[p].usr1 = NoPid /\ sig[p].term = NoPid /\ ~lib[p].unread_flag
  BY <1>4 DEF Only
<1>6. \A p \in Pid : lib[p].at \notin {"write", "kill"}
  BY <1>3, <1>4 DEF Only, Busy, BusyAt
<1>7. fifo = <<>>
  BY <1>5, <1>6 DEF TextInv, Announcing
<1>8. ASSUME NEW p \in Pid \ {PM}, lib[p].at \notin {"ret", "asleep"}, pc[p] # "exit"
      PROVE  FALSE
  <2>1. lib[p].at \in {"check", "suspend"} /\ pc[p] \in Receiving
    BY <1>1, <1>2, <1>5, <1>6, <1>8 DEF CallPoints, OpenAt
  <2>2. pc[p] \notin Working
    <3>1. Deserted
      BY PromptDeserted DEF Attendance, NoCommand
    <3> QED
      BY <1>8, <3>1 DEF Deserted, LeftBehind
  <2>3. pc[p] \notin {"handle", "list_ack"}
    BY Manager DEF CalmInv, Managing, ManagerPoints
  <2>4. pc[p] # "got"
    BY <2>1 DEF Service, JustRead, Waiting
  <2>5. pc[p] \in {"term_reply", "clone_reply", "clone_added"}
    BY <1>8, <2>1, <2>2, <2>3, <2>4 DEF Receiving, Working, CommandPoints
  <2> QED
    BY <2>5, PromptUnserved DEF Engaged, Leaving, CloneWork, Cloning
<1>9. \A p \in Pid : lib[p].at \in {"ret", "asleep"} \/ pc[p] = "exit"
  BY <1>3, <1>8
<1> QED
  BY <1>1, <1>5, <1>7, <1>9

\* What a command has set in motion is over when pmanager reads the next line: the
\* FIFO is empty, no signal is pending, pmanager has no unread text, and the others
\* have no call of message.c open.
THEOREM PromptQuiet == MailSpec => []QuietAtPrompt
<1>1. CalmInv /\ TextInv /\ Attendance /\ Service => QuietAtPrompt
  BY PromptIsQuiet
<1> QED
  BY <1>1, MailIsCalm, AttendsToOne, ServedWaits, MailInvHolds, PTL
=============================================================================
