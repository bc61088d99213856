-------------------------- MODULE RefinementProofs --------------------------
(***************************************************************************)
(* That the running shell implements its abstract specifications, for      *)
(* every script and every number of processes, as long as no incident has  *)
(* happened: its messages are those of module Mailboxes, and pmanager's    *)
(* tree is that of module ProcTable, and right about who is whose child.   *)
(*                                                                         *)
(* The first part: a process reads the text it has been told of, as long   *)
(* as no text has lost its addressee, for the one text in the FIFO goes    *)
(* with the turn.  Most steps are quiet: they leave the FIFO and its       *)
(* announcement alone.  The others are those of message_send() and         *)
(* message_read() themselves and the handler of SIGUSR1.                   *)
(*                                                                         *)
(* The second part: whatever is requested, and in whatever order, the tree *)
(* stays a tree.  Most steps are plain: they bring no request to add a     *)
(* process.  The others are the fork()s of pnew and of child_clone(),      *)
(* which make such a request, the calls of message.c, which carry it, and  *)
(* message_handler(), which serves it.                                     *)
(*                                                                         *)
(* The third part: the tree agrees with the kernel on whose child a clone  *)
(* is.  That a step keeps what is true of a process is shown once for each *)
(* way of going on (GotoKin), forking (ForkKin) and ending (ExitKin), and  *)
(* for the one change of the tree (TreeKin); each action is one of these,  *)
(* and what it writes is right when it is written (Fresh).                 *)
(***************************************************************************)
EXTENDS Families, TurnProofs

(***************************************************************************)
(* Texts and mailboxes.                                                    *)
(***************************************************************************)

\* Between two calls a program goes on, or starts another call.
Begins(p, l) ==
  /\ l.unread_flag = lib[p].unread_flag /\ l.message_sender = lib[p].message_sender
  /\ l.at \in {"ret", "write", "check", "read"}
  /\ l.at = "write" => Signed(l.text, p)
  /\ l.at \in {"check", "read"} => l.text = <<>>
  /\ l.at = "read" => l.pid = NoPid

\* x is left alone, starts a call, leaves sigsuspend(), or starts afresh while it
\* has nothing to do with the text.
QuietStep(x) ==
  \/ /\ sig'[x].usr1 = sig[x].usr1
     /\ \/ lib'[x] = lib[x]
        \/ lib[x].at = "ret" /\ Begins(x, lib'[x])
        \/ lib'[x] = [lib[x] EXCEPT !.at = WokenAt(@)]
  \/ /\ ~Announcing(x) /\ sig'[x].usr1 = NoPid
     /\ lib'[x].at = "ret" /\ ~lib'[x].unread_flag

Quiet == fifo' = fifo /\ \A x \in Pid : QuietStep(x)

-----------------------------------------------------------------------------
LEMMA SendBegins ==
  ASSUME TypeInv, NEW p \in Pid, NEW to, NEW type \in MsgType, NEW content \in Str
  PROVE  Begins(p, message_send(p, to, type, content))
<1> DEFINE head == <<p, Colon, type, Colon>>
<1>1. p \in Atom /\ Colon \in Atom /\ type \in Atom
  BY PidFacts, AtomFacts
<1>2. head \in Seq(Atom) /\ Len(head) = 4 /\ head[1] = p /\ head[2] = Colon
  BY <1>1
<1>3. MessageText(p, type, content) = head \o content
  BY DEF MessageText
<1> HIDE DEF head
<1>4. (head \o content)[1] = p /\ (head \o content)[2] = Colon /\ Len(head \o content) > 1
  <2>1. content \in Seq(Atom) /\ Len(content) \in Nat
    BY DEF Str
  <2>2. /\ Len(head \o content) = Len(head) + Len(content)
        /\ \A i \in 1..(Len(head) + Len(content)) :
             (head \o content)[i] = IF i <= Len(head) THEN head[i] ELSE content[i - Len(head)]
    BY <1>2, <2>1, ConcatProperties
  <2> QED
    BY <1>2, <2>1, <2>2
<1>5. Signed(MessageText(p, type, content), p)
  BY <1>3, <1>4 DEF Signed
<1>6. lib[p] \in LibType
  BY Shape DEF SoundLib
<1> QED
  BY <1>5, <1>6 DEF message_send, Begins, LibType

LEMMA WaitBegins ==
  ASSUME TypeInv, NEW p \in Pid
  PROVE  /\ \A from : Begins(p, message_wait(p, from))
         /\ Begins(p, message_read(p))
         /\ lib[p].at = "ret" => Begins(p, lib[p]) /\ Begins(p, [lib[p] EXCEPT !.msg = NULL])
<1>1. lib[p] \in LibType
  BY Shape DEF SoundLib
<1> QED
  BY <1>1 DEF message_wait, message_read, Begins, LibType

\* A quiet step leaves the text with whoever has to do with it.
LEMMA QuietText ==
  ASSUME CalmInv, TextInv, Quiet
  PROVE  TextInv'
<1>1. ASSUME NEW x \in Pid
      PROVE  TextAt(x)' /\ (Announcing(x) => Announcing(x)')
  <2>1. lib[x] \in LibType /\ TextAt(x) /\ fifo' = fifo
    BY <1>1, Shape DEF CalmInv, SoundLib, TextInv, Quiet
  <2>2. QuietStep(x)
    BY <1>1 DEF Quiet
  <2>3. CASE lib'[x] = lib[x] /\ sig'[x].usr1 = sig[x].usr1
    BY <2>1, <2>3 DEF TextAt, Announcing, Holds
  <2>4. CASE lib[x].at = "ret" /\ Begins(x, lib'[x]) /\ sig'[x].usr1 = sig[x].usr1
    <3>1. lib'[x].at \notin {"kill", "reset", "suspend", "asleep"}
      BY <2>4 DEF Begins
    <3> QED
      BY <2>1, <2>4, <3>1 DEF TextAt, Announcing, Holds, Begins
  <2>5. CASE lib'[x] = [lib[x] EXCEPT !.at = WokenAt(@)] /\ sig'[x].usr1 = sig[x].usr1
    <3>1. /\ lib'[x].unread_flag = lib[x].unread_flag
          /\ lib'[x].message_sender = lib[x].message_sender
          /\ lib'[x].pid = lib[x].pid /\ lib'[x].text = lib[x].text
          /\ \/ lib'[x].at = lib[x].at
             \/ lib'[x].at = "check" /\ lib[x].at = "asleep"
      BY <2>1, <2>5 DEF LibType, WokenAt
    <3> QED
      BY <2>1, <2>5, <3>1 DEF TextAt, Announcing, Holds
  <2>6. CASE ~Announcing(x) /\ sig'[x].usr1 = NoPid /\ lib'[x].at = "ret" /\ ~lib'[x].unread_flag
    BY <2>6 DEF TextAt
  <2> QED
    BY <2>2, <2>3, <2>4, <2>5, <2>6 DEF QuietStep
<1>2. fifo # <<>> => \E p \in Pid : Announcing(p)'
  BY <1>1 DEF TextInv
<1>3. fifo' # <<>> => \E p \in Pid : Announcing(p)'
  BY <1>2 DEF Quiet
<1> QED
  BY <1>1, <1>3 DEF TextInv

LEMMA TermKeepsUsr1 ==
  ASSUME TypeInv, NEW p, UNCHANGED sig \/ \E q : PostTerm(q, p)
  PROVE  \A x \in Pid : sig'[x].usr1 = sig[x].usr1
  BY Shape DEF PostTerm, SignalType

LEMMA GotoQuiet ==
  ASSUME CalmInv, NEW p \in Pid, lib[p].at = "ret", NEW point, NEW l, NEW m,
         Goto(p, point, l, m), Begins(p, l),
         UNCHANGED sig \/ \E q : PostTerm(q, p), UNCHANGED fifo
  PROVE  Quiet
<1>1. lib \in [Pid -> SoundLib] /\ lib' = [lib EXCEPT ![p] = l]
  BY Shape DEF CalmInv, Goto
<1>2. \A x \in Pid : sig'[x].usr1 = sig[x].usr1
  BY TermKeepsUsr1 DEF CalmInv
<1>3. lib'[p] = l /\ \A x \in Pid \ {p} : lib'[x] = lib[x]
  BY <1>1
<1> QED
  BY <1>2, <1>3 DEF Quiet, QuietStep

\* A program that has the turn has no text to read.
LEMMA NoText ==
  ASSUME CalmInv, NEW p \in Pid, lib[p].at = "ret", Busy(p)
  PROVE  ~Announcing(p) /\ sig[p].usr1 = NoPid /\ ~lib[p].unread_flag
<1>1. Only(p, "busy")
  BY BusyAlone DEF CalmInv
<1> QED
  BY <1>1 DEF Only, Announcing

LEMMA AfreshQuiet ==
  ASSUME CalmInv, NEW p \in Pid, lib[p].at = "ret", Busy(p), NEW point, NEW m,
         Goto(p, point, BlankLib, m),
         UNCHANGED sig \/ \E q : PostTerm(q, p), UNCHANGED fifo
  PROVE  Quiet
<1>1. lib \in [Pid -> SoundLib] /\ lib' = [lib EXCEPT ![p] = BlankLib]
  BY Shape DEF CalmInv, Goto
<1>2. \A x \in Pid : sig'[x].usr1 = sig[x].usr1
  BY TermKeepsUsr1 DEF CalmInv
<1>3. lib'[p] = BlankLib /\ \A x \in Pid \ {p} : lib'[x] = lib[x]
  BY <1>1
<1>4. ~Announcing(p) /\ sig[p].usr1 = NoPid
  BY NoText
<1>5. BlankLib.at = "ret" /\ ~BlankLib.unread_flag
  BY DEF BlankLib
<1> QED
  BY <1>2, <1>3, <1>4, <1>5 DEF Quiet, QuietStep

\* A new process does not know of a text.
LEMMA ForkQuiet ==
  ASSUME CalmInv, NEW p \in Pid, lib[p].at = "ret", NEW point, NEW l, NEW m,
         NEW kidPoint, NEW kidLib, NEW kidMem,
         Fork(p, point, l, m, kidPoint, kidLib, kidMem), Begins(p, l),
         kidLib.at = "ret", ~kidLib.unread_flag, UNCHANGED <<sig, fifo>>
  PROVE  Quiet
<1>1. lib \in [Pid -> SoundLib] /\ nextPid \in Pid \union {MaxPid + 1} /\ MaxPid \in Nat
  BY Shape, PidFacts DEF CalmInv, TypeInv, KernelInv, Kinship
<1>2. nextPid \in Pid /\ lib' = [lib EXCEPT ![p] = l, ![nextPid] = kidLib]
  BY <1>1 DEF Fork, Pid
<1>3. lib[nextPid] = BlankLib /\ sig[nextPid] = NoSignals
  <2>1. pc[nextPid] = "unborn"
    BY <1>2 DEF CalmInv, Order, Discipline, OneManager, Pid
  <2> QED
    BY <1>2, <2>1 DEF CalmInv, Order, Discipline, CallsOpen, Gone
<1>4. QuietStep(nextPid)
  <2>1. lib'[nextPid] = kidLib
    BY <1>1, <1>2
  <2>2. ~Announcing(nextPid) /\ sig'[nextPid].usr1 = NoPid
    BY <1>3 DEF Announcing, BlankLib, NoSignals
  <2> QED
    BY <2>1, <2>2 DEF QuietStep
<1>5. ASSUME NEW x \in Pid, x # nextPid PROVE QuietStep(x)
  <2>1. lib'[x] = IF x = p THEN l ELSE lib[x]
    BY <1>1, <1>2, <1>5
  <2> QED
    BY <2>1 DEF QuietStep
<1> QED
  BY <1>4, <1>5 DEF Quiet

\* The end of a process that has nothing to do with the text.
LEMMA ExitQuiet ==
  ASSUME CalmInv, NEW p \in Pid, pc[p] \notin Gone, lib[p].at # "kill", ~TextLost(p),
         NEW output, ExitPrinting(p, output), UNCHANGED fifo
  PROVE  Quiet
<1>1. Ended(p, output)
  BY ExitFacts DEF CalmInv
<1>2. pc'[p] \in Gone
  BY <1>1 DEF Ended, Gone
<1>3. ~Announcing(p)
  BY <1>2 DEF TextLost, Alive, Announcing
<1>4. QuietStep(p)
  BY <1>1, <1>3 DEF Ended, QuietStep, BlankLib, NoSignals
<1>5. \A x \in Pid \ {p} : QuietStep(x)
  BY <1>1 DEF Ended, QuietStep
<1> QED
  BY <1>4, <1>5 DEF Quiet

-----------------------------------------------------------------------------
(***************************************************************************)
(* The programs are quiet.                                                 *)
(***************************************************************************)
\* The types of what messages are made of.
LEMMA Contents ==
  ASSUME TypeInv, NEW p \in Pid
  PROVE  /\ <<Pad>> \in Str /\ pmanager \in Str
         /\ mem[p].name \in Str /\ NextName(p) \in Str
         /\ {MSG_ADD, MSG_REMOVE, MSG_INFO, MSG_ERROR, MSG_SUCCESS, MSG_LIST, MSG_SPAWN} \subseteq MsgType
         /\ \A to, type : type \in MsgType => Begins(p, message_send(p, to, type, <<Pad>>))
         /\ \A to : Begins(p, resume_process(p, to))
<1>1. mem[p] \in MemType
  BY Shape DEF SoundMem
<1>2. mem[p].name \in Str /\ mem[p].clones_count + 1 \in Nat
  BY <1>1 DEF MemType
<1>3. NextName(p) \in Str
  BY <1>2, AtomFacts, TextTypes DEF NextName
<1>4. {MSG_ADD, MSG_REMOVE, MSG_INFO, MSG_ERROR, MSG_SUCCESS, MSG_LIST, MSG_SPAWN} \subseteq MsgType
  BY DEF MsgType
<1>5. \A to, type : type \in MsgType => Begins(p, message_send(p, to, type, <<Pad>>))
  BY AtomFacts, SendBegins
<1> QED
  BY <1>2, <1>3, <1>4, <1>5, AtomFacts, NameAssumption DEF resume_process

LEMMA NodeText ==
  ASSUME TypeInv, NEW p \in Pid, NEW to, NEW type \in MsgType,
         NEW pid \in Nat, NEW ppid \in Nat, NEW name \in Str
  PROVE  Begins(p, message_send(p, to, type, proc_node_tostr(pid, ppid, name)))
<1>1. proc_node_tostr(pid, ppid, name) \in Str
  BY AtomFacts, TextTypes
<1> QED
  BY <1>1, SendBegins

LEMMA ForkedPid ==
  ASSUME TypeInv
  PROVE  nextPid \in Nat /\ \A p \in Pid : p \in Nat /\ parent[p] \in Nat
  BY Shape, PidFacts DEF TypeInv, KernelInv, Kinship, InitPid, Pid

LEMMA ChildQuiet ==
  ASSUME CalmInv, NEW p \in Pid, ~TextLost(p), ChildStep(p)
  PROVE  Quiet
<1> USE DEF CalmInv
<1>1. /\ Begins(p, message_read(p))
      /\ \A from : Begins(p, message_wait(p, from))
      /\ \A to : Begins(p, resume_process(p, to))
      /\ \A to, type : type \in MsgType => Begins(p, message_send(p, to, type, <<Pad>>))
      /\ {MSG_ADD, MSG_REMOVE, MSG_INFO} \subseteq MsgType
      /\ lib[p].at = "ret" => Begins(p, lib[p]) /\ Begins(p, [lib[p] EXCEPT !.msg = NULL])
  BY WaitBegins, Contents
<1>2. CASE RegisterHandlers(p) \/ Sleep(p)
  BY <1>2 DEF RegisterHandlers, Sleep, Quiet, QuietStep
<1>3. CASE CheckSigtermFlag(p)
  BY <1>1, <1>3, GotoQuiet DEF CheckSigtermFlag, Ready
<1>4. CASE CheckUnreadFlag(p)
  BY <1>1, <1>4, GotoQuiet DEF CheckUnreadFlag, Ready
<1>5. CASE GotMessage(p)
  <2>1. pc[p] \notin Gone /\ lib[p].at = "ret" /\ UNCHANGED fifo
    BY <1>5 DEF GotMessage, Ready, Gone
  <2>2. Begins(p, message_send(p, PM, MSG_INFO, NextName(p)))
    BY <1>1, SendBegins, Contents
  <2>3. CASE Crash(p)
    BY <2>1, <2>3, ExitQuiet DEF Crash, Exit
  <2>4. CASE ~Crash(p)
    BY <1>1, <1>5, <2>1, <2>2, <2>4, GotoQuiet DEF GotMessage
  <2> QED
    BY <2>3, <2>4
<1>6. CASE AwaitRemoval(p)
  BY <1>1, <1>6, GotoQuiet DEF AwaitRemoval, Ready
<1>7. CASE GotRemoval(p)
  <2>1. pc[p] \notin Gone /\ lib[p].at = "ret" /\ UNCHANGED fifo
    BY <1>7 DEF GotRemoval, Ready, Gone
  <2>2. CASE Crash(p)
    BY <2>1, <2>2, ExitQuiet DEF Crash, Exit
  <2>3. CASE ~Crash(p)
    BY <1>1, <1>7, <2>1, <2>3, GotoQuiet DEF GotRemoval
  <2> QED
    BY <2>2, <2>3
<1>8. CASE ExitChild(p)
  BY <1>8, ExitQuiet DEF ExitChild, Exit, Ready, Gone
<1>9. CASE ResetSigtermFlag(p)
  BY <1>1, <1>9, GotoQuiet DEF ResetSigtermFlag, Ready
<1>10. CASE AwaitDuplicateCheck(p)
  BY <1>1, <1>10, GotoQuiet DEF AwaitDuplicateCheck, Ready
<1>11. CASE child_clone(p)
  <2>1. pc[p] = "clone_reply" /\ lib[p].at = "ret" /\ UNCHANGED fifo
    BY <1>11 DEF child_clone, Ready
  <2>2. CASE Crash(p)
    BY <2>1, <2>2, ExitQuiet DEF Crash, Exit, Gone
  <2>3. CASE ForkClone(p) /\ UNCHANGED sig
    <3> DEFINE kidLib == [lib[p] EXCEPT !.msg = NULL]
               l == message_send(p, PM, MSG_ADD, proc_node_tostr(nextPid, p, NextName(p)))
    <3>1. Begins(p, l)
      BY <1>1, ForkedPid, Contents, NodeText
    <3>2. kidLib.at = "ret" /\ ~kidLib.unread_flag
      <4>1. Busy(p)
        BY <2>1, Runnable DEF Receiving
      <4>2. lib[p] \in LibType
        BY Shape DEF SoundLib
      <4> QED
        BY <2>1, <4>1, <4>2, NoText DEF LibType
    <3>3. \E point, m, kidPoint, kidMem : Fork(p, point, l, m, kidPoint, kidLib, kidMem)
      BY <2>3 DEF ForkClone
    <3> HIDE DEF l, kidLib
    <3> QED
      BY <2>1, <2>3, <3>1, <3>2, <3>3, ForkQuiet
  <2>4. CASE /\ \E l, m : Goto(p, "loop", l, m) /\ Begins(p, l)
             /\ UNCHANGED sig
    BY <2>1, <2>4, GotoQuiet
  <2> QED
    BY <1>1, <1>11, <2>1, <2>2, <2>3, <2>4 DEF child_clone
<1>12. ASSUME KillClone(p), lib[p].at = "ret", UNCHANGED fifo PROVE Quiet
  BY <1>1, <1>12, GotoQuiet DEF KillClone
<1>13. CASE send_proc_to_pmanager(p)
  BY <1>1, <1>12, <1>13, GotoQuiet DEF send_proc_to_pmanager, Ready
<1>14. CASE CloneAdded(p)
  BY <1>1, <1>12, <1>14, GotoQuiet DEF CloneAdded, Ready
<1> QED
  BY <1>2, <1>3, <1>4, <1>5, <1>6, <1>7, <1>8, <1>9, <1>10, <1>11, <1>13, <1>14 DEF ChildStep

\* Finish() by a program that has the turn.
LEMMA FinishQuiet ==
  ASSUME CalmInv, NEW p \in Pid, lib[p].at = "ret", Finish(p),
         \/ pc[p] \in Receiving \union {"start"}
         \/ pc[p] \in Sending /\ lib[p].status # 0
         \/ pc[p] = "popen" /\ mem[p].peer # Pending,
         UNCHANGED sig \/ \E q : PostTerm(q, p), UNCHANGED fifo
  PROVE  Quiet
<1>1. Busy(p)
  BY DEF Busy, BusyAt
<1> QED
  BY <1>1, AfreshQuiet DEF Finish

LEMMA StartQuiet ==
  ASSUME CalmInv, NEW p \in Pid, Start(p)
  PROVE  Quiet
<1> USE DEF CalmInv
<1>1. pc[p] = "start" /\ lib[p].at = "ret" /\ UNCHANGED <<sig, fifo>>
  BY DEF Start, pnew_main, pinfo_main, prmall_main, plist_main, ptree_main, pclose_main, pspawn_main,
     phelp_main, Begin, Ready
<1>2. CASE Finish(p)
  BY <1>1, <1>2, FinishQuiet
<1>3. ASSUME NEW point, NEW to, NEW type \in MsgType, NEW content \in Str,
             Ask(p, point, to, type, content)
      PROVE  Quiet
  BY <1>1, <1>3, SendBegins, GotoQuiet DEF Ask
<1>4. CASE popen(p)
  <2>1. CASE \E m, kidMem : Fork(p, "popen", lib[p], m, "start", BlankLib, kidMem)
    <3>1. Begins(p, lib[p]) /\ BlankLib.at = "ret" /\ ~BlankLib.unread_flag
      BY <1>1, WaitBegins DEF BlankLib
    <3> QED
      BY <1>1, <2>1, <3>1, ForkQuiet
  <2> QED
    BY <1>2, <1>4, <2>1 DEF popen
<1>5. /\ \A point, to : \A name \in {mem[p].name, pmanager} : \A type \in {MSG_INFO, MSG_LIST} :
           Ask(p, point, to, type, name) => Quiet
  BY <1>3, Contents
<1> QED
  BY <1>2, <1>4, <1>5
  DEF Start, pnew_main, pinfo_main, prmall_main, plist_main, ptree_main, pclose_main, pspawn_main,
      phelp_main, Begin

LEMMA PnewQuiet ==
  ASSUME CalmInv, NEW p \in Pid, ~TextLost(p),
         AwaitNameCheck(p) \/ pnew(p) \/ AwaitAdd(p) \/ GotAdd(p)
  PROVE  Quiet
<1> USE DEF CalmInv
<1>1. /\ \A from : Begins(p, message_wait(p, from))
      /\ lib[p].at = "ret" /\ UNCHANGED fifo
      /\ pc[p] \in {"pnew_asked", "pnew_reply", "pnew_sent", "pnew_added"}
  BY WaitBegins DEF AwaitNameCheck, pnew, AwaitAdd, GotAdd, Ready
<1>2. ASSUME Finish(p), pc[p] \in {"pnew_asked", "pnew_sent"} => lib[p].status # 0,
             UNCHANGED sig \/ \E q : PostTerm(q, p)
      PROVE  Quiet
  BY <1>1, <1>2, FinishQuiet DEF Receiving, Sending
<1>3. CASE AwaitNameCheck(p)
  BY <1>1, <1>2, <1>3, GotoQuiet DEF AwaitNameCheck, Ready
<1>4. CASE pnew(p)
  <2>1. pc[p] = "pnew_reply"
    BY <1>4 DEF pnew, Ready
  <2>2. CASE Crash(p)
    BY <1>1, <2>1, <2>2, ExitQuiet DEF Crash, Exit, Gone
  <2>3. CASE Finish(p) /\ UNCHANGED sig
    BY <1>2, <2>1, <2>3
  <2>4. CASE ForkProcess(p) /\ UNCHANGED sig
    <3> DEFINE kidLib == [lib[p] EXCEPT !.msg = NULL]
               l == message_send(p, parent[p], MSG_ADD,
                                 proc_node_tostr(nextPid, parent[p], mem[p].name))
    <3>1. Begins(p, l)
      BY ForkedPid, Contents, NodeText
    <3>2. kidLib.at = "ret" /\ ~kidLib.unread_flag
      <4>1. Busy(p)
        BY <1>1, <2>1, Runnable DEF Receiving
      <4>2. lib[p] \in LibType
        BY Shape DEF SoundLib
      <4> QED
        BY <1>1, <4>1, <4>2, NoText DEF LibType
    <3>3. \E point, m, kidPoint, kidMem : Fork(p, point, l, m, kidPoint, kidLib, kidMem)
      BY <2>4 DEF ForkProcess
    <3> HIDE DEF l, kidLib
    <3> QED
      BY <1>1, <2>4, <3>1, <3>2, <3>3, ForkQuiet
  <2> QED
    BY <1>4, <2>2, <2>3, <2>4 DEF pnew
<1>5. ASSUME abort_fork(p), pc[p] = "pnew_sent" => lib[p].status # 0, pc[p] # "pnew_asked"
      PROVE  Quiet
  BY <1>1, <1>2, <1>5, GotoQuiet DEF abort_fork
<1>6. CASE AwaitAdd(p)
  <2>1. pc[p] = "pnew_sent"
    BY <1>6 DEF AwaitAdd, Ready
  <2> QED
    BY <1>1, <1>5, <1>6, <2>1, GotoQuiet DEF AwaitAdd
<1>7. CASE GotAdd(p)
  <2>1. pc[p] = "pnew_added"
    BY <1>7 DEF GotAdd, Ready
  <2> QED
    BY <1>2, <1>5, <1>7, <2>1 DEF GotAdd
<1> QED
  BY <1>3, <1>4, <1>6, <1>7

LEMMA ListQuiet ==
  ASSUME CalmInv, NEW p \in Pid, ~TextLost(p),
         AwaitListItem(p) \/ GotListItem(p) \/ kill_proc_tree(p)
  PROVE  Quiet
<1> USE DEF CalmInv
<1>1. /\ \A from : Begins(p, message_wait(p, from))
      /\ Begins(p, lib[p]) /\ Begins(p, [lib[p] EXCEPT !.msg = NULL])
      /\ Begins(p, message_send(p, parent[p], MSG_SUCCESS, <<Pad>>))
      /\ lib[p].at = "ret" /\ UNCHANGED fifo
      /\ pc[p] \in {"list_asked", "list_item", "rm_next"}
  BY WaitBegins, Contents DEF AwaitListItem, GotListItem, kill_proc_tree, Ready
<1>2. ASSUME Finish(p), pc[p] = "list_asked" => lib[p].status # 0, UNCHANGED sig
      PROVE  Quiet
  BY <1>1, <1>2, FinishQuiet DEF Receiving, Sending
<1>3. CASE AwaitListItem(p)
  BY <1>1, <1>2, <1>3, GotoQuiet DEF AwaitListItem, Ready
<1>4. CASE GotListItem(p)
  <2>1. pc[p] = "list_item" /\ pc[p] \notin Gone
    BY <1>4 DEF GotListItem, Ready, Gone
  <2>2. CASE Finish(p) /\ UNCHANGED sig
    BY <1>2, <2>1, <2>2
  <2>3. CASE ListItem(p)
    <3>1. CASE Crash(p)
      BY <1>1, <2>1, <3>1, ExitQuiet DEF Crash, Exit
    <3>2. CASE /\ \E m : Goto(p, "list_asked", message_send(p, parent[p], MSG_SUCCESS, <<Pad>>), m)
               /\ UNCHANGED sig
      BY <1>1, <3>2, GotoQuiet
    <3> QED
      BY <2>3, <3>1, <3>2 DEF ListItem
  <2>4. CASE /\ \E point : Goto(p, point, [lib[p] EXCEPT !.msg = NULL], mem[p])
             /\ UNCHANGED sig
    BY <1>1, <2>4, GotoQuiet
  <2> QED
    BY <1>4, <2>2, <2>3, <2>4 DEF GotListItem
<1>5. CASE kill_proc_tree(p)
  <2>1. pc[p] = "rm_next"
    BY <1>5 DEF kill_proc_tree, Ready
  <2>2. CASE Finish(p) /\ UNCHANGED sig
    BY <1>2, <2>1, <2>2
  <2>3. ASSUME NEW rest, SparePmanager(p, rest)
        PROVE  Quiet
    BY <1>1, <2>3, GotoQuiet DEF SparePmanager
  <2>4. ASSUME NEW q, NEW rest, SignalVictim(p, q, rest)
        PROVE  Quiet
    BY <1>1, <2>4, GotoQuiet DEF SignalVictim
  <2> QED
    BY <1>5, <2>2, <2>3, <2>4 DEF kill_proc_tree
<1> QED
  BY <1>3, <1>4, <1>5

LEMMA InfoQuiet ==
  ASSUME CalmInv, NEW p \in Pid, ~TextLost(p),
         ExitCommand(p) \/ AwaitInfo(p) \/ PrintInfo(p) \/ pclose(p) \/ pspawn(p) \/ AwaitSpawn(p)
  PROVE  Quiet
<1> USE DEF CalmInv
<1>1. /\ \A from : Begins(p, message_wait(p, from))
      /\ Begins(p, [lib[p] EXCEPT !.msg = NULL])
      /\ \A to : Begins(p, message_send(p, to, MSG_SPAWN, <<Pad>>))
      /\ lib[p].at = "ret" /\ UNCHANGED fifo
  BY WaitBegins, Contents
  DEF ExitCommand, AwaitInfo, PrintInfo, pclose, pspawn, AwaitSpawn, Ready
<1>2. CASE ExitCommand(p)
  BY <1>1, <1>2, ExitQuiet DEF ExitCommand, Exit, Ready, Gone
<1>3. CASE AwaitInfo(p)
  BY <1>1, <1>3, GotoQuiet DEF AwaitInfo
<1>4. CASE PrintInfo(p)
  BY <1>1, <1>4, ExitQuiet DEF PrintInfo, Ready, Gone
<1>5. CASE pclose(p)
  <2>1. pc[p] = "popen" /\ mem[p].peer # Pending
    BY <1>5 DEF pclose, Ready
  <2> QED
    BY <1>1, <1>5, <2>1, GotoQuiet, FinishQuiet DEF pclose
<1>6. CASE pspawn(p)
  <2>1. pc[p] = "popen" /\ mem[p].peer # Pending
    BY <1>6 DEF pspawn, Ready
  <2> QED
    BY <1>1, <1>6, <2>1, GotoQuiet, FinishQuiet DEF pspawn
<1>7. CASE AwaitSpawn(p)
  <2>1. pc[p] = "spawn_sent" /\ "spawn_sent" \in Sending
    BY <1>7 DEF AwaitSpawn, Ready, Sending
  <2> QED
    BY <1>1, <1>7, <2>1, GotoQuiet, FinishQuiet DEF AwaitSpawn
<1> QED
  BY <1>2, <1>3, <1>4, <1>5, <1>6, <1>7

LEMMA CommandQuiet ==
  ASSUME CalmInv, NEW p \in Pid, ~TextLost(p), CommandStep(p)
  PROVE  Quiet
BY StartQuiet, PnewQuiet, ListQuiet, InfoQuiet DEF CommandStep

\* pmanager forks a command, when it has the turn.
LEMMA ExecQuiet ==
  ASSUME CalmInv, NEW p \in Pid, lib[p].at = "ret", Busy(p),
         NEW m, NEW prog, NEW name, NEW to, exec_command(p, m, prog, name, to),
         UNCHANGED <<sig, fifo>>
  PROVE  Quiet
<1>1. Begins(p, lib[p]) /\ ~lib[p].unread_flag
  BY WaitBegins, NoText DEF CalmInv
<1>2. \E point, n, kidPoint, kidMem : Fork(p, point, lib[p], n, kidPoint, lib[p], kidMem)
  BY DEF exec_command
<1> QED
  BY <1>1, <1>2, ForkQuiet

LEMMA UserQuiet ==
  ASSUME CalmInv, ReadLine \/ EndOfInput
  PROVE  Quiet
<1> USE DEF CalmInv
<1>1. /\ PM \in Pid /\ pc[PM] = "readline" /\ lib[PM].at = "ret"
      /\ UNCHANGED <<sig, fifo>> /\ Begins(PM, lib[PM]) /\ Busy(PM)
  BY PidFacts, WaitBegins, Runnable DEF ReadLine, EndOfInput, Ready
<1>2. CASE Goto(PM, "cleanup", lib[PM], mem[PM])
  BY <1>1, <1>2, GotoQuiet
<1>3. CASE UNCHANGED lib
  BY <1>1, <1>3 DEF Quiet, QuietStep
<1>4. CASE \E prog, name, to : exec_command(PM, mem[PM], prog, name, to)
  BY <1>1, <1>4, ExecQuiet
<1> QED
  BY <1>2, <1>3, <1>4 DEF ReadLine, EndOfInput

\* pmanager sends a node.
LEMMA NodeQuiet ==
  ASSUME CalmInv, NEW p \in Pid, lib[p].at = "ret", NEW to, NEW procs \in Seq(TreeNode),
         procs # <<>>, SendNode(p, to, procs)
  PROVE  Quiet
<1> USE DEF CalmInv
<1> DEFINE n == Head(procs)
<1>1. n \in TreeNode
  OBVIOUS
<1>2. n.pid \in Nat /\ n.ppid \in Nat /\ n.name \in Str /\ MSG_INFO \in MsgType
  BY <1>1 DEF TreeNode, MsgType
<1>3. Begins(p, message_send(p, to, MSG_INFO, proc_node_tostr(n.pid, n.ppid, n.name)))
  <2> HIDE DEF n
  <2> QED
    BY <1>2, NodeText
<1> QED
  BY <1>3, GotoQuiet DEF SendNode

LEMMA HandleQuiet ==
  ASSUME CalmInv, NEW p \in Pid, message_handler(p) \/ GotAck(p)
  PROVE  Quiet
<1> USE DEF CalmInv
<1>1. /\ lib[p].at = "ret" /\ Begins(p, lib[p])
      /\ \A to, type : type \in MsgType => Begins(p, message_send(p, to, type, <<Pad>>))
      /\ {MSG_ERROR, MSG_SUCCESS, MSG_INFO} \subseteq MsgType
  BY WaitBegins, Contents DEF message_handler, GotAck, Ready
<1>2. ASSUME NEW to, NEW type \in {MSG_ERROR, MSG_SUCCESS}, Answer(p, to, type, <<Pad>>)
      PROVE  Quiet
  BY <1>1, <1>2, GotoQuiet DEF Answer
<1>3. CASE GotAck(p)
  <2>1. mem[p].procs \in Seq(TreeNode)
    BY Shape DEF SoundMem, MemType
  <2>2. CASE mem[p].procs # <<>>
    BY <1>1, <1>3, <2>1, <2>2, NodeQuiet DEF GotAck
  <2>3. CASE mem[p].procs = <<>>
    BY <1>1, <1>3, <2>3, GotoQuiet DEF GotAck
  <2> QED
    BY <2>2, <2>3
<1>4. CASE message_handler(p) /\ lib[p].msg = NULL
  BY <1>1, <1>4, GotoQuiet DEF message_handler
<1>5. CASE message_handler(p) /\ lib[p].msg # NULL
  <2>1. trees[p] \in Seq(TreeNode)
    BY DEF TypeInv, ManagerInv, CleanTree
  <2>2. CASE msg_info_handler(p, lib[p].msg)
    <3> DEFINE i == proc_node_find_by_name(trees[p], lib[p].msg.content)
               n == trees[p][i]
    <3>1. CASE i = 0
      BY <1>2, <2>2, <3>1 DEF msg_info_handler
    <3>2. CASE i # 0
      <4>1. i \in 1..Len(trees[p])
        BY <2>1, <3>2, FindByName
      <4>2. n \in TreeNode
        BY <2>1, <4>1
      <4>3. n.pid \in Nat /\ n.ppid \in Nat /\ n.name \in Str
        BY <4>2 DEF TreeNode
      <4>4. \A to : Begins(p, message_send(p, to, MSG_INFO, proc_node_tostr(n.pid, n.ppid, n.name)))
        <5> HIDE DEF n
        <5> QED
          BY <1>1, <4>3, NodeText
      <4> QED
        BY <1>1, <2>2, <3>2, <4>4, GotoQuiet DEF msg_info_handler, Answer
    <3> QED
      BY <3>1, <3>2
  <2>3. CASE msg_list_handler(p, lib[p].msg)
    <3> DEFINE i == proc_node_find_by_name(trees[p], lib[p].msg.content)
    <3>1. CASE i = 0
      BY <1>2, <2>3, <3>1 DEF msg_list_handler
    <3>2. CASE i # 0
      <4>1. i \in 1..Len(trees[p])
        BY <2>1, <3>2, FindByName
      <4>2. /\ proc_node_get_array(trees[p], i) \in Seq(TreeNode)
            /\ proc_node_get_array(trees[p], i) # <<>>
        <5> HIDE DEF i
        <5> QED
          BY <2>1, <4>1, ArrayTyped
      <4> QED
        BY <1>1, <2>3, <3>2, <4>2, NodeQuiet DEF msg_list_handler
    <3> QED
      BY <3>1, <3>2
  <2>4. CASE msg_add_handler(p, lib[p].msg)
    BY <1>2, <2>4 DEF msg_add_handler
  <2>5. CASE msg_remove_handler(p, lib[p].msg)
    BY <1>2, <2>5 DEF msg_remove_handler
  <2> QED
    BY <1>2, <1>5, <2>2, <2>3, <2>4, <2>5 DEF message_handler
<1> QED
  BY <1>3, <1>4, <1>5

LEMMA ManagerQuiet ==
  ASSUME CalmInv, NEW p \in Pid, ~TextLost(p), ~CopyCleansUp(p), ManagerStep(p)
  PROVE  Quiet
<1> USE DEF CalmInv
<1>1. /\ \A from : Begins(p, message_wait(p, from))
      /\ Begins(p, message_read(p)) /\ (lib[p].at = "ret" => Begins(p, lib[p]))
  BY WaitBegins
<1>2. CASE execvp(p)
  <2>1. lib[p].at = "ret" /\ Busy(p) /\ UNCHANGED <<sig, fifo>>
    BY <1>2, Runnable DEF execvp, Ready
  <2> QED
    BY <1>1, <1>2, <2>1, AfreshQuiet, GotoQuiet DEF execvp
<1>3. CASE Poll(p)
  BY <1>1, <1>3, GotoQuiet DEF Poll, Ready
<1>4. CASE WaitCommand(p)
  <2>1. lib[p].at = "ret" /\ pc[p] \notin Gone /\ UNCHANGED fifo
    BY <1>4 DEF WaitCommand, Ready, Gone
  <2>2. CASE EndManager(p)
    BY <2>1, <2>2, ExitQuiet DEF EndManager, Exit
  <2>3. CASE UNCHANGED <<lib, sig>>
    BY <2>1, <2>3 DEF Quiet, QuietStep
  <2> QED
    BY <1>4, <2>2, <2>3 DEF WaitCommand
<1>5. CASE cleanup(p)
  <2>1. lib[p].at = "ret" /\ pc[p] \notin Gone /\ UNCHANGED fifo /\ Busy(p)
    BY <1>5, Runnable DEF cleanup, Ready, Gone
  <2>2. CASE EndManager(p)
    BY <2>1, <2>2, ExitQuiet DEF EndManager, Exit
  <2>3. CASE \E m : exec_command(p, m, "prmall", pmanager, NoPid) /\ UNCHANGED sig
    BY <2>1, <2>3, ExecQuiet
  <2> QED
    BY <1>5, <2>2, <2>3 DEF cleanup
<1>6. CASE AwaitAck(p)
  BY <1>1, <1>6, GotoQuiet DEF AwaitAck, Ready
<1> QED
  BY <1>2, <1>3, <1>4, <1>5, <1>6, HandleQuiet DEF ManagerStep

-----------------------------------------------------------------------------
(***************************************************************************)
(* The calls of message.c, and the signals.                                *)
(***************************************************************************)
\* The text is written while the FIFO is empty, because nobody has been told of one.
LEMMA WritesAlone ==
  ASSUME CalmInv, TextInv, NEW p \in Pid, lib[p].at = "write"
  PROVE  /\ fifo = <<>> /\ Only(p, "busy")
         /\ \A x \in Pid : sig[x].usr1 = NoPid /\ ~lib[x].unread_flag
                          /\ (lib[x].at \in {"write", "kill"} => x = p)
<1>1. Only(p, "busy")
  BY BusyAlone DEF CalmInv, Busy, BusyAt
<1>2. \A x \in Pid : ~Announcing(x) /\ sig[x].usr1 = NoPid /\ ~lib[x].unread_flag
                     /\ (lib[x].at \in {"write", "kill"} => x = p)
  BY <1>1 DEF Only, Announcing, Busy, BusyAt
<1> QED
  BY <1>1, <1>2 DEF TextInv

LEMMA WriteKeepsText ==
  ASSUME CalmInv, TextInv, NEW p \in Pid, WriteText(p)
  PROVE  TextInv'
<1> USE DEF CalmInv
<1>1. /\ lib \in [Pid -> SoundLib] /\ lib[p] \in LibType /\ lib[p].at = "write"
      /\ fifo' = Append(fifo, Letter(lib[p].pid, lib[p].text)) /\ sig' = sig
      /\ lib' = [lib EXCEPT ![p].at = "kill", ![p].text = <<>>]
  BY Shape DEF WriteText, SoundLib
<1>4. \A x \in Pid : sig[x].usr1 = NoPid /\ ~lib[x].unread_flag
                     /\ (lib[x].at \in {"write", "kill"} => x = p)
  BY <1>1, WritesAlone
<1>5. fifo' = <<Letter(lib[p].pid, lib[p].text)>>
  <2>1. fifo = <<>>
    BY <1>1, WritesAlone
  <2> QED
    BY <1>1, <2>1
<1>6. /\ lib'[p].at = "kill" /\ lib'[p].pid = lib[p].pid /\ ~lib'[p].unread_flag
      /\ \A x \in Pid \ {p} : lib'[x] = lib[x]
  BY <1>1, <1>4 DEF LibType
<1>7. Holds(lib[p].pid, p)'
  <2>1. Signed(lib[p].text, p)
    BY <1>1 DEF TextInv, TextAt
  <2>2. fifo'[1] = Letter(lib[p].pid, lib[p].text) /\ Len(fifo') = 1
    BY <1>5
  <2> QED
    BY <1>6, <2>1, <2>2 DEF Holds, Letter
<1>8. TextAt(p)'
  BY <1>1, <1>4, <1>6, <1>7 DEF TextAt
<1>9. ASSUME NEW x \in Pid \ {p} PROVE TextAt(x)'
  <2>1. lib'[x] = lib[x] /\ TextAt(x)
    BY <1>6, <1>9 DEF TextInv
  <2>2. lib[x].at \notin {"write", "kill", "read"} /\ ~lib[x].unread_flag /\ sig'[x].usr1 = NoPid
    BY <1>1, <1>4, <1>9, Reader
  <2> QED
    BY <2>1, <2>2 DEF TextAt
<1>10. Announcing(p)'
  BY <1>6 DEF Announcing
<1> QED
  BY <1>8, <1>9, <1>10 DEF TextInv

\* The addressee is told of the text it was written for.
LEMMA NotifyKeepsText ==
  ASSUME CalmInv, TextInv, NEW p \in Pid, ~TextLost(p), NotifyReceiver(p)
  PROVE  TextInv'
<1> USE DEF CalmInv
<1>0. PICK r \in Pid : r = lib[p].pid /\ Exists(r) /\ Alive(r)
  BY DEF NotifyReceiver, TextLost, Exists
<1>1. /\ lib \in [Pid -> SoundLib] /\ sig \in [Pid -> SignalType] /\ lib[p] \in LibType
      /\ lib[p].at = "kill" /\ fifo' = fifo /\ Exists(r) /\ Alive(r)
      /\ PostUsr1(r, p)
  BY <1>0, Shape DEF NotifyReceiver, SoundLib
<1>2. Busy(p)
  BY <1>1 DEF Busy, BusyAt
<1>3. Only(p, "busy")
  BY <1>2, BusyAlone
<1>4. \A x \in Pid : sig[x].usr1 = NoPid /\ ~lib[x].unread_flag
                     /\ (lib[x].at \in {"write", "kill"} => x = p)
  BY <1>3 DEF Only, Busy, BusyAt
<1>5. sig' = [sig EXCEPT ![r].usr1 = p]
  BY <1>1, <1>4 DEF PostUsr1
<1>6. \A x \in Pid : sig'[x].usr1 = IF x = r THEN p ELSE NoPid
  BY <1>1, <1>4, <1>5 DEF SignalType
<1>7. /\ lib'[p].at = "ret" /\ ~lib'[p].unread_flag
      /\ \A x \in Pid \ {p} : lib'[x] = lib[x]
  BY <1>1, <1>4 DEF NotifyReceiver, LibType
<1>8. Holds(r, p)'
  BY <1>0, <1>1 DEF TextInv, TextAt, Holds
<1>9. ASSUME NEW x \in Pid PROVE TextAt(x)'
  <2>1. sig'[x].usr1 # NoPid => Holds(x, sig[x].usr1)'
    BY <1>6, <1>8, <1>9 DEF Holds
  <2>2. /\ ~lib'[x].unread_flag
        /\ lib'[x].at \notin {"write", "kill", "read"}
        /\ lib'[x].at \in {"check", "suspend", "asleep"} => lib'[x].text = <<>>
    <3>1. CASE x = p
      BY <1>7, <3>1
    <3>2. CASE x # p
      <4>1. lib'[x] = lib[x] /\ TextAt(x)
        BY <1>7, <1>9, <3>2 DEF TextInv
      <4> QED
        BY <1>4, <1>9, <3>2, <4>1, Reader DEF TextAt
    <3> QED
      BY <3>1, <3>2
  <2> QED
    BY <2>1, <2>2 DEF TextAt
<1>10. Announcing(r)'
  <2>1. p # NoPid
    BY PidFacts DEF NoPid, Pid
  <2> QED
    BY <1>1, <1>6, <2>1 DEF Announcing
<1> QED
  BY <1>1, <1>9, <1>10 DEF TextInv

\* message_wait() starts to read when it has been told of a text by the process it
\* waits for, or goes to sleep.
LEMMA CheckKeepsText ==
  ASSUME CalmInv, TextInv, NEW p \in Pid, CheckFlags(p) \/ Suspend(p)
  PROVE  TextInv'
<1> USE DEF CalmInv
<1>1. /\ lib \in [Pid -> SoundLib] /\ lib[p] \in LibType /\ lib[p].at \in {"check", "suspend"}
      /\ UNCHANGED <<sig, fifo>>
  BY Shape DEF CheckFlags, Suspend, SoundLib
<1> DEFINE at == IF CheckFlags(p) THEN IF Announced(p) THEN "read" ELSE "suspend" ELSE "asleep"
<1>2. lib' = [lib EXCEPT ![p].at = at]
  BY DEF CheckFlags, Suspend
<1>3. at \in {"read", "suspend", "asleep"} /\ (at = "read" => lib[p].pid \in {lib[p].message_sender, NoPid})
  BY DEF Announced, NoPid
<1> HIDE DEF at
<1>4. /\ lib'[p].at = at /\ lib'[p].pid = lib[p].pid /\ lib'[p].text = lib[p].text
      /\ lib'[p].unread_flag = lib[p].unread_flag
      /\ lib'[p].message_sender = lib[p].message_sender
      /\ \A x \in Pid \ {p} : lib'[x] = lib[x]
  BY <1>1, <1>2 DEF LibType
<1>5. ASSUME NEW x \in Pid PROVE TextAt(x)' /\ (Announcing(x) => Announcing(x)')
  <2>1. TextAt(x)
    BY <1>5 DEF TextInv
  <2>2. CASE x = p
    BY <1>1, <1>3, <1>4, <2>1, <2>2 DEF TextAt, Announcing, Holds
  <2>3. CASE x # p
    BY <1>1, <1>4, <1>5, <2>1, <2>3 DEF TextAt, Announcing, Holds
  <2> QED
    BY <2>2, <2>3
<1> QED
  BY <1>1, <1>5 DEF TextInv

\* The reader is alone and takes the whole text, which was written for it.
LEMMA ReadsWhole ==
  ASSUME CalmInv, TextInv, NEW p \in Pid, ReadText(p)
  PROVE  Len(fifo) = 1 /\ fifo[1].to = p /\ ReadToEnd(p)
<1> USE DEF CalmInv
<1>1. lib[p].at = "read"
  BY DEF ReadText
<1>2. lib[p].unread_flag /\ Only(p, "unread")
  BY <1>1, Reader
<1>3. Len(fifo) = 1 /\ fifo[1].to = p
  BY <1>1, <1>2 DEF TextInv, TextAt, Holds
<1>4. Undisturbed(p)
  <2>1. \A q \in Pid \ {p} : lib[q].at # "read"
    BY <1>2, Reader DEF Only
  <2>2. ~Interrupted(p)
    BY DEF Order, Discipline, NoInterrupt, Interrupted
  <2>3. sig[p].term = NoPid
    BY <1>2 DEF Only
  <2> QED
    BY <2>1, <2>2, <2>3 DEF Undisturbed
<1>5. fifo # <<>>
  BY <1>3
<1> QED
  BY <1>3, <1>4, <1>5 DEF ReadText

LEMMA ReadKeepsText ==
  ASSUME CalmInv, TextInv, NEW p \in Pid, ReadText(p)
  PROVE  TextInv'
<1> USE DEF CalmInv
<1>1. /\ lib \in [Pid -> SoundLib] /\ lib[p] \in LibType /\ lib[p].at = "read" /\ sig' = sig
      /\ fifo \in Seq(LetterType)
  BY Shape DEF ReadText, SoundLib, TypeInv, KernelInv
<1>2. lib[p].unread_flag /\ Only(p, "unread")
  BY <1>1, Reader
<1>3. Len(fifo) = 1 /\ ReadToEnd(p)
  BY ReadsWhole
<1>7. fifo' = <<>>
  BY <1>1, <1>3 DEF ReadToEnd
<1>8. lib'[p].at = "reset" /\ \A x \in Pid \ {p} : lib'[x] = lib[x]
  BY <1>1, <1>3 DEF ReadToEnd, LibType
<1>9. ASSUME NEW x \in Pid PROVE TextAt(x)'
  <2>1. sig'[x].usr1 = NoPid
    BY <1>1, <1>2, <1>9 DEF Only
  <2>2. CASE x = p
    BY <1>8, <2>1, <2>2 DEF TextAt
  <2>3. CASE x # p
    <3>1. lib'[x] = lib[x] /\ TextAt(x)
      BY <1>8, <1>9, <2>3 DEF TextInv
    <3>2. ~lib[x].unread_flag /\ lib[x].at \notin {"write", "kill"}
      BY <1>2, <1>9, <2>3 DEF Only, Busy, BusyAt
    <3>3. lib[x].at # "read"
      BY <1>9, <3>2, Reader
    <3> QED
      BY <2>1, <3>1, <3>2, <3>3 DEF TextAt
  <2> QED
    BY <2>2, <2>3
<1> QED
  BY <1>7, <1>9 DEF TextInv

LEMMA ResetQuiet ==
  ASSUME CalmInv, NEW p \in Pid, ResetFlags(p)
  PROVE  Quiet
<1> USE DEF CalmInv
<1>1. /\ lib \in [Pid -> SoundLib] /\ lib[p] \in LibType /\ lib[p].at = "reset"
      /\ UNCHANGED <<sig, fifo>>
  BY Shape DEF ResetFlags, SoundLib
<1>2. Only(p, "unread")
  BY <1>1, Reader
<1>3. ~Announcing(p) /\ sig[p].usr1 = NoPid
  BY <1>1, <1>2 DEF Only, Announcing
<1>4. /\ lib'[p].at = "ret" /\ ~lib'[p].unread_flag
      /\ \A x \in Pid \ {p} : lib'[x] = lib[x]
  BY <1>1 DEF ResetFlags, LibType
<1> QED
  BY <1>1, <1>3, <1>4 DEF Quiet, QuietStep

\* The flag takes the place of the signal.
LEMMA Usr1KeepsText ==
  ASSUME CalmInv, TextInv, NEW p \in Pid, set_unread_flag(p)
  PROVE  TextInv'
<1> USE DEF CalmInv
<1>1. /\ lib \in [Pid -> SoundLib] /\ lib[p] \in LibType /\ sig \in [Pid -> SignalType]
      /\ sig[p].usr1 # NoPid /\ fifo' = fifo
      /\ sig' = [sig EXCEPT ![p].usr1 = NoPid]
      /\ lib' = [lib EXCEPT ![p].unread_flag = TRUE,
                            ![p].message_sender = sig[p].usr1,
                            ![p].at = WokenAt(@)]
  BY Shape DEF set_unread_flag, SoundLib
<1>2. HasTurn(p, "usr1") /\ "usr1" \in Claims
  BY <1>1 DEF HasTurn, Claims
<1>3. Only(p, "usr1")
  BY <1>2, Holder DEF Turn
<1>4. lib[p].at \notin {"read", "reset", "write", "kill"}
  BY <1>3, Reader DEF Only, Busy, BusyAt
<1>5. /\ lib'[p].unread_flag /\ lib'[p].message_sender = sig[p].usr1 /\ lib'[p].text = lib[p].text
      /\ lib'[p].at = WokenAt(lib[p].at)
      /\ \A x \in Pid \ {p} : lib'[x] = lib[x]
      /\ \A x \in Pid : sig'[x].usr1 = IF x = p THEN NoPid ELSE sig[x].usr1
  BY <1>1 DEF LibType, SignalType
<1>6. Holds(p, sig[p].usr1) /\ fifo' = fifo
  BY <1>1 DEF TextInv, TextAt
<1>7. TextAt(p)'
  <2>1. Holds(p, lib[p].message_sender)'
    BY <1>5, <1>6 DEF Holds
  <2>2. lib'[p].at \notin {"read", "reset", "write", "kill"}
    BY <1>4, <1>5 DEF WokenAt
  <2>3. lib'[p].at \in {"check", "suspend", "asleep"} => lib'[p].text = <<>>
    BY <1>5 DEF TextInv, TextAt, WokenAt
  <2> QED
    BY <1>5, <2>1, <2>2, <2>3 DEF TextAt
<1>8. ASSUME NEW x \in Pid \ {p} PROVE TextAt(x)'
  BY <1>5, <1>6, <1>8 DEF TextInv, TextAt, Holds
<1>9. Announcing(p)'
  <2>1. lib'[p].at # "reset"
    BY <1>4, <1>5 DEF WokenAt
  <2> QED
    BY <1>5, <2>1 DEF Announcing
<1> QED
  BY <1>7, <1>8, <1>9 DEF TextInv

LEMMA SignalQuiet ==
  ASSUME CalmInv, NEW p \in Pid, ~TextLost(p), UNCHANGED fifo, ChildSignal(p) \/ terminate(p)
  PROVE  Quiet
<1> USE DEF CalmInv
<1>1. /\ lib \in [Pid -> SoundLib] /\ lib[p] \in LibType /\ sig \in [Pid -> SignalType]
      /\ pc \in [Pid -> Points]
  BY Shape DEF SoundLib
<1>2. CASE sigterm_handler(p) \/ remove_zombie(p)
  <2>1. lib' = [lib EXCEPT ![p].at = WokenAt(@)]
    BY <1>2 DEF sigterm_handler, remove_zombie
  <2>2. \A x \in Pid : sig'[x].usr1 = sig[x].usr1
    BY <1>1, <1>2 DEF sigterm_handler, remove_zombie, SignalType
  <2>3. /\ lib'[p] = [lib[p] EXCEPT !.at = WokenAt(@)]
        /\ \A x \in Pid \ {p} : lib'[x] = lib[x]
    BY <1>1, <2>1
  <2> QED
    BY <2>2, <2>3 DEF Quiet, QuietStep
<1>3. CASE KilledAtBoot(p)
  <2>1. /\ pc[p] = "boot" /\ pc'[p] = "killed"
        /\ lib' = [lib EXCEPT ![p] = BlankLib] /\ sig' = [sig EXCEPT ![p] = NoSignals]
    BY <1>1, <1>3 DEF KilledAtBoot
  <2>2. ~Announcing(p)
    <3>1. lib[p].at # "kill"
      BY <2>1 DEF Order, Discipline, CallsOpen, OpenAt, Sending, Answering
    <3> QED
      BY <2>1, <3>1 DEF TextLost, Alive, Announcing, Gone
  <2>3. /\ lib'[p].at = "ret" /\ ~lib'[p].unread_flag /\ sig'[p].usr1 = NoPid
        /\ \A x \in Pid \ {p} : lib'[x] = lib[x] /\ sig'[x] = sig[x]
    BY <1>1, <2>1 DEF BlankLib, NoSignals
  <2> QED
    BY <2>2, <2>3 DEF Quiet, QuietStep
<1>4. CASE terminate(p)
  <2>1. ~sig[p].int /\ pc[p] \in ManagerPoints /\ pc[p] \notin Gone
    BY <1>4 DEF Order, Discipline, NoInterrupt, terminate, ManagerPoints, Gone
  <2>2. sig[p].term # NoPid
    BY <1>4, <2>1 DEF terminate, Deliverable
  <2>3. HasTurn(p, "term") /\ "term" \in Claims
    BY <2>2 DEF HasTurn, Claims
  <2>4. Only(p, "term")
    BY <2>3, Holder DEF Turn
  <2>5. ~Announcing(p) /\ lib[p].at # "kill" /\ sig[p].usr1 = NoPid /\ ~lib[p].unread_flag
    BY <2>4 DEF Only, Announcing, Busy, BusyAt
  <2>6. CASE Exit(p)
    BY <2>1, <2>5, <2>6, ExitQuiet DEF Exit
  <2>7. ASSUME NEW s, NEW m,
               Goto(p, "cleanup",
                  [lib[p] EXCEPT !.at = "ret", !.pid = NoPid, !.text = <<>>, !.msg = NULL], m),
               sig' = [sig EXCEPT ![p].term = NoPid] \/ sig' = [sig EXCEPT ![p].int = FALSE]
        PROVE  Quiet
    <3>1. /\ lib'[p].at = "ret" /\ ~lib'[p].unread_flag
          /\ \A x \in Pid \ {p} : lib'[x] = lib[x]
      BY <1>1, <2>5, <2>7 DEF Goto, LibType
    <3>2. \A x \in Pid : sig'[x].usr1 = sig[x].usr1
      BY <1>1, <2>7 DEF SignalType
    <3> QED
      BY <2>5, <3>1, <3>2 DEF Quiet, QuietStep
  <2> QED
    BY <1>4, <2>6, <2>7 DEF terminate
<1> QED
  BY <1>2, <1>3, <1>4 DEF ChildSignal

-----------------------------------------------------------------------------
(***************************************************************************)
(* The theorems.                                                           *)
(***************************************************************************)
LEMMA InitText == Init => TextInv
<1> SUFFICES ASSUME Init PROVE TextInv
  OBVIOUS
<1>1. fifo = <<>> /\ \A p \in Pid : lib[p] = BlankLib /\ sig[p] = NoSignals
  BY DEF Init
<1> QED
  BY <1>1 DEF TextInv, TextAt, BlankLib, NoSignals

\* No incident, and no text loses its addressee.
MailStep == Next /\ ~Incident /\ \A p \in Pid : ~TextLost(p)

LEMMA StepText == CalmInv /\ TextInv /\ [MailStep]_vars => TextInv'
<1> SUFFICES ASSUME CalmInv, TextInv, [MailStep]_vars PROVE TextInv'
  OBVIOUS
<1>1. CASE UNCHANGED vars
  BY <1>1, QuietText DEF vars, Quiet, QuietStep
<1>2. CASE MailStep
  <2>1. \A p \in Pid : ~CopyCleansUp(p) /\ ~TextLost(p)
    BY <1>2 DEF MailStep, Incident
  <2>2. CASE UserStep
    BY <2>2, UserQuiet, QuietText DEF UserStep
  <2>3. ASSUME NEW p \in Pid, ProcessStep(p)
        PROVE  TextInv'
    <3>1. CASE MessageStep(p)
      BY <2>1, <3>1, WriteKeepsText, NotifyKeepsText, CheckKeepsText, ReadKeepsText, ResetQuiet,
         QuietText DEF MessageStep
    <3>2. CASE ChildStep(p) \/ CommandStep(p) \/ ManagerStep(p)
      BY <2>1, <3>2, ChildQuiet, CommandQuiet, ManagerQuiet, QuietText
    <3> QED
      BY <2>3, <3>1, <3>2 DEF ProcessStep
  <2>4. ASSUME NEW p \in Pid, SignalStep(p)
        PROVE  TextInv'
    <3>1. ~DieOfInterrupt(p)
      BY DEF CalmInv, Order, Discipline, NoInterrupt, DieOfInterrupt, Dying, Interrupted
    <3>2. CASE set_unread_flag(p)
      BY <3>2, Usr1KeepsText
    <3>3. CASE ChildSignal(p) \/ terminate(p)
      <4>1. UNCHANGED fifo
        BY <3>3 DEF ChildSignal, sigterm_handler, KilledAtBoot, remove_zombie, terminate
      <4> QED
        BY <2>1, <3>3, <4>1, SignalQuiet, QuietText
    <3> QED
      BY <2>4, <3>1, <3>2, <3>3 DEF SignalStep
  <2> QED
    BY <1>2, <2>2, <2>3, <2>4 DEF MailStep, Next, Incident
<1> QED
  BY <1>1, <1>2

LEMMA MailInvHolds == MailSpec => [](CalmInv /\ TextInv)
<1>1. CalmInv /\ TextInv /\ [MailStep]_vars => CalmInv' /\ TextInv'
  BY StepCalm, StepText DEF MailStep
<1> QED
  BY <1>1, InitCalm, InitText, PTL DEF MailSpec, MailStep

\* SIGUSR1 and the FIFO never disagree, though only the signal says whose turn it
\* is: whoever starts to read finds the text of the process that has notified it,
\* and in message_wait() the one of the process it waits for.
THEOREM ReadsOwnText == MailSpec => []ReadsItsMessage
<1>1. CalmInv /\ TextInv => ReadsItsMessage
  <2> SUFFICES ASSUME CalmInv, TextInv, NEW p \in Pid, lib[p].at = "read"
               PROVE  /\ fifo # <<>>
                      /\ Head(fifo).text[1] = lib[p].message_sender
                      /\ lib[p].pid \in {NoPid, Head(fifo).text[1]}
    BY DEF ReadsItsMessage
  <2>1. lib[p].unread_flag /\ fifo \in Seq(LetterType)
    BY Reader DEF CalmInv, TypeInv, KernelInv
  <2>2. Holds(p, lib[p].message_sender) /\ lib[p].pid \in {NoPid, lib[p].message_sender}
    BY <2>1 DEF TextInv, TextAt
  <2>3. Len(fifo) = 1 /\ fifo[1].text[1] = lib[p].message_sender
    BY <2>2 DEF Holds, Signed
  <2>4. fifo # <<>> /\ Head(fifo) = fifo[1]
    <3>1. ASSUME NEW S, NEW s \in Seq(S), Len(s) = 1
          PROVE  s # <<>> /\ Head(s) = s[1]
      BY <3>1
    <3> QED
      BY <2>1, <2>3, <3>1
  <2> QED
    BY <2>2, <2>3, <2>4
<1> QED
  BY <1>1, MailInvHolds, PTL

-----------------------------------------------------------------------------
(***************************************************************************)
(* The refinement of module Mailboxes.  There is one text at most, so that *)
(* one box at most is not empty, and one message at most has been received *)
(* and not yet decoded.                                                    *)
(***************************************************************************)
LEMMA BoxOf ==
  ASSUME NEW q
  PROVE  /\ Box(<<>>, q) = <<>>
         /\ \A x : Box(<<x>>, q) = IF x.to = q THEN <<x.text>> ELSE <<>>
<1>1. \A f : {i \in 1..Len(f) : f[i].to = q} = {} => Box(f, q) = <<>>
  <2> SUFFICES ASSUME NEW f, {i \in 1..Len(f) : f[i].to = q} = {}
               PROVE  Box(f, q) = <<>>
    OBVIOUS
  <2> DEFINE box == [k \in 1..0 |-> f[Nth({}, k)].text]
  <2>1. Cardinality({i \in 1..Len(f) : f[i].to = q}) = 0
    BY FS_EmptySet
  <2>2. box \in [1..0 -> {}]
    OBVIOUS
  <2>3. box \in Seq({}) /\ Len(box) = 0
    BY <2>2
  <2>4. box = <<>>
    BY <2>3
  <2> QED
    BY <2>1, <2>4 DEF Box
<1>2. {i \in 1..Len(<<>>) : <<>>[i].to = q} = {}
  OBVIOUS
<1>3. ASSUME NEW x PROVE Box(<<x>>, q) = IF x.to = q THEN <<x.text>> ELSE <<>>
  <2>1. Len(<<x>>) = 1 /\ <<x>>[1] = x
    OBVIOUS
  <2>2. CASE x.to = q
    <3> DEFINE mine == {i \in 1..Len(<<x>>) : <<x>>[i].to = q}
    <3>1. mine = {1}
      BY <2>1, <2>2
    <3>2. Cardinality({1}) = 1 /\ Cardinality({}) = 0
      BY FS_EmptySet, FS_Singleton
    <3>3. Nth({1}, 1) = 1
      <4>1. {j \in {1} : j < 1} = {}
        OBVIOUS
      <4> QED
        BY <3>2, <4>1 DEF Nth
    <3>4. Box(<<x>>, q) = [k \in 1..1 |-> <<x>>[Nth({1}, k)].text]
      BY <3>1, <3>2 DEF Box
    <3>5. [k \in 1..1 |-> <<x>>[Nth({1}, k)].text] = <<x.text>>
      BY <2>1, <3>3
    <3> QED
      BY <2>2, <3>4, <3>5
  <2>3. CASE x.to # q
    <3>1. {i \in 1..Len(<<x>>) : <<x>>[i].to = q} = {}
      BY <2>1, <2>3
    <3> QED
      BY <1>1, <2>3, <3>1
  <2> QED
    BY <2>2, <2>3
<1> QED
  BY <1>1, <1>2, <1>3

\* What is received and not yet decoded is released, by the one process that has
\* received something, or stays.
LEMMA GotMoves ==
  ASSUME CalmInv, fifo' = fifo, \A x \in Pid : Got(x)' = Got(x) \/ Got(x)' = NULL
  PROVE  [Mail!Next]_Mail!mailVars
<1> DEFINE box == [q \in Pid |-> Box(fifo, q)]
           got == [q \in Pid |-> Got(q)]
<1>1. box' = box
  OBVIOUS
<1>2. CASE \A x \in Pid : Got(x)' = Got(x)
  <2>1. got' = got
    BY <1>2
  <2> QED
    BY <1>1, <2>1 DEF Mail!mailVars
<1>3. ASSUME NEW x \in Pid, Got(x)' # Got(x) PROVE Mail!Next
  <2>1. Got(x)' = NULL /\ Got(x) # NULL
    BY <1>3
  <2>2. lib[x].at = "reset"
    BY <2>1 DEF Got
  <2>3. ASSUME NEW y \in Pid \ {x} PROVE Got(y)' = Got(y)
    <3>1. lib[y].at # "reset"
      BY <2>2, Reader DEF Only
    <3> QED
      BY <3>1 DEF Got
  <2>4. got' = [got EXCEPT ![x] = NULL]
    BY <2>1, <2>3
  <2>5. got[x] # NULL
    BY <2>1
  <2> QED
    BY <1>1, <2>4, <2>5 DEF Mail!Next, Mail!Release
<1> QED
  BY <1>2, <1>3

LEMMA QuietMail ==
  ASSUME CalmInv, Quiet
  PROVE  [Mail!Next]_Mail!mailVars
<1>1. ASSUME NEW x \in Pid PROVE Got(x)' = Got(x) \/ Got(x)' = NULL
  <2>1. QuietStep(x) /\ lib[x] \in LibType
    BY Shape DEF Quiet, CalmInv, SoundLib
  <2>2. CASE lib'[x] = lib[x]
    BY <2>2 DEF Got
  <2>3. CASE Begins(x, lib'[x]) \/ lib'[x].at = "ret"
    BY <2>3 DEF Begins, Got
  <2>4. CASE lib'[x] = [lib[x] EXCEPT !.at = WokenAt(@)]
    BY <2>1, <2>4 DEF WokenAt, Got, LibType
  <2> QED
    BY <2>1, <2>2, <2>3, <2>4 DEF QuietStep
<1> QED
  BY <1>1, GotMoves DEF Quiet

\* Neither message_wait() nor the signal touches what has been received.
LEMMA ToldMail ==
  ASSUME CalmInv, NEW p \in Pid,
         NotifyReceiver(p) \/ CheckFlags(p) \/ Suspend(p) \/ set_unread_flag(p)
  PROVE  [Mail!Next]_Mail!mailVars
<1>1. lib \in [Pid -> SoundLib] /\ lib[p] \in LibType /\ fifo' = fifo
  BY Shape DEF CalmInv, SoundLib, NotifyReceiver, CheckFlags, Suspend, set_unread_flag
<1>2. /\ \A x \in Pid \ {p} : lib'[x] = lib[x]
      /\ \/ lib'[p].at # "reset"
         \/ lib'[p].at = lib[p].at /\ lib'[p].text = lib[p].text
  BY <1>1 DEF NotifyReceiver, CheckFlags, Suspend, set_unread_flag, WokenAt, LibType
<1>3. \A x \in Pid : Got(x)' = Got(x) \/ Got(x)' = NULL
  BY <1>2 DEF Got
<1> QED
  BY <1>1, <1>3, GotMoves

\* The box of the addressee, if there is one, gets the text.
LEMMA WriteMail ==
  ASSUME CalmInv, TextInv, NEW p \in Pid, WriteText(p)
  PROVE  [Mail!Next]_Mail!mailVars
<1> DEFINE box == [q \in Pid |-> Box(fifo, q)]
           got == [q \in Pid |-> Got(q)]
           to == lib[p].pid
           text == lib[p].text
<1>1. /\ lib \in [Pid -> SoundLib] /\ lib[p] \in LibType /\ lib[p].at = "write" /\ fifo = <<>>
      /\ fifo' = Append(fifo, Letter(to, text))
      /\ lib' = [lib EXCEPT ![p].at = "kill", ![p].text = <<>>]
  BY Shape, WritesAlone DEF CalmInv, WriteText, SoundLib
<1>2. fifo' = <<Letter(to, text)>> /\ Letter(to, text).to = to /\ Letter(to, text).text = text
  BY <1>1 DEF Letter
<1>3. \A q \in Pid : Box(fifo, q) = <<>> /\ Box(fifo', q) = IF to = q THEN <<text>> ELSE <<>>
  BY <1>1, <1>2, BoxOf
<1>4. got' = got
  BY <1>1 DEF LibType, Got
<1>5. CASE to \in Pid
  <2>1. box[to] = <<>> /\ box'[to] = <<text>>
    BY <1>3, <1>5
  <2>2. Len(box'[to]) = Len(box[to]) + 1 /\ Append(box[to], box'[to][Len(box[to]) + 1]) = <<text>>
    <3>1. Len(<<>>) = 0 /\ \A t : Len(<<t>>) = 1 /\ <<t>>[1] = t /\ Append(<<>>, t) = <<t>>
      OBVIOUS
    <3> HIDE DEF box, text
    <3> QED
      BY <2>1, <3>1
  <2>3. box' = [box EXCEPT ![to] = <<text>>]
    BY <1>3
  <2>4. box' = [box EXCEPT ![to] = Append(@, box'[to][Len(@) + 1])]
    BY <1>5, <2>2, <2>3
  <2> HIDE DEF to
  <2> QED
    BY <1>4, <1>5, <2>2, <2>4 DEF Mail!Next, Mail!Send
<1>6. CASE to \notin Pid
  <2>1. box' = box
    BY <1>3, <1>6
  <2> QED
    BY <1>4, <2>1 DEF Mail!mailVars
<1> QED
  BY <1>5, <1>6

\* The reader's box has the text it gets.
LEMMA ReadMail ==
  ASSUME CalmInv, TextInv, NEW p \in Pid, ReadText(p)
  PROVE  [Mail!Next]_Mail!mailVars
<1> DEFINE box == [q \in Pid |-> Box(fifo, q)]
           got == [q \in Pid |-> Got(q)]
<1>1. PICK x : fifo = <<x>> /\ x.to = p
  <2>1. fifo \in Seq(LetterType)
    BY DEF CalmInv, TypeInv, KernelInv
  <2>2. \A S, s : s \in Seq(S) /\ Len(s) = 1 => s = <<s[1]>>
    OBVIOUS
  <2> QED
    BY <2>1, <2>2, ReadsWhole
<1>2. /\ lib \in [Pid -> SoundLib] /\ lib[p] \in LibType /\ lib[p].at = "read" /\ lib[p].text = <<>>
      /\ x \in LetterType
  BY <1>1, Shape DEF CalmInv, TypeInv, KernelInv, SoundLib, ReadText, TextInv, TextAt
<1>3. fifo' = <<>> /\ lib'[p].at = "reset" /\ lib'[p].text = x.text
      /\ \A y \in Pid \ {p} : lib'[y] = lib[y]
  <2>1. \A t \in Str : <<>> \o t = t
    BY DEF Str
  <2>2. Head(fifo) = x /\ Tail(fifo) = <<>> /\ lib[p].text \o x.text = x.text
    BY <1>1, <1>2, <2>1 DEF LetterType
  <2>3. /\ fifo' = <<>>
        /\ lib' = [lib EXCEPT ![p].at = "reset", ![p].text = x.text, ![p].msg = MessageOf(x.text)]
    BY <2>2, ReadsWhole DEF ReadToEnd
  <2> QED
    BY <1>2, <2>3 DEF LibType
<1>4. \A q \in Pid : Box(fifo', q) = <<>> /\ Box(fifo, q) = IF q = p THEN <<x.text>> ELSE <<>>
  BY <1>1, <1>3, BoxOf
<1>5. box[p] = <<x.text>> /\ got[p] = NULL
  BY <1>2, <1>4 DEF Got
<1>6. box[p] # <<>> /\ Head(box[p]) = x.text /\ Tail(box[p]) = <<>>
  <2>1. \A t : <<t>> # <<>> /\ Head(<<t>>) = t /\ Tail(<<t>>) = <<>>
    OBVIOUS
  <2> HIDE DEF box
  <2> QED
    BY <1>5, <2>1
<1>7. got' = [got EXCEPT ![p] = x.text]
  BY <1>3 DEF Got
<1>8. box' = [box EXCEPT ![p] = <<>>]
  BY <1>4
<1> QED
  BY <1>5, <1>6, <1>7, <1>8 DEF Mail!Next, Mail!Receive

LEMMA StepMail == CalmInv /\ TextInv /\ [MailStep]_vars => [Mail!Next]_Mail!mailVars
<1> SUFFICES ASSUME CalmInv, TextInv, [MailStep]_vars PROVE [Mail!Next]_Mail!mailVars
  OBVIOUS
<1>1. CASE UNCHANGED vars
  BY <1>1, QuietMail DEF vars, Quiet, QuietStep
<1>2. CASE MailStep
  <2>1. \A p \in Pid : ~CopyCleansUp(p) /\ ~TextLost(p)
    BY <1>2 DEF MailStep, Incident
  <2>2. CASE UserStep
    BY <2>2, UserQuiet, QuietMail DEF UserStep
  <2>3. ASSUME NEW p \in Pid, ProcessStep(p)
        PROVE  [Mail!Next]_Mail!mailVars
    <3>1. CASE MessageStep(p)
      BY <3>1, WriteMail, ReadMail, ToldMail, ResetQuiet, QuietMail DEF MessageStep
    <3>2. CASE ChildStep(p) \/ CommandStep(p) \/ ManagerStep(p)
      BY <2>1, <3>2, ChildQuiet, CommandQuiet, ManagerQuiet, QuietMail
    <3> QED
      BY <2>3, <3>1, <3>2 DEF ProcessStep
  <2>4. ASSUME NEW p \in Pid, SignalStep(p)
        PROVE  [Mail!Next]_Mail!mailVars
    <3>1. ~DieOfInterrupt(p)
      BY DEF CalmInv, Order, Discipline, NoInterrupt, DieOfInterrupt, Dying, Interrupted
    <3>2. CASE set_unread_flag(p)
      BY <3>2, ToldMail
    <3>3. CASE ChildSignal(p) \/ terminate(p)
      <4>1. UNCHANGED fifo
        BY <3>3 DEF ChildSignal, sigterm_handler, KilledAtBoot, remove_zombie, terminate
      <4> QED
        BY <2>1, <3>3, <4>1, SignalQuiet, QuietMail
    <3> QED
      BY <2>4, <3>1, <3>2, <3>3 DEF SignalStep
  <2> QED
    BY <1>2, <2>2, <2>3, <2>4 DEF MailStep, Next, Incident
<1> QED
  BY <1>1, <1>2

\* The shell implements module Mailboxes with its one FIFO: every text is read by
\* the process it was written for, whole, once and in the order of the writes.
THEOREM ImplementsMailboxes == MailSpec => MailboxSpec
<1>1. Init => Mail!Init
  <2> SUFFICES ASSUME Init PROVE Mail!Init
    OBVIOUS
  <2>1. fifo = <<>> /\ \A p \in Pid : lib[p] = BlankLib
    BY DEF Init
  <2>2. \A q \in Pid : Box(fifo, q) = <<>> /\ Got(q) = NULL
    BY <2>1, BoxOf DEF Got, BlankLib
  <2> QED
    BY <2>2 DEF Mail!Init
<1>2. CalmInv /\ TextInv /\ [MailStep]_vars => [Mail!Next]_Mail!mailVars
  BY StepMail
<1> QED
  BY <1>1, <1>2, MailInvHolds, PTL DEF MailSpec, MailStep, MailboxSpec, Mail!Spec

(***************************************************************************)
(* Requests and the tree.                                                  *)
(***************************************************************************)

\* A call, or its return, that carries no request to add a process.
PlainCall(l, point) ==
  \/ l.at = "ret" /\ point # "handle"
  \/ l.at \in {"check", "read"} /\ l.text = <<>>
  \/ l.at = "write" /\ Added(MessageOf(l.text)) = {}

PlainAt(x) == (\A pid \in InHand(x)' : pid \in InHand(x)) /\ (BlankAt(x) => BlankAt(x)')

Plain ==
  /\ fifo' = fifo
  /\ nextPid' \in {nextPid, nextPid + 1}
  /\ \A x \in Pid : PlainAt(x)

-----------------------------------------------------------------------------
LEMMA CallIsPlain ==
  ASSUME NEW x \in Pid, PlainCall(lib'[x], pc'[x])
  PROVE  InHand(x)' = {} /\ BlankAt(x)' /\ PlainAt(x)
<1>1. InHand(x)' = {}
  BY DEF PlainCall, InHand, Ready
<1>2. BlankAt(x)'
  BY DEF PlainCall, BlankAt
<1> QED
  BY <1>1, <1>2 DEF PlainAt

LEMMA SameIsPlain ==
  ASSUME NEW x \in Pid, lib'[x] = lib[x], pc'[x] = pc[x] \/ pc'[x] # "handle"
  PROVE  PlainAt(x)
<1>1. CASE pc'[x] = pc[x]
  BY <1>1 DEF PlainAt, InHand, BlankAt, Ready
<1>2. CASE pc'[x] # "handle"
  BY <1>2 DEF PlainAt, InHand, BlankAt, Ready
<1> QED
  BY <1>1, <1>2

\* What is sent in the other messages is no request to add a process.
LEMMA SendPlain ==
  ASSUME NEW p \in Pid, TypeInv, NEW to, NEW type \in MsgType \ {MSG_ADD}, NEW content \in Str, NEW point
  PROVE  PlainCall(message_send(p, to, type, content), point)
<1> DEFINE text == MessageText(p, type, content)
<1>1. lib[p] \in LibType /\ p \in Nat
  BY Shape, PidFacts DEF SoundLib
<1>2. MessageOf(text) = NULL \/ MessageOf(text).type = type
  BY <1>1, Sent
<1>3. Added(MessageOf(text)) = {}
  BY <1>2 DEF Added
<1> HIDE DEF text
<1>4. /\ [lib[p] EXCEPT !.at = "write", !.pid = to, !.msg = NULL, !.text = text].at = "write"
      /\ [lib[p] EXCEPT !.at = "write", !.pid = to, !.msg = NULL, !.text = text].text = text
  BY <1>1 DEF LibType
<1> QED
  BY <1>3, <1>4 DEF message_send, PlainCall, text

LEMMA WaitPlain ==
  ASSUME TypeInv, NEW p \in Pid, NEW point
  PROVE  /\ \A from : PlainCall(message_wait(p, from), point)
         /\ PlainCall(message_read(p), point)
         /\ lib[p].at = "ret" /\ point # "handle" =>
              PlainCall(lib[p], point) /\ PlainCall([lib[p] EXCEPT !.msg = NULL], point)
         /\ point # "handle" => PlainCall(BlankLib, point)
<1>1. lib[p] \in LibType
  BY Shape DEF SoundLib
<1> QED
  BY <1>1 DEF message_wait, message_read, PlainCall, LibType, BlankLib

\* What the programs send.
LEMMA TypesPlain ==
  ASSUME TypeInv, NEW p \in Pid
  PROVE  /\ <<Pad>> \in Str /\ pmanager \in Str /\ mem[p].name \in Str /\ NextName(p) \in Str
         /\ {MSG_REMOVE, MSG_INFO, MSG_ERROR, MSG_SUCCESS, MSG_LIST, MSG_SPAWN} \subseteq MsgType \ {MSG_ADD}
         /\ \A to, point : PlainCall(resume_process(p, to), point)
<1>1. mem[p] \in MemType
  BY Shape DEF SoundMem
<1>2. mem[p].name \in Str /\ mem[p].clones_count + 1 \in Nat
  BY <1>1 DEF MemType
<1>3. NextName(p) \in Str
  BY <1>2, AtomFacts, TextTypes DEF NextName
<1>4. {MSG_REMOVE, MSG_INFO, MSG_ERROR, MSG_SUCCESS, MSG_LIST, MSG_SPAWN} \subseteq MsgType \ {MSG_ADD}
  BY AtomAssumption DEF MsgType
<1>5. \A to, point : PlainCall(resume_process(p, to), point)
  BY <1>4, AtomFacts, SendPlain DEF resume_process
<1> QED
  BY <1>2, <1>3, <1>4, <1>5, AtomFacts, NameAssumption

LEMMA GotoPlain ==
  ASSUME TypeInv, NEW p \in Pid, NEW point, NEW l, NEW m, Goto(p, point, l, m), PlainCall(l, point),
         UNCHANGED <<nextPid, fifo>>
  PROVE  Plain
<1>1. lib'[p] = l /\ pc'[p] = point /\ \A x \in Pid \ {p} : lib'[x] = lib[x] /\ pc'[x] = pc[x]
  BY Shape DEF Goto
<1> QED
  BY <1>1, CallIsPlain, SameIsPlain DEF Plain

LEMMA ExitPlain ==
  ASSUME CalmInv, NEW p \in Pid, pc[p] \notin Gone, NEW output, ExitPrinting(p, output),
         UNCHANGED fifo
  PROVE  Plain
<1>1. Ended(p, output)
  BY ExitFacts DEF CalmInv
<1>2. nextPid' = nextPid /\ lib'[p] = BlankLib /\ pc'[p] # "handle"
  BY <1>1 DEF Ended
<1>3. PlainCall(lib'[p], pc'[p])
  BY <1>2 DEF PlainCall, BlankLib
<1>4. ASSUME NEW x \in Pid \ {p} PROVE PlainAt(x)
  BY <1>1, <1>4, SameIsPlain DEF Ended
<1> QED
  BY <1>2, <1>3, <1>4, CallIsPlain DEF Plain

\* A process is forked, and nobody is told.
LEMMA ForkPlain ==
  ASSUME CalmInv, NEW p \in Pid, pc[p] \notin Gone, NEW point, NEW l, NEW m,
         NEW kidPoint, NEW kidLib, NEW kidMem,
         Fork(p, point, l, m, kidPoint, kidLib, kidMem), PlainCall(l, point),
         kidLib.at = "ret", kidPoint # "handle", UNCHANGED fifo
  PROVE  Plain
<1>1. /\ nextPid' = nextPid + 1 /\ pc'[p] = point /\ pc'[nextPid] = kidPoint
      /\ lib'[p] = l /\ lib'[nextPid] = kidLib /\ nextPid \in Pid
      /\ \A x \in Pid \ {p, nextPid} : pc'[x] = pc[x] /\ lib'[x] = lib[x]
  BY ForkFacts DEF CalmInv
<1>2. PlainAt(p) /\ PlainAt(nextPid)
  BY <1>1, CallIsPlain DEF PlainCall
<1>3. \A x \in Pid \ {p, nextPid} : PlainAt(x)
  BY <1>1, SameIsPlain
<1> QED
  BY <1>1, <1>2, <1>3 DEF Plain

-----------------------------------------------------------------------------
(***************************************************************************)
(* The invariant.                                                          *)
(***************************************************************************)
LEMMA NumberFacts ==
  ASSUME TypeInv
  PROVE  /\ nextPid \in Nat /\ Pid \subseteq Nat
         /\ \A n \in Nat : n < nextPid => n < nextPid + 1
         /\ ~(nextPid < nextPid)
<1>1. nextPid \in Nat /\ Pid \subseteq Nat
  BY PidFacts DEF TypeInv, KernelInv, Kinship
<1> QED
  BY <1>1

LEMMA NodesArePids ==
  /\ NodesForked <=> \A q \in Pids(tree) : q \in Pid /\ q < nextPid
  /\ NodesForked' <=> \A q \in Pids(tree)' : q \in Pid /\ q < nextPid'
  BY DEF NodesForked, Pids, tree

LEMMA TreeTyped ==
  ASSUME TypeInv
  PROVE  /\ tree \in CleanTree /\ tree \in Seq(TreeNode) /\ Len(tree) \in Nat
         /\ \A p \in Pid : trees[p] \in CleanTree /\ trees[p] \in Seq(TreeNode)
<1>1. \A p \in Pid : trees[p] \in CleanTree
  BY DEF TypeInv, ManagerInv
<1>2. \A p \in Pid : trees[p] \in Seq(TreeNode)
  BY <1>1 DEF CleanTree
<1>3. tree \in CleanTree /\ tree \in Seq(TreeNode)
  BY <1>1, <1>2, PidFacts DEF tree
<1>4. Len(tree) \in Nat
  BY <1>3
<1> QED
  BY <1>1, <1>2, <1>3, <1>4

\* A plain step that adds nobody to the tree keeps the invariant.
LEMMA PlainKeeps ==
  ASSUME TypeInv, RequestInv, Plain, Pids(tree)' \subseteq Pids(tree)
  PROVE  RequestInv'
<1>1. fifo' = fifo /\ nextPid' \in {nextPid, nextPid + 1}
  BY DEF Plain
<1>2. \A n \in Nat : n < nextPid => n < nextPid'
  BY <1>1, NumberFacts
<1>3. \A pid : NewProcess(pid) => NewProcess(pid)'
  BY <1>1, <1>2, NumberFacts DEF NewProcess
<1>4. \A i : InFifo(i)' = InFifo(i)
  BY <1>1 DEF InFifo
<1>5. NodesForked'
  BY <1>2, NumberFacts, NodesArePids DEF RequestInv
<1>6. AddsOnce'
  BY <1>1, <1>3, <1>4 DEF RequestInv, AddsOnce, Plain, PlainAt
<1>7. BlankText'
  BY DEF RequestInv, BlankText, Plain, PlainAt
<1> QED
  BY <1>5, <1>6, <1>7 DEF RequestInv

\* Nobody else has a request in hand.
LEMMA OneHand ==
  ASSUME CalmInv, NEW p \in Pid, NEW x \in Pid \ {p},
         lib[p].at \in {"write", "read", "reset"} \/ Busy(p)
  PROVE  InHand(x) = {}
<1> SUFFICES ASSUME InHand(x) # {} PROVE FALSE
  OBVIOUS
<1>1. lib[x].at \in {"write", "reset"} \/ Ready(x, "handle")
  BY DEF InHand
<1>2. Busy(x) \/ lib[x].unread_flag
  <2>1. CASE lib[x].at = "reset"
    BY <2>1, Reader
  <2>2. CASE lib[x].at = "write"
    BY <2>2 DEF Busy, BusyAt
  <2>3. CASE Ready(x, "handle")
    BY <2>3 DEF Busy, BusyAt, Ready, Receiving
  <2> QED
    BY <1>1, <2>1, <2>2, <2>3
<1>3. CASE lib[p].at \in {"read", "reset"}
  <2>1. Only(p, "unread")
    BY <1>3, Reader
  <2> QED
    BY <1>2, <2>1 DEF Only
<1>4. CASE lib[p].at = "write" \/ Busy(p)
  <2>1. Busy(p)
    BY <1>4 DEF Busy, BusyAt
  <2>2. Only(p, "busy")
    BY <2>1, BusyAlone DEF CalmInv
  <2> QED
    BY <1>2, <2>2 DEF Only
<1> QED
  BY <1>3, <1>4

\* p forks a process and is about to ask for it to be added.
LEMMA ForkAsks ==
  ASSUME CalmInv, RequestInv, NEW p \in Pid, pc[p] \notin Gone, Busy(p), NEW point, NEW l, NEW m,
         NEW kidPoint, NEW kidLib, NEW kidMem,
         Fork(p, point, l, m, kidPoint, kidLib, kidMem),
         l.at = "write", \A pid \in Added(MessageOf(l.text)) : pid = nextPid,
         kidLib.at = "ret", kidPoint # "handle", UNCHANGED fifo, tree' = tree
  PROVE  RequestInv'
<1>0. PICK kid \in Pid : kid = nextPid
  BY ForkFacts DEF CalmInv
<1>1. /\ nextPid' = kid + 1 /\ kid # p /\ pc'[kid] = kidPoint
      /\ lib'[p] = l /\ lib'[kid] = kidLib /\ kid = nextPid
      /\ \A x \in Pid \ {p, kid} : pc'[x] = pc[x] /\ lib'[x] = lib[x]
  BY <1>0, ForkFacts DEF CalmInv
<1>2. \A pid : NewProcess(pid) => pid # kid /\ NewProcess(pid)'
  BY <1>1, NumberFacts DEF NewProcess, CalmInv
<1>3. NewProcess(kid)'
  <2>1. \A i \in 1..Len(tree) : tree[i].pid < nextPid
    BY DEF RequestInv, NodesForked
  <2>2. \A i \in 1..Len(tree) : tree[i].pid # kid
    BY <1>1, <2>1, NumberFacts DEF CalmInv
  <2>3. kid \notin Pids(tree)'
    BY <2>2 DEF Pids
  <2>4. kid < nextPid'
    BY <1>1, NumberFacts DEF CalmInv
  <2> QED
    BY <1>0, <2>3, <2>4 DEF NewProcess
<1>4. \A i : InFifo(i)' = InFifo(i)
  BY DEF InFifo
<1>5. \A pid \in InHand(p)' : pid = kid
  <2>1. InHand(p)' = Added(MessageOf(l.text))
    BY <1>1 DEF InHand
  <2> QED
    BY <1>0, <2>1
<1>6. \A x \in Pid \ {p} : InHand(x)' = {}
  <2>1. InHand(kid)' = {}
    BY <1>1 DEF InHand, Ready
  <2>2. ASSUME NEW x \in Pid \ {p, kid} PROVE InHand(x)' = {}
    <3>1. InHand(x) = {}
      BY OneHand
    <3>2. InHand(x)' = InHand(x)
      BY <1>1 DEF InHand, Ready
    <3> QED
      BY <3>1, <3>2
  <2> QED
    BY <2>1, <2>2
<1>7. \A i \in 1..Len(fifo) : kid \notin InFifo(i)
  BY <1>2 DEF RequestInv, AddsOnce
<1>8. AddsOnce'
  <2>1. \A i \in 1..Len(fifo)' : \A pid \in InFifo(i)' : NewProcess(pid)'
    BY <1>2, <1>4 DEF RequestInv, AddsOnce
  <2>2. \A i, j \in 1..Len(fifo)' : \A pid \in InFifo(i)' : pid \in InFifo(j)' => i = j
    BY <1>4 DEF RequestInv, AddsOnce
  <2>3. \A x \in Pid : \A pid \in InHand(x)' : pid = kid
    BY <1>5, <1>6
  <2>4. \A x \in Pid : \A pid \in InHand(x)' :
          NewProcess(pid)' /\ \A i \in 1..Len(fifo)' : pid \notin InFifo(i)'
    BY <1>3, <1>4, <1>7, <2>3
  <2> QED
    BY <2>1, <2>2, <2>4 DEF AddsOnce
<1>9. NodesForked'
  BY <1>1, NumberFacts DEF RequestInv, NodesForked, CalmInv
<1>10. BlankText'
  <2>1. BlankAt(p)' /\ BlankAt(kid)'
    BY <1>1 DEF BlankAt
  <2>2. ASSUME NEW x \in Pid \ {p, kid} PROVE BlankAt(x)'
    BY <1>1 DEF RequestInv, BlankText, BlankAt
  <2> QED
    BY <2>1, <2>2 DEF BlankText
<1> QED
  BY <1>8, <1>9, <1>10 DEF RequestInv

-----------------------------------------------------------------------------
(***************************************************************************)
(* The calls of message.c.                                                 *)
(***************************************************************************)
LEMMA CallPlain ==
  ASSUME CalmInv, NEW p \in Pid,
         NotifyReceiver(p) \/ CheckFlags(p) \/ Suspend(p) \/ ResetFlags(p)
  PROVE  Plain
<1>1. lib \in [Pid -> SoundLib] /\ lib[p] \in LibType
  BY Shape DEF CalmInv, SoundLib
<1>2. /\ fifo' = fifo /\ nextPid' = nextPid /\ pc' = pc
      /\ \A x \in Pid \ {p} : lib'[x] = lib[x]
  BY <1>1 DEF NotifyReceiver, CheckFlags, Suspend, ResetFlags
<1>3. \A x \in Pid \ {p} : PlainAt(x)
  BY <1>2, SameIsPlain
<1>4. CASE NotifyReceiver(p)
  <2>1. lib'[p].at = "ret" /\ lib[p].at = "kill" /\ pc[p] # "handle"
    <3>1. lib'[p].at = "ret" /\ lib[p].at = "kill"
      BY <1>1, <1>4 DEF NotifyReceiver, LibType
    <3> QED
      BY <3>1 DEF CalmInv, Order, Discipline, CallsOpen, OpenAt, Sending, Answering
  <2> QED
    BY <1>2, <1>3, <2>1, CallIsPlain DEF PlainCall, Plain
<1>5. CASE CheckFlags(p) \/ Suspend(p)
  <2>1. /\ lib[p].at \in {"check", "suspend"} /\ lib'[p].at \in {"read", "suspend", "asleep"}
        /\ lib'[p].text = lib[p].text
    BY <1>1, <1>5 DEF CheckFlags, Suspend, LibType
  <2>2. PlainAt(p)
    BY <2>1 DEF PlainAt, InHand, Ready, BlankAt
  <2> QED
    BY <1>2, <1>3, <2>2 DEF Plain
<1>6. CASE ResetFlags(p)
  <2>1. /\ lib[p].at = "reset" /\ lib'[p].at = "ret" /\ lib'[p].msg = lib[p].msg
    BY <1>1, <1>6 DEF ResetFlags, LibType
  <2>2. PlainAt(p)
    BY <2>1 DEF PlainAt, InHand, Ready, BlankAt
  <2> QED
    BY <1>2, <1>3, <2>2 DEF Plain
<1> QED
  BY <1>4, <1>5, <1>6

\* The request goes from p's hand into the FIFO.
LEMMA WriteRequest ==
  ASSUME CalmInv, RequestInv, NEW p \in Pid, WriteText(p), tree' = tree
  PROVE  RequestInv'
<1>0. PICK n : n = Len(fifo) + 1
  OBVIOUS
<1>1. /\ lib \in [Pid -> SoundLib] /\ lib[p] \in LibType /\ lib[p].at = "write"
      /\ fifo \in Seq(LetterType)
  BY Shape DEF WriteText, SoundLib, CalmInv, TypeInv, KernelInv
<1>2. /\ lib'[p].at = "kill" /\ \A x \in Pid \ {p} : lib'[x] = lib[x]
      /\ pc' = pc /\ nextPid' = nextPid
  BY <1>1 DEF WriteText, LibType
<1>3. /\ Len(fifo) \in Nat /\ Len(fifo') = n /\ fifo'[n].text = lib[p].text
      /\ \A i \in 1..Len(fifo) : fifo'[i] = fifo[i]
  <2>1. fifo' = Append(fifo, Letter(lib[p].pid, lib[p].text))
    BY DEF WriteText
  <2>2. Letter(lib[p].pid, lib[p].text).text = lib[p].text
    BY DEF Letter
  <2>3. ASSUME NEW S, NEW s \in Seq(S), NEW e
        PROVE  /\ Len(s) \in Nat /\ Len(Append(s, e)) = Len(s) + 1 /\ Append(s, e)[Len(s) + 1] = e
               /\ \A i \in 1..Len(s) : Append(s, e)[i] = s[i]
    OBVIOUS
  <2> QED
    BY <1>0, <1>1, <2>1, <2>2, <2>3
<1>4. InFifo(n)' = InHand(p)
  BY <1>1, <1>3 DEF InFifo, InHand
<1>5. \A i \in 1..Len(fifo) : InFifo(i)' = InFifo(i)
  BY <1>3 DEF InFifo
<1>6. \A pid : NewProcess(pid)' = NewProcess(pid)
  BY <1>2 DEF NewProcess
<1>7. \A x \in Pid : InHand(x)' = {}
  <2>1. InHand(p)' = {}
    BY <1>2 DEF InHand, Ready
  <2>2. ASSUME NEW x \in Pid \ {p} PROVE InHand(x)' = {}
    <3>1. InHand(x) = {}
      BY <1>1, OneHand
    <3>2. InHand(x)' = InHand(x)
      BY <1>2 DEF InHand, Ready
    <3> QED
      BY <3>1, <3>2
  <2> QED
    BY <2>1, <2>2
<1>8. \A i \in 1..Len(fifo') : i \in 1..Len(fifo) \/ i = n
  BY <1>0, <1>3
<1>9. AddsOnce'
  <2>0. \A pid \in InHand(p) : NewProcess(pid) /\ \A i \in 1..Len(fifo) : pid \notin InFifo(i)
    BY DEF RequestInv, AddsOnce
  <2>1. \A i \in 1..Len(fifo)' : \A pid \in InFifo(i)' : NewProcess(pid)'
    <3> SUFFICES ASSUME NEW i \in 1..Len(fifo)', NEW pid \in InFifo(i)' PROVE NewProcess(pid)
      BY <1>6
    <3>1. CASE i \in 1..Len(fifo)
      BY <1>5, <3>1 DEF RequestInv, AddsOnce
    <3>2. CASE i = n
      BY <1>4, <2>0, <3>2
    <3> QED
      BY <1>8, <3>1, <3>2
  <2>2. \A i, j \in 1..Len(fifo)' : \A pid \in InFifo(i)' : pid \in InFifo(j)' => i = j
    <3> SUFFICES ASSUME NEW i \in 1..Len(fifo)', NEW j \in 1..Len(fifo)',
                        NEW pid \in InFifo(i)', pid \in InFifo(j)'
                 PROVE  i = j
      OBVIOUS
    <3>1. CASE i \in 1..Len(fifo) /\ j \in 1..Len(fifo)
      BY <1>5, <3>1 DEF RequestInv, AddsOnce
    <3>2. CASE i = n /\ j \in 1..Len(fifo)
      BY <1>4, <1>5, <2>0, <3>2
    <3>3. CASE i \in 1..Len(fifo) /\ j = n
      BY <1>4, <1>5, <2>0, <3>3
    <3> QED
      BY <1>8, <3>1, <3>2, <3>3
  <2>3. \A x \in Pid : \A pid \in InHand(x)' :
          NewProcess(pid)' /\ \A i \in 1..Len(fifo)' : pid \notin InFifo(i)'
    BY <1>7
  <2> QED
    BY <2>1, <2>2, <2>3 DEF AddsOnce
<1>10. NodesForked'
  BY <1>2 DEF RequestInv, NodesForked
<1>11. BlankText'
  BY <1>2 DEF RequestInv, BlankText, BlankAt
<1> QED
  BY <1>9, <1>10, <1>11 DEF RequestInv

\* The request goes from the FIFO into the hand of p, which reads alone.
LEMMA ReadRequest ==
  ASSUME CalmInv, RequestInv, NEW p \in Pid, ReadText(p), tree' = tree
  PROVE  RequestInv'
<1>1. /\ lib \in [Pid -> SoundLib] /\ lib[p] \in LibType /\ lib[p].at = "read"
      /\ fifo \in Seq(LetterType) /\ fifo # <<>> /\ lib[p].text = <<>>
  <2>1. lib[p].at = "read"
    BY DEF ReadText
  <2> QED
    BY <2>1, Shape, Reader DEF SoundLib, CalmInv, TypeInv, KernelInv, RequestInv, BlankText, BlankAt
<1>2. Undisturbed(p)
  <2>1. Only(p, "unread")
    BY <1>1, Reader
  <2>2. \A q \in Pid \ {p} : lib[q].at # "read"
    BY <2>1, Reader DEF Only
  <2>3. ~Interrupted(p)
    BY DEF CalmInv, Order, Discipline, NoInterrupt, Interrupted
  <2> QED
    BY <2>1, <2>2, <2>3 DEF Only, Undisturbed
<1>3. ReadToEnd(p)
  BY <1>1, <1>2 DEF ReadText
<1>4. /\ Len(fifo) \in Nat /\ Len(fifo) > 0 /\ Head(fifo) = fifo[1] /\ Head(fifo) \in LetterType
      /\ Len(fifo') = Len(fifo) - 1 /\ \A i \in 1..Len(fifo') : fifo'[i] = fifo[i + 1]
  <2>1. ASSUME NEW S, NEW s \in Seq(S), s # <<>>
        PROVE  /\ Len(s) \in Nat /\ Len(s) > 0 /\ Head(s) = s[1] /\ Head(s) \in S
               /\ Len(Tail(s)) = Len(s) - 1 /\ \A i \in 1..Len(Tail(s)) : Tail(s)[i] = s[i + 1]
    BY <2>1
  <2>2. fifo' = Tail(fifo)
    BY <1>3 DEF ReadToEnd
  <2> QED
    BY <1>1, <2>1, <2>2
<1>5. /\ lib'[p].at = "reset" /\ lib'[p].msg = MessageOf(fifo[1].text)
      /\ \A x \in Pid \ {p} : lib'[x] = lib[x]
      /\ pc' = pc /\ nextPid' = nextPid
  <2>1. \A t \in Str : <<>> \o t = t
    BY DEF Str
  <2>2. lib[p].text \o Head(fifo).text = fifo[1].text
    BY <1>1, <1>4, <2>1 DEF LetterType
  <2>3. lib' = [lib EXCEPT ![p].at = "reset", ![p].text = fifo[1].text, ![p].msg = MessageOf(fifo[1].text)]
    BY <1>3, <2>2 DEF ReadToEnd
  <2> QED
    BY <1>1, <2>3 DEF LibType, ReadText
<1>6. InHand(p)' = InFifo(1)
  BY <1>5 DEF InHand, InFifo
<1>7. \A x \in Pid \ {p} : InHand(x)' = {}
  <2> SUFFICES ASSUME NEW x \in Pid \ {p} PROVE InHand(x)' = {}
    OBVIOUS
  <2>1. InHand(x) = {}
    BY <1>1, OneHand
  <2>2. InHand(x)' = InHand(x)
    BY <1>5 DEF InHand, Ready
  <2> QED
    BY <2>1, <2>2
<1>8. \A i \in 1..Len(fifo') : InFifo(i)' = InFifo(i + 1) /\ i + 1 \in 1..Len(fifo) /\ i + 1 # 1
  BY <1>4 DEF InFifo
<1>9. \A pid : NewProcess(pid)' = NewProcess(pid)
  BY <1>5 DEF NewProcess
<1>10. 1 \in 1..Len(fifo)
  BY <1>4
<1>11. AddsOnce'
  <2>1. \A i \in 1..Len(fifo)' : \A pid \in InFifo(i)' : NewProcess(pid)'
    BY <1>8, <1>9 DEF RequestInv, AddsOnce
  <2>2. \A i, j \in 1..Len(fifo)' : \A pid \in InFifo(i)' : pid \in InFifo(j)' => i = j
    <3> SUFFICES ASSUME NEW i \in 1..Len(fifo)', NEW j \in 1..Len(fifo)',
                        NEW pid \in InFifo(i)', pid \in InFifo(j)'
                 PROVE  i = j
      OBVIOUS
    <3>1. i + 1 = j + 1
      BY <1>8 DEF RequestInv, AddsOnce
    <3>2. \A k, h \in Int : k + 1 = h + 1 => k = h
      OBVIOUS
    <3> QED
      BY <3>1, <3>2
  <2>3. \A x \in Pid : \A pid \in InHand(x)' :
          NewProcess(pid)' /\ \A i \in 1..Len(fifo)' : pid \notin InFifo(i)'
    <3> SUFFICES ASSUME NEW x \in Pid, NEW pid \in InHand(x)'
                 PROVE  NewProcess(pid) /\ \A i \in 1..Len(fifo') : pid \notin InFifo(i + 1)
      BY <1>8, <1>9
    <3>1. x = p /\ pid \in InFifo(1)
      BY <1>6, <1>7
    <3> QED
      BY <1>8, <1>10, <3>1 DEF RequestInv, AddsOnce
  <2> QED
    BY <2>1, <2>2, <2>3 DEF AddsOnce
<1>12. NodesForked'
  BY <1>5 DEF RequestInv, NodesForked
<1>13. BlankText'
  BY <1>5 DEF RequestInv, BlankText, BlankAt
<1> QED
  BY <1>11, <1>12, <1>13 DEF RequestInv

-----------------------------------------------------------------------------
(***************************************************************************)
(* The programs.                                                           *)
(***************************************************************************)
\* pnew and child_clone() ask for the process they have just forked.
LEMMA ForkNode ==
  ASSUME CalmInv, RequestInv, NEW p \in Pid, lib[p].at = "ret", pc[p] \in Receiving,
         NEW point, NEW to, NEW ppid \in Nat, NEW name \in Str, NEW m, NEW kidPoint, NEW kidMem,
         Fork(p, point, message_send(p, to, MSG_ADD, proc_node_tostr(nextPid, ppid, name)), m,
              kidPoint, [lib[p] EXCEPT !.msg = NULL], kidMem),
         kidPoint # "handle", UNCHANGED fifo, tree' = tree
  PROVE  RequestInv'
<1> DEFINE content == proc_node_tostr(nextPid, ppid, name)
           text == MessageText(p, MSG_ADD, content)
           l == message_send(p, to, MSG_ADD, content)
           kidLib == [lib[p] EXCEPT !.msg = NULL]
<1>1. lib[p] \in LibType /\ p \in Nat /\ nextPid \in Nat /\ MSG_ADD \in MsgType
  BY Shape, NumberFacts DEF CalmInv, SoundLib, MsgType
<1>2. \A pid \in Added(MessageOf(text)) : pid = nextPid
  <2>1. \A msg : msg = MessageOf(text) /\ msg # NULL =>
          proc_node_fromstr(msg.content) = NULL \/ proc_node_fromstr(msg.content).pid = nextPid
    BY <1>1, NodeCarried
  <2> HIDE DEF text
  <2> QED
    BY <2>1 DEF Added
<1>3. l.at = "write" /\ l.text = text
  <2> HIDE DEF content, text
  <2>1. [lib[p] EXCEPT !.at = "write", !.pid = to, !.msg = NULL, !.text = text].at = "write"
        /\ [lib[p] EXCEPT !.at = "write", !.pid = to, !.msg = NULL, !.text = text].text = text
    BY <1>1 DEF LibType
  <2> QED
    BY <2>1 DEF message_send, text
<1>4. kidLib.at = "ret" /\ Busy(p) /\ pc[p] \notin Gone
  BY <1>1, Runnable DEF LibType, Receiving, Gone
<1>5. Fork(p, point, l, m, kidPoint, kidLib, kidMem)
  OBVIOUS
<1> HIDE DEF content, text, l, kidLib
<1> QED
  BY <1>2, <1>3, <1>4, <1>5, ForkAsks

\* What a program that is between two calls may go on with.
LEMMA CallsPlain ==
  ASSUME TypeInv, NEW p \in Pid, lib[p].at = "ret"
  PROVE  /\ \A from, point : PlainCall(message_wait(p, from), point)
         /\ \A point : PlainCall(message_read(p), point)
         /\ \A point : point # "handle" => /\ PlainCall(lib[p], point)
                                           /\ PlainCall([lib[p] EXCEPT !.msg = NULL], point)
                                           /\ PlainCall(BlankLib, point)
         /\ \A to, point : PlainCall(resume_process(p, to), point)
         /\ \A to, point : \A type \in {MSG_REMOVE, MSG_INFO, MSG_ERROR, MSG_SUCCESS, MSG_LIST, MSG_SPAWN} :
              \A content \in {<<Pad>>, pmanager, mem[p].name, NextName(p)} :
                PlainCall(message_send(p, to, type, content), point)
  BY WaitPlain, TypesPlain, SendPlain

LEMMA ChildPlain ==
  ASSUME CalmInv, RequestInv, NEW p \in Pid, ChildStep(p), tree' = tree
  PROVE  Plain \/ RequestInv'
<1> USE DEF CalmInv
<1>1. lib[p].at = "ret"
  BY DEF ChildStep, RegisterHandlers, Sleep, CheckSigtermFlag, CheckUnreadFlag, GotMessage,
     AwaitRemoval, GotRemoval, ExitChild, ResetSigtermFlag, AwaitDuplicateCheck, child_clone,
     send_proc_to_pmanager, CloneAdded, Ready
<1>2. /\ \A from, point : PlainCall(message_wait(p, from), point)
      /\ \A point : PlainCall(message_read(p), point)
      /\ \A point : point # "handle" => /\ PlainCall(lib[p], point)
                                        /\ PlainCall([lib[p] EXCEPT !.msg = NULL], point)
      /\ \A to, point : PlainCall(resume_process(p, to), point)
      /\ \A to, point : /\ PlainCall(message_send(p, to, MSG_REMOVE, <<Pad>>), point)
                        /\ PlainCall(message_send(p, to, MSG_INFO, NextName(p)), point)
  BY <1>1, CallsPlain
<1>3. CASE RegisterHandlers(p) \/ Sleep(p)
  <2>1. /\ fifo' = fifo /\ nextPid' = nextPid /\ lib' = lib /\ pc'[p] # "handle"
        /\ \A x \in Pid \ {p} : pc'[x] = pc[x]
    BY <1>3, Shape DEF RegisterHandlers, Sleep
  <2> QED
    BY <2>1, SameIsPlain DEF Plain
<1>4. CASE CheckSigtermFlag(p)
  BY <1>2, <1>4, GotoPlain DEF CheckSigtermFlag
<1>5. CASE CheckUnreadFlag(p)
  BY <1>2, <1>5, GotoPlain DEF CheckUnreadFlag
<1>6. CASE GotMessage(p)
  <2>1. pc[p] \notin Gone /\ UNCHANGED fifo
    BY <1>6 DEF GotMessage, Ready, Gone
  <2>2. CASE Crash(p)
    BY <2>1, <2>2, ExitPlain DEF Crash, Exit
  <2>3. CASE ~Crash(p)
    BY <1>2, <1>6, <2>1, <2>3, GotoPlain DEF GotMessage
  <2> QED
    BY <2>2, <2>3
<1>7. CASE AwaitRemoval(p)
  BY <1>2, <1>7, GotoPlain DEF AwaitRemoval
<1>8. CASE GotRemoval(p)
  <2>1. pc[p] \notin Gone /\ UNCHANGED fifo
    BY <1>8 DEF GotRemoval, Ready, Gone
  <2>2. CASE Crash(p)
    BY <2>1, <2>2, ExitPlain DEF Crash, Exit
  <2>3. CASE ~Crash(p)
    BY <1>2, <1>8, <2>1, <2>3, GotoPlain DEF GotRemoval
  <2> QED
    BY <2>2, <2>3
<1>9. CASE ExitChild(p)
  BY <1>9, ExitPlain DEF ExitChild, Exit, Ready, Gone
<1>10. CASE ResetSigtermFlag(p)
  BY <1>2, <1>10, GotoPlain DEF ResetSigtermFlag
<1>11. CASE AwaitDuplicateCheck(p)
  BY <1>2, <1>11, GotoPlain DEF AwaitDuplicateCheck
<1>12. CASE child_clone(p)
  <2>1. pc[p] = "clone_reply" /\ UNCHANGED fifo
    BY <1>12 DEF child_clone, Ready
  <2>2. CASE Crash(p)
    BY <2>1, <2>2, ExitPlain DEF Crash, Exit, Gone
  <2>3. CASE ForkClone(p)
    <3>1. NextName(p) \in Str /\ p \in Nat /\ pc[p] \in Receiving
      BY <2>1, TypesPlain, NumberFacts DEF Receiving
    <3>2. \E m, kidMem :
            Fork(p, "clone_sent", message_send(p, PM, MSG_ADD, proc_node_tostr(nextPid, p, NextName(p))), m,
                 "loop", [lib[p] EXCEPT !.msg = NULL], kidMem)
      BY <2>3 DEF ForkClone
    <3> QED
      BY <1>1, <2>1, <3>1, <3>2, ForkNode
  <2>4. CASE \E l, m : Goto(p, "loop", l, m) /\ PlainCall(l, "loop") /\ UNCHANGED nextPid
    BY <2>1, <2>4, GotoPlain
  <2> QED
    BY <1>2, <1>12, <2>2, <2>3, <2>4 DEF child_clone
<1>13. ASSUME KillClone(p), UNCHANGED <<nextPid, fifo>> PROVE Plain
  BY <1>2, <1>13, GotoPlain DEF KillClone
<1>14. CASE send_proc_to_pmanager(p)
  BY <1>2, <1>13, <1>14, GotoPlain DEF send_proc_to_pmanager
<1>15. CASE CloneAdded(p)
  BY <1>2, <1>13, <1>15, GotoPlain DEF CloneAdded
<1> QED
  BY <1>3, <1>4, <1>5, <1>6, <1>7, <1>8, <1>9, <1>10, <1>11, <1>12, <1>14, <1>15 DEF ChildStep

LEMMA FinishPlain ==
  ASSUME TypeInv, NEW p \in Pid, Finish(p), UNCHANGED <<nextPid, fifo>>
  PROVE  Plain
<1>1. PlainCall(BlankLib, "exit")
  BY WaitPlain
<1> QED
  BY <1>1, GotoPlain DEF Finish

LEMMA StartPlain ==
  ASSUME CalmInv, NEW p \in Pid, Start(p)
  PROVE  Plain
<1> USE DEF CalmInv
<1>1. pc[p] = "start" /\ lib[p].at = "ret" /\ UNCHANGED fifo
  BY DEF Start, pnew_main, pinfo_main, prmall_main, plist_main, ptree_main, pclose_main, pspawn_main,
     phelp_main, Begin, Ready
<1>2. CASE Finish(p) /\ UNCHANGED nextPid
  BY <1>1, <1>2, FinishPlain
<1>3. \A point, to : \A name \in {mem[p].name, pmanager} : \A type \in {MSG_INFO, MSG_LIST} :
        Ask(p, point, to, type, name) => Plain
  BY <1>1, CallsPlain, GotoPlain DEF Ask
<1>4. CASE popen(p)
  <2>1. CASE \E m, kidMem : Fork(p, "popen", lib[p], m, "start", BlankLib, kidMem)
    <3>1. PlainCall(lib[p], "popen")
      <4>1. \A point : point # "handle" => PlainCall(lib[p], point)
        BY <1>1, CallsPlain
      <4> QED
        BY <4>1
    <3>2. BlankLib.at = "ret" /\ pc[p] \notin Gone
      BY <1>1 DEF BlankLib, Gone
    <3> QED
      BY <1>1, <2>1, <3>1, <3>2, ForkPlain
  <2> QED
    BY <1>2, <1>4, <2>1 DEF popen
<1> QED
  BY <1>2, <1>3, <1>4
  DEF Start, pnew_main, pinfo_main, prmall_main, plist_main, ptree_main, pclose_main, pspawn_main,
      phelp_main, Begin

LEMMA PnewPlain ==
  ASSUME CalmInv, RequestInv, NEW p \in Pid, tree' = tree,
         AwaitNameCheck(p) \/ pnew(p) \/ AwaitAdd(p) \/ GotAdd(p)
  PROVE  Plain \/ RequestInv'
<1> USE DEF CalmInv
<1>1. lib[p].at = "ret" /\ UNCHANGED fifo
  BY DEF AwaitNameCheck, pnew, AwaitAdd, GotAdd, Ready
<1>2. \A from, point : PlainCall(message_wait(p, from), point)
  BY <1>1, CallsPlain
<1>3. ASSUME Finish(p), UNCHANGED nextPid PROVE Plain
  BY <1>1, <1>3, FinishPlain
<1>4. CASE AwaitNameCheck(p)
  BY <1>2, <1>3, <1>4, GotoPlain DEF AwaitNameCheck
<1>5. CASE pnew(p)
  <2>1. pc[p] = "pnew_reply"
    BY <1>5 DEF pnew, Ready
  <2>2. CASE Crash(p)
    BY <1>1, <2>1, <2>2, ExitPlain DEF Crash, Exit, Gone
  <2>3. CASE ForkProcess(p)
    <3>1. mem[p].name \in Str /\ parent[p] \in Nat /\ pc[p] \in Receiving
      BY <2>1, TypesPlain, Shape, NumberFacts DEF Receiving, InitPid
    <3>2. \E m, kidMem :
            Fork(p, "pnew_sent",
                 message_send(p, parent[p], MSG_ADD, proc_node_tostr(nextPid, parent[p], mem[p].name)), m,
                 "boot", [lib[p] EXCEPT !.msg = NULL], kidMem)
      BY <2>3 DEF ForkProcess
    <3> QED
      BY <1>1, <2>1, <3>1, <3>2, ForkNode
  <2>4. CASE Finish(p) /\ UNCHANGED nextPid
    BY <1>3, <2>4
  <2> QED
    BY <1>5, <2>2, <2>3, <2>4 DEF pnew
<1>6. ASSUME abort_fork(p), UNCHANGED nextPid PROVE Plain
  BY <1>1, <1>2, <1>3, <1>6, GotoPlain DEF abort_fork
<1>7. CASE AwaitAdd(p)
  BY <1>2, <1>6, <1>7, GotoPlain DEF AwaitAdd
<1>8. CASE GotAdd(p)
  BY <1>3, <1>6, <1>8 DEF GotAdd
<1> QED
  BY <1>4, <1>5, <1>7, <1>8

LEMMA ListPlain ==
  ASSUME CalmInv, NEW p \in Pid,
         AwaitListItem(p) \/ GotListItem(p) \/ kill_proc_tree(p)
  PROVE  Plain
<1> USE DEF CalmInv
<1>1. lib[p].at = "ret" /\ UNCHANGED fifo
  BY DEF AwaitListItem, GotListItem, kill_proc_tree, Ready
<1>2. /\ \A from, point : PlainCall(message_wait(p, from), point)
      /\ \A point : point # "handle" => /\ PlainCall(lib[p], point)
                                        /\ PlainCall([lib[p] EXCEPT !.msg = NULL], point)
      /\ PlainCall(message_send(p, parent[p], MSG_SUCCESS, <<Pad>>), "list_asked")
  BY <1>1, CallsPlain
<1>3. ASSUME Finish(p), UNCHANGED nextPid PROVE Plain
  BY <1>1, <1>3, FinishPlain
<1>4. CASE AwaitListItem(p)
  BY <1>2, <1>3, <1>4, GotoPlain DEF AwaitListItem
<1>5. CASE GotListItem(p)
  <2>1. pc[p] = "list_item" /\ pc[p] \notin Gone
    BY <1>5 DEF GotListItem, Ready, Gone
  <2>2. CASE ListItem(p)
    <3>1. CASE Crash(p)
      BY <1>1, <2>1, <3>1, ExitPlain DEF Crash, Exit
    <3>2. CASE /\ \E m : Goto(p, "list_asked", message_send(p, parent[p], MSG_SUCCESS, <<Pad>>), m)
               /\ UNCHANGED nextPid
      BY <1>1, <1>2, <3>2, GotoPlain
    <3> QED
      BY <2>2, <3>1, <3>2 DEF ListItem
  <2>3. CASE \E point \in {"rm_next", "exit"} :
               Goto(p, point, [lib[p] EXCEPT !.msg = NULL], mem[p]) /\ UNCHANGED nextPid
    BY <1>1, <1>2, <2>3, GotoPlain
  <2> QED
    BY <1>3, <1>5, <2>2, <2>3 DEF GotListItem
<1>6. CASE kill_proc_tree(p)
  <2>1. ASSUME NEW rest, SparePmanager(p, rest), UNCHANGED nextPid
        PROVE  Plain
    BY <1>1, <1>2, <2>1, GotoPlain DEF SparePmanager
  <2>2. ASSUME NEW q, NEW rest, SignalVictim(p, q, rest), UNCHANGED nextPid
        PROVE  Plain
    BY <1>1, <1>2, <2>2, GotoPlain DEF SignalVictim
  <2> QED
    BY <1>3, <1>6, <2>1, <2>2 DEF kill_proc_tree
<1> QED
  BY <1>4, <1>5, <1>6

LEMMA InfoPlain ==
  ASSUME CalmInv, NEW p \in Pid,
         ExitCommand(p) \/ AwaitInfo(p) \/ PrintInfo(p) \/ pclose(p) \/ pspawn(p) \/ AwaitSpawn(p)
  PROVE  Plain
<1> USE DEF CalmInv
<1>1. lib[p].at = "ret" /\ UNCHANGED fifo
  BY DEF ExitCommand, AwaitInfo, PrintInfo, pclose, pspawn, AwaitSpawn, Ready
<1>2. /\ \A from, point : PlainCall(message_wait(p, from), point)
      /\ PlainCall([lib[p] EXCEPT !.msg = NULL], "info_reply")
      /\ \A to, point : PlainCall(message_send(p, to, MSG_SPAWN, <<Pad>>), point)
  BY <1>1, CallsPlain
<1>3. ASSUME Finish(p), UNCHANGED nextPid PROVE Plain
  BY <1>1, <1>3, FinishPlain
<1>4. CASE ExitCommand(p) \/ PrintInfo(p)
  BY <1>1, <1>4, ExitPlain DEF ExitCommand, PrintInfo, Exit, Ready, Gone
<1>5. CASE AwaitInfo(p)
  BY <1>2, <1>5, GotoPlain DEF AwaitInfo
<1>6. CASE pclose(p)
  BY <1>2, <1>3, <1>6, GotoPlain DEF pclose
<1>7. CASE pspawn(p)
  BY <1>2, <1>3, <1>7, GotoPlain DEF pspawn
<1>8. CASE AwaitSpawn(p)
  BY <1>2, <1>3, <1>8, GotoPlain DEF AwaitSpawn
<1> QED
  BY <1>4, <1>5, <1>6, <1>7, <1>8

LEMMA CommandPlain ==
  ASSUME CalmInv, RequestInv, NEW p \in Pid, CommandStep(p), tree' = tree
  PROVE  Plain \/ RequestInv'
BY StartPlain, PnewPlain, ListPlain, InfoPlain DEF CommandStep

-----------------------------------------------------------------------------
(***************************************************************************)
(* pmanager and its copies.                                                *)
(***************************************************************************)
\* A command is forked; what it copies of the tree is not pmanager's.
LEMMA ExecPlain ==
  ASSUME CalmInv, NEW p \in Pid, lib[p].at = "ret", pc[p] \notin Gone,
         NEW m, NEW prog, NEW name, NEW to, exec_command(p, m, prog, name, to), UNCHANGED fifo
  PROVE  Plain /\ tree' = tree
<1>1. \E n, kidMem : Fork(p, "poll", lib[p], n, "exec", lib[p], kidMem)
  BY DEF exec_command
<1>2. PlainCall(lib[p], "poll")
  BY DEF PlainCall
<1>3. Plain
  BY <1>1, <1>2, ForkPlain
<1>4. nextPid # PM
  BY <1>1, ForkFacts DEF CalmInv
<1>5. trees' = [trees EXCEPT ![nextPid] = trees[p]]
  BY DEF exec_command
<1>6. PM \in Pid /\ trees \in [Pid -> CleanTree]
  BY PidFacts DEF CalmInv, TypeInv, ManagerInv
<1> QED
  BY <1>3, <1>4, <1>5, <1>6 DEF tree

LEMMA UserPlain ==
  ASSUME CalmInv, ReadLine \/ EndOfInput
  PROVE  Plain /\ tree' = tree
<1> USE DEF CalmInv
<1>1. /\ PM \in Pid /\ pc[PM] = "readline" /\ lib[PM].at = "ret" /\ pc[PM] \notin Gone /\ UNCHANGED fifo
  BY PidFacts DEF ReadLine, EndOfInput, Ready, Gone
<1>2. CASE Goto(PM, "cleanup", lib[PM], mem[PM]) /\ UNCHANGED <<nextPid, trees>>
  <2>1. PlainCall(lib[PM], "cleanup")
    BY <1>1 DEF PlainCall
  <2> QED
    BY <1>1, <1>2, <2>1, GotoPlain DEF tree
<1>3. CASE UNCHANGED <<pc, lib, nextPid, trees>>
  BY <1>1, <1>3, SameIsPlain DEF Plain, tree
<1>4. CASE \E prog, name, to : exec_command(PM, mem[PM], prog, name, to)
  BY <1>1, <1>4, ExecPlain
<1> QED
  BY <1>2, <1>3, <1>4 DEF ReadLine, EndOfInput, managerVars

\* Whatever pmanager answers, it has dealt with the request.
LEMMA AnswerPlain ==
  ASSUME CalmInv, NEW p \in Pid, lib[p].at = "ret", NEW to, NEW type \in {MSG_ERROR, MSG_SUCCESS},
         Answer(p, to, type, <<Pad>>)
  PROVE  Plain /\ InHand(p)' = {} /\ nextPid' = nextPid
<1>1. PlainCall(message_send(p, to, type, <<Pad>>), "towait")
  BY CallsPlain DEF CalmInv
<1>2. /\ Goto(p, "towait", message_send(p, to, type, <<Pad>>), mem[p])
      /\ UNCHANGED <<nextPid, fifo>>
  BY DEF Answer
<1>3. lib'[p] = message_send(p, to, type, <<Pad>>) /\ pc'[p] = "towait"
  BY <1>2, Shape DEF Goto, CalmInv
<1>4. InHand(p)' = {}
  BY <1>1, <1>3, CallIsPlain
<1> QED
  BY <1>1, <1>2, <1>4, GotoPlain DEF CalmInv

\* So it has when it sends a node.
LEMMA NodePlain ==
  ASSUME CalmInv, NEW p \in Pid, lib[p].at = "ret", NEW to, NEW n \in TreeNode,
         NEW point, NEW m,
         Goto(p, point, message_send(p, to, MSG_INFO, proc_node_tostr(n.pid, n.ppid, n.name)), m),
         UNCHANGED <<nextPid, fifo>>
  PROVE  Plain
<1>1. n.pid \in Nat /\ n.ppid \in Nat /\ n.name \in Str
  BY DEF TreeNode
<1>2. proc_node_tostr(n.pid, n.ppid, n.name) \in Str
  BY <1>1, AtomFacts, TextTypes
<1>3. MSG_INFO \in MsgType \ {MSG_ADD}
  BY TypesPlain DEF CalmInv
<1>4. PlainCall(message_send(p, to, MSG_INFO, proc_node_tostr(n.pid, n.ppid, n.name)), point)
  BY <1>2, <1>3, SendPlain DEF CalmInv
<1> QED
  BY <1>4, GotoPlain DEF CalmInv

LEMMA AckPlain ==
  ASSUME CalmInv, NEW p \in Pid, GotAck(p)
  PROVE  Plain /\ tree' = tree
<1>1. lib[p].at = "ret" /\ mem[p].procs \in Seq(TreeNode)
  BY Shape DEF GotAck, Ready, CalmInv, SoundMem, MemType
<1>2. CASE mem[p].procs # <<>>
  <2>1. Head(mem[p].procs) \in TreeNode
    BY <1>1, <1>2
  <2>2. SendNode(p, mem[p].peer, mem[p].procs)
    BY <1>2 DEF GotAck
  <2> QED
    BY <1>1, <2>1, <2>2, NodePlain DEF SendNode, managerVars, tree
<1>3. CASE mem[p].procs = <<>>
  <2>1. PlainCall(message_send(p, mem[p].peer, MSG_SUCCESS, <<Pad>>), "towait")
    BY <1>1, CallsPlain DEF CalmInv
  <2> QED
    BY <1>3, <2>1, GotoPlain DEF GotAck, CalmInv, managerVars, tree
<1> QED
  BY <1>2, <1>3

\* The manager's steps other than message_handler().
LEMMA ManagerPlain ==
  ASSUME CalmInv, NEW p \in Pid, ~CopyCleansUp(p), ManagerStep(p), ~message_handler(p)
  PROVE  Plain /\ tree' = tree
<1> USE DEF CalmInv
<1>1. PM \in Pid /\ trees \in [Pid -> CleanTree]
  BY PidFacts DEF TypeInv, ManagerInv
<1>2. \A q : DropTree(q) => tree' = tree
  BY <1>1 DEF DropTree, tree
<1>3. CASE execvp(p)
  <2>1. lib[p].at = "ret" /\ pc[p] = "exec" /\ p # PM
    BY <1>3, Manager DEF execvp, Ready, Managing, ManagerPoints
  <2>2. CASE /\ \E m : Goto(p, "start", BlankLib, m)
             /\ DropTree(p)
    <3>1. PlainCall(BlankLib, "start")
      BY DEF PlainCall, BlankLib
    <3>2. UNCHANGED <<nextPid, fifo>>
      BY <1>3 DEF execvp
    <3> QED
      BY <1>2, <2>2, <3>1, <3>2, GotoPlain
  <2>3. CASE \E m : Goto(p, "cleanup", lib[p], m)
    BY <1>3, <2>1, <2>3 DEF CopyCleansUp, Goto, Ready, TypeInv, KernelInv, Processes
  <2> QED
    BY <1>3, <2>2, <2>3 DEF execvp
<1>4. CASE Poll(p)
  <2>1. UNCHANGED <<nextPid, fifo>> /\ tree' = tree /\ lib[p].at = "ret"
    BY <1>4 DEF Poll, Ready, managerVars, tree
  <2>2. PlainCall(message_read(p), "handle")
    BY <2>1, CallsPlain
  <2>3. PlainCall(lib[p], "towait")
    BY <2>1 DEF PlainCall
  <2> QED
    BY <1>4, <2>1, <2>2, <2>3, GotoPlain DEF Poll
<1>5. ASSUME EndManager(p), lib[p].at = "ret", pc[p] \notin Gone, UNCHANGED fifo
      PROVE  Plain /\ tree' = tree
  BY <1>2, <1>5, ExitPlain DEF EndManager, Exit
<1>6. CASE WaitCommand(p)
  <2>1. lib[p].at = "ret" /\ pc[p] \in {"towait", "waitpid"} /\ pc[p] \notin Gone /\ UNCHANGED fifo
    BY <1>6 DEF WaitCommand, Ready, Gone
  <2>2. CASE /\ UNCHANGED <<lib, nextPid, trees>>
             /\ \E kid : \/ pc' = [pc EXCEPT ![p] = "waitpid"]
                         \/ pc' = [pc EXCEPT ![kid] = "dead", ![p] = "readline"]
    <3>1. \A x \in Pid : pc'[x] = pc[x] \/ pc'[x] # "handle"
      BY <2>2, Shape
    <3> QED
      BY <2>1, <2>2, <3>1, SameIsPlain DEF Plain, tree
  <2> QED
    BY <1>5, <1>6, <2>1, <2>2 DEF WaitCommand
<1>7. CASE cleanup(p)
  <2>1. lib[p].at = "ret" /\ pc[p] \notin Gone /\ UNCHANGED fifo
    BY <1>7 DEF cleanup, Ready, Gone
  <2> QED
    BY <1>5, <1>7, <2>1, ExecPlain DEF cleanup
<1>8. CASE AwaitAck(p)
  <2>1. UNCHANGED <<nextPid, fifo>> /\ tree' = tree /\ lib[p].at = "ret"
    BY <1>8 DEF AwaitAck, Ready, managerVars, tree
  <2>2. PlainCall(message_wait(p, mem[p].peer), "list_ack")
    BY <2>1, CallsPlain
  <2> QED
    BY <1>8, <2>1, <2>2, GotoPlain DEF AwaitAck
<1>9. CASE GotAck(p)
  BY <1>9, AckPlain
<1> QED
  BY <1>3, <1>4, <1>6, <1>7, <1>8, <1>9 DEF ManagerStep

-----------------------------------------------------------------------------
(***************************************************************************)
(* The signals.                                                            *)
(***************************************************************************)
\* A handler runs: the call of message.c it interrupts goes on.
LEMMA WokenPlain ==
  ASSUME TypeInv, NEW p \in Pid, NEW l, lib' = [lib EXCEPT ![p] = l],
         l.at = WokenAt(lib[p].at), l.text = lib[p].text, l.msg = lib[p].msg,
         pc'[p] \in AfterSignal(p), \A x \in Pid \ {p} : pc'[x] = pc[x] \/ pc'[x] = "dead",
         UNCHANGED <<nextPid, fifo>>
  PROVE  Plain
<1>1. lib'[p] = l /\ \A x \in Pid \ {p} : lib'[x] = lib[x]
  BY Shape
<1>2. pc'[p] = "handle" => pc[p] = "handle"
  BY DEF AfterSignal
<1>3. PlainAt(p)
  BY <1>1, <1>2 DEF PlainAt, InHand, BlankAt, Ready, WokenAt
<1>4. \A x \in Pid \ {p} : PlainAt(x)
  BY <1>1, SameIsPlain
<1> QED
  BY <1>3, <1>4 DEF Plain

LEMMA SignalPlain ==
  ASSUME CalmInv, NEW p \in Pid,
         ((set_unread_flag(p) \/ ChildSignal(p)) /\ UNCHANGED trees) \/ terminate(p)
  PROVE  Plain /\ tree' = tree
<1> USE DEF CalmInv
<1>1. /\ pc \in [Pid -> Points] /\ lib \in [Pid -> SoundLib] /\ lib[p] \in LibType
      /\ PM \in Pid /\ trees \in [Pid -> CleanTree]
  BY Shape, PidFacts DEF SoundLib, TypeInv, ManagerInv
<1>2. CASE set_unread_flag(p) /\ UNCHANGED trees
  <2> DEFINE l == [lib[p] EXCEPT !.unread_flag = TRUE, !.message_sender = sig[p].usr1,
                                 !.at = WokenAt(@)]
  <2>1. l.at = WokenAt(lib[p].at) /\ l.text = lib[p].text /\ l.msg = lib[p].msg
    BY <1>1 DEF LibType
  <2>2. lib' = [lib EXCEPT ![p] = l]
    BY <1>1, <1>2 DEF set_unread_flag
  <2>3. /\ pc'[p] \in AfterSignal(p) /\ \A x \in Pid \ {p} : pc'[x] = pc[x]
        /\ UNCHANGED <<nextPid, fifo, trees>>
    BY <1>1, <1>2 DEF set_unread_flag
  <2> HIDE DEF l
  <2> QED
    BY <2>1, <2>2, <2>3, WokenPlain DEF tree
<1>3. CASE ChildSignal(p) /\ UNCHANGED trees
  <2> DEFINE l == [lib[p] EXCEPT !.at = WokenAt(@)]
  <2>1. l.at = WokenAt(lib[p].at) /\ l.text = lib[p].text /\ l.msg = lib[p].msg
    BY <1>1 DEF LibType
  <2>2. UNCHANGED <<nextPid, fifo>>
    BY <1>3 DEF ChildSignal, sigterm_handler, remove_zombie, KilledAtBoot
  <2>3. UNCHANGED trees
    BY <1>3
  <2>4. CASE sigterm_handler(p)
    <3>1. lib' = [lib EXCEPT ![p] = l] /\ pc'[p] \in AfterSignal(p) /\ \A x \in Pid \ {p} : pc'[x] = pc[x]
      BY <1>1, <2>4 DEF sigterm_handler
    <3> HIDE DEF l
    <3> QED
      BY <2>1, <2>2, <2>3, <3>1, WokenPlain DEF tree
  <2>5. CASE remove_zombie(p)
    <3>1. lib' = [lib EXCEPT ![p] = l]
      BY <1>1, <2>5 DEF remove_zombie
    <3>2. pc'[p] \in AfterSignal(p) /\ \A x \in Pid \ {p} : pc'[x] = pc[x] \/ pc'[x] = "dead"
      BY <1>1, <2>5 DEF remove_zombie
    <3> HIDE DEF l
    <3> QED
      BY <2>1, <2>2, <2>3, <3>1, <3>2, WokenPlain DEF tree
  <2>6. CASE KilledAtBoot(p)
    <3>1. /\ lib'[p] = BlankLib /\ pc'[p] = "killed"
          /\ \A x \in Pid \ {p} : lib'[x] = lib[x] /\ pc'[x] = pc[x]
      BY <1>1, <2>6 DEF KilledAtBoot
    <3>2. PlainCall(lib'[p], pc'[p])
      BY <3>1 DEF PlainCall, BlankLib
    <3>3. PlainAt(p) /\ \A x \in Pid \ {p} : PlainAt(x)
      BY <3>1, <3>2, CallIsPlain, SameIsPlain
    <3> QED
      BY <2>2, <2>3, <3>3 DEF Plain, tree
  <2> QED
    BY <1>3, <2>4, <2>5, <2>6 DEF ChildSignal
<1>4. CASE terminate(p)
  <2>1. pc[p] \notin Gone /\ UNCHANGED fifo
    BY <1>4 DEF terminate, ManagerPoints, Gone
  <2>2. CASE Exit(p) /\ DropTree(p)
    BY <1>1, <2>1, <2>2, ExitPlain DEF Exit, DropTree, tree
  <2>3. CASE /\ \E m : Goto(p, "cleanup", [lib[p] EXCEPT !.at = "ret", !.pid = NoPid,
                                                         !.text = <<>>, !.msg = NULL], m)
             /\ UNCHANGED <<nextPid, trees>>
    <3> DEFINE l == [lib[p] EXCEPT !.at = "ret", !.pid = NoPid, !.text = <<>>, !.msg = NULL]
    <3>1. PlainCall(l, "cleanup")
      BY <1>1 DEF PlainCall, LibType
    <3>2. \E m : Goto(p, "cleanup", l, m)
      BY <2>3
    <3> HIDE DEF l
    <3> QED
      BY <2>1, <2>3, <3>1, <3>2, GotoPlain DEF tree
  <2> QED
    BY <1>4, <2>2, <2>3 DEF terminate
<1> QED
  BY <1>2, <1>3, <1>4

-----------------------------------------------------------------------------
(***************************************************************************)
(* message_handler().                                                      *)
(***************************************************************************)
\* The node is somewhere in tree t.
Has(t, pid, ppid, name) ==
  \E k \in 1..Len(t) : t[k].pid = pid /\ t[k].ppid = ppid /\ t[k].name = name

\* What is added is in the new tree, and nobody else who was not there before.
LEMMA AddedPids ==
  ASSUME NEW t \in Seq(TreeNode), NEW pid \in Nat, NEW ppid \in Nat, NEW name \in Str,
         CanAdd(t, ppid), NEW new, new = proc_node_add(t, pid, ppid, name)
  PROVE  /\ Pids(new) \subseteq Pids(t) \union {pid}
         /\ Has(new, pid, ppid, name)
<1> DEFINE i == proc_node_find_by_pid(t, ppid)
           e == SubtreeEnd(t, i) + 1
           x == Node(pid, ppid, name, t[i].depth + 1)
<1>1. i \in 1..Len(t)
  BY FindByPid DEF CanAdd
<1>2. \A k \in 1..Len(t) : t[k].depth \in Nat
  <2>1. \A k \in 1..Len(t) : t[k] \in TreeNode
    OBVIOUS
  <2> QED
    BY <2>1 DEF TreeNode
<1>3. SubtreeEnd(t, i) \in i..Len(t)
  BY <1>1, <1>2, SubtreeEnds
<1>4. x \in TreeNode /\ x.pid = pid /\ x.ppid = ppid /\ x.name = name
  <2>1. t[i].depth + 1 \in Nat
    BY <1>1, <1>2
  <2> HIDE DEF i
  <2> QED
    BY <2>1, NodeTyped DEF Node
<1>5. new = InsertAt(t, e, x)
  BY DEF proc_node_add
<1>6. e \in 1..(Len(t) + 1)
  <2> HIDE DEF i
  <2> QED
    BY <1>1, <1>3
<1> HIDE DEF i, e, x
<1>7. /\ Len(new) = Len(t) + 1 /\ Len(t) \in Nat
      /\ \A k \in 1..(Len(t) + 1) :
           new[k] = IF k < e THEN t[k] ELSE IF k = e THEN x ELSE t[k-1]
  BY <1>4, <1>5, <1>6, Inserted
<1>8. ASSUME NEW k \in 1..(Len(t) + 1) PROVE new[k] = x \/ \E j \in 1..Len(t) : new[k] = t[j]
  <2>1. CASE k < e
    <3>1. k \in 1..Len(t)
      BY <1>6, <1>7, <2>1
    <3> QED
      BY <1>7, <2>1, <3>1
  <2>2. CASE k = e
    BY <1>7, <2>2
  <2>3. CASE k > e
    <3>1. k - 1 \in 1..Len(t) /\ ~(k < e) /\ k # e
      BY <1>6, <1>7, <2>3
    <3> QED
      BY <1>7, <3>1
  <2> QED
    BY <1>6, <1>7, <2>1, <2>2, <2>3
<1>9. Pids(new) \subseteq Pids(t) \union {pid}
  BY <1>4, <1>7, <1>8 DEF Pids
<1>10. new[e] = x /\ e \in 1..Len(new)
  BY <1>6, <1>7
<1> QED
  BY <1>4, <1>9, <1>10 DEF Has

LEMMA RemovedPids ==
  ASSUME NEW t \in Seq(TreeNode), NEW pid, CanRemove(t, pid)
  PROVE  Pids(proc_node_remove(t, pid)) \subseteq Pids(t) /\ pid \in Pids(t)
<1> DEFINE i == proc_node_find_by_pid(t, pid)
<1>1. i \in 1..Len(t) /\ t[i].pid = pid
  BY FindByPid DEF CanRemove
<1>2. proc_node_remove(t, pid) = RemoveAt(t, i)
  BY DEF proc_node_remove
<1> HIDE DEF i
<1>0. Len(t) \in Nat
  OBVIOUS
<1>3. /\ Len(RemoveAt(t, i)) = Len(t) - 1
      /\ \A k \in 1..(Len(t) - 1) : RemoveAt(t, i)[k] = IF k < i THEN t[k] ELSE t[k+1]
  BY <1>1, Removed
<1>4. \A k \in 1..(Len(t) - 1) : \E j \in 1..Len(t) : RemoveAt(t, i)[k] = t[j]
  <2> SUFFICES ASSUME NEW k \in 1..(Len(t) - 1)
               PROVE  \E j \in 1..Len(t) : RemoveAt(t, i)[k] = t[j]
    OBVIOUS
  <2>1. k \in 1..Len(t) /\ k + 1 \in 1..Len(t)
    BY <1>0
  <2> QED
    BY <1>3, <2>1
<1> QED
  BY <1>0, <1>1, <1>2, <1>3, <1>4 DEF Pids

\* The parent of a node that can be added is in the tree.
LEMMA AddedBelow ==
  ASSUME NEW t \in Seq(TreeNode), NEW ppid, CanAdd(t, ppid)
  PROVE  ppid \in Pids(t)
<1> DEFINE i == proc_node_find_by_pid(t, ppid)
<1>1. i \in 1..Len(t) /\ t[i].pid = ppid
  BY FindByPid DEF CanAdd
<1> HIDE DEF i
<1> QED
  BY <1>1 DEF Pids

\* The registry's operators are those of pmanager's tree.
LEMMA SameFind ==
  ASSUME NEW t, NEW pid
  PROVE  Registry!proc_node_find_by_pid(t, pid) = proc_node_find_by_pid(t, pid)
  BY DEF proc_node_find_by_pid, Registry!proc_node_find_by_pid, SelectInSeq, Registry!SelectInSeq,
     Min, Registry!Min

LEMMA SameAdd ==
  ASSUME NEW t, NEW pid, NEW ppid, NEW name
  PROVE  Registry!proc_node_add(t, pid, ppid, name) = proc_node_add(t, pid, ppid, name)
  BY SameFind
  DEF proc_node_add, Registry!proc_node_add, InsertAt, Registry!InsertAt, SubtreeEnd,
      Registry!SubtreeEnd, Node, Registry!Node

LEMMA SameRemove ==
  ASSUME NEW t, NEW pid
  PROVE  /\ Registry!proc_node_remove(t, pid) = proc_node_remove(t, pid)
         /\ CanRemove(t, pid) => Registry!CanRemove(t, pid)
<1>1. Registry!proc_node_remove(t, pid) = proc_node_remove(t, pid)
  BY SameFind DEF proc_node_remove, Registry!proc_node_remove, RemoveAt, Registry!RemoveAt
<1>2. CanRemove(t, pid) => Registry!CanRemove(t, pid)
  BY SameFind DEF CanRemove, Registry!CanRemove, IsLeaf, Registry!IsLeaf
<1> QED
  BY <1>1, <1>2

\* pmanager adds who is to be added: a process it did not have.
LEMMA ServeAdd ==
  ASSUME CalmInv, RequestInv, PM \in Pid, Ready(PM, "handle"), lib[PM].msg # NULL,
         lib[PM].msg.type = MSG_ADD, msg_add_handler(PM, lib[PM].msg)
  PROVE  RequestInv' /\ (tree' = tree \/ RegistryStep)
<1> USE DEF CalmInv
<1>1. Plain /\ InHand(PM)' = {} /\ nextPid' = nextPid
  <2>1. \E to : \E type \in {MSG_ERROR, MSG_SUCCESS} : Answer(PM, to, type, <<Pad>>)
    BY DEF msg_add_handler
  <2> QED
    BY <2>1, AnswerPlain DEF Ready
<1>2. PICK n : n = NodeToAdd(PM, lib[PM].msg.content)
  OBVIOUS
<1>3. CASE n = NULL
  <2>1. trees' = trees
    BY <1>2, <1>3 DEF msg_add_handler
  <2>2. tree' = tree /\ Pids(tree)' \subseteq Pids(tree)
    BY <2>1 DEF tree
  <2> QED
    BY <1>1, <2>2, PlainKeeps
<1>4. CASE n # NULL
  <2>1. n = proc_node_fromstr(lib[PM].msg.content) /\ CanAdd(tree, n.ppid)
    BY <1>2, <1>4 DEF NodeToAdd, tree
  <2>2. /\ n.pid \in Nat /\ n.ppid \in Nat /\ n.name \in Str
        /\ n.name \in CleanNames
    <3>1. lib[PM].msg.content \in Str /\ Without(Colon, lib[PM].msg.content)
      BY StateFacts DEF TypeInv
    <3>2. n \in ProcInfo /\ IsToken(n.name, lib[PM].msg.content, Semi)
      BY <1>4, <2>1, <3>1, NodeDecoded
    <3>3. CleanName(n.name)
      BY <3>1, <3>2 DEF IsToken, Without, CleanName
    <3> QED
      BY <3>2, <3>3 DEF ProcInfo, CleanNames
  <2>3. tree' = proc_node_add(tree, n.pid, n.ppid, n.name)
    <3>1. trees' = [trees EXCEPT ![PM] = proc_node_add(trees[PM], n.pid, n.ppid, n.name)]
      BY <1>2, <1>4 DEF msg_add_handler
    <3> QED
      BY <3>1 DEF tree, TypeInv, ManagerInv
  <2>4. n.pid \in InHand(PM)
    BY <1>4, <2>1 DEF InHand, Added, Ready
  <2>5. /\ n.pid \in Pid /\ n.pid < nextPid /\ n.pid \notin Pids(tree)
        /\ \A i \in 1..Len(fifo) : n.pid \notin InFifo(i)
    BY <2>4 DEF RequestInv, AddsOnce, NewProcess
  <2>6. /\ Pids(tree') \subseteq Pids(tree) \union {n.pid}
        /\ \E k \in 1..Len(tree') :
             tree'[k].pid = n.pid /\ tree'[k].ppid = n.ppid /\ tree'[k].name = n.name
    <3>1. PICK t \in Seq(TreeNode) : t = tree
      BY TreeTyped
    <3>2. CanAdd(t, n.ppid) /\ tree' = proc_node_add(t, n.pid, n.ppid, n.name)
      BY <2>1, <2>3, <3>1
    <3>3. PICK new : new = proc_node_add(t, n.pid, n.ppid, n.name)
      OBVIOUS
    <3>4. /\ Pids(new) \subseteq Pids(t) \union {n.pid}
          /\ Has(new, n.pid, n.ppid, n.name)
      <4>1. n.pid \in Nat /\ n.ppid \in Nat /\ n.name \in Str /\ CanAdd(t, n.ppid)
        BY <2>2, <3>2
      <4> QED
        BY <3>1, <3>3, <4>1, AddedPids
    <3> QED
      BY <3>1, <3>2, <3>3, <3>4 DEF Has
  <2>7. n.ppid \in Pid
    <3>1. n.ppid \in Pids(tree)
      BY <2>1, TreeTyped, AddedBelow
    <3> QED
      BY <3>1, NodesArePids DEF RequestInv
  <2>8. RegistryStep
    <3>1. Registry!AddNode(n.pid, n.ppid, n.name)
      <4>1. n.pid \notin Registry!Pids(tree)
        BY <2>5 DEF Pids, Registry!Pids
      <4>2. Registry!CanAdd(tree, n.ppid)
        BY <2>1, SameFind DEF CanAdd, Registry!CanAdd
      <4>3. tree' = Registry!proc_node_add(tree, n.pid, n.ppid, n.name)
        BY <2>3, SameAdd
      <4> QED
        BY <4>1, <4>2, <4>3 DEF Registry!AddNode
    <3> QED
      BY <2>2, <2>5, <2>6, <2>7, <3>1 DEF RegistryStep
  <2>9. \A i : InFifo(i)' = InFifo(i)
    BY <1>1 DEF Plain, InFifo
  <2>10. \A pid : NewProcess(pid) /\ pid # n.pid => NewProcess(pid)'
    BY <1>1, <2>6 DEF NewProcess
  <2>11. \A x \in Pid : InHand(x)' = {}
    <3>1. ASSUME NEW x \in Pid \ {PM} PROVE InHand(x)' = {}
      <4>1. InHand(x) = {}
        BY OneHand, Runnable DEF Ready, Receiving
      <4> QED
        BY <1>1, <4>1 DEF Plain, PlainAt
    <3> QED
      BY <1>1, <3>1
  <2>12. AddsOnce'
    <3>1. \A i \in 1..Len(fifo) : \A pid \in InFifo(i) : NewProcess(pid)'
      BY <2>5, <2>10 DEF RequestInv, AddsOnce
    <3> QED
      BY <1>1, <2>9, <2>11, <3>1 DEF RequestInv, AddsOnce, Plain
  <2>13. NodesForked'
    BY <1>1, <2>5, <2>6, NodesArePids DEF RequestInv
  <2>14. BlankText'
    BY <1>1 DEF RequestInv, BlankText, Plain, PlainAt
  <2> QED
    BY <2>8, <2>12, <2>13, <2>14 DEF RequestInv
<1> QED
  BY <1>3, <1>4

\* pmanager removes the sender, which is a leaf.
LEMMA ServeRemove ==
  ASSUME CalmInv, RequestInv, PM \in Pid, Ready(PM, "handle"), msg_remove_handler(PM, lib[PM].msg)
  PROVE  RequestInv' /\ (tree' = tree \/ RegistryStep)
<1> USE DEF CalmInv
<1>1. Plain
  <2>1. \E to : \E type \in {MSG_ERROR, MSG_SUCCESS} : Answer(PM, to, type, <<Pad>>)
    BY DEF msg_remove_handler
  <2> QED
    BY <2>1, AnswerPlain DEF Ready
<1>2. PICK q : q = lib[PM].msg.sender
  OBVIOUS
<1>3. CASE ~CanRemove(tree, q)
  <2>1. trees' = trees
    BY <1>2, <1>3 DEF msg_remove_handler, tree
  <2>2. tree' = tree /\ Pids(tree)' \subseteq Pids(tree)
    BY <2>1 DEF tree
  <2> QED
    BY <1>1, <2>2, PlainKeeps
<1>4. CASE CanRemove(tree, q)
  <2>1. tree' = proc_node_remove(tree, q)
    <3>1. trees' = [trees EXCEPT ![PM] = proc_node_remove(trees[PM], q)]
      BY <1>2, <1>4 DEF msg_remove_handler, tree
    <3> QED
      BY <3>1 DEF tree, TypeInv, ManagerInv
  <2>2. Pids(tree') \subseteq Pids(tree) /\ q \in Pids(tree)
    BY <1>4, <2>1, TreeTyped, RemovedPids
  <2>3. q \in Pid
    BY <2>2, NodesArePids DEF RequestInv
  <2>4. Registry!RemoveNode(q)
    BY <1>4, <2>1, SameRemove DEF Registry!RemoveNode
  <2> QED
    BY <1>1, <2>2, <2>3, <2>4, PlainKeeps DEF RegistryStep
<1> QED
  BY <1>3, <1>4

LEMMA HandleStep ==
  ASSUME CalmInv, RequestInv, NEW p \in Pid, message_handler(p)
  PROVE  RequestInv' /\ (tree' = tree \/ RegistryStep)
<1> USE DEF CalmInv
<1>1. p = PM /\ Ready(p, "handle") /\ lib[p].at = "ret"
  BY Manager DEF message_handler, Ready, Managing, ManagerPoints
<1>2. ASSUME Plain, tree' = tree PROVE RequestInv'
  <2>1. Pids(tree)' \subseteq Pids(tree)
    BY <1>2
  <2> QED
    BY <1>2, <2>1, PlainKeeps
<1>3. CASE lib[p].msg = NULL
  <2>1. PlainCall(lib[p], "towait")
    BY <1>1 DEF PlainCall
  <2>2. Plain /\ tree' = tree
    BY <1>3, <2>1, GotoPlain DEF message_handler, managerVars, tree
  <2> QED
    BY <1>2, <2>2
<1>4. CASE lib[p].msg # NULL
  <2>1. \A to : \A type \in {MSG_ERROR, MSG_SUCCESS} :
          Answer(p, to, type, <<Pad>>) /\ UNCHANGED trees => Plain /\ tree' = tree
    BY <1>1, AnswerPlain DEF tree
  <2>2. trees[p] \in Seq(TreeNode)
    BY TreeTyped
  <2>3. CASE msg_info_handler(p, lib[p].msg)
    <3>1. PICK i : i = proc_node_find_by_name(trees[p], lib[p].msg.content)
      OBVIOUS
    <3>2. CASE i = 0
      BY <1>2, <2>1, <2>3, <3>1, <3>2 DEF msg_info_handler
    <3>3. CASE i # 0
      <4>1. i \in 1..Len(trees[p])
        BY <2>2, <3>1, <3>3, FindByName
      <4>2. trees[p][i] \in TreeNode
        BY <2>2, <4>1
      <4>3. /\ \E to : Goto(p, "towait",
                            message_send(p, to, MSG_INFO,
                              proc_node_tostr(trees[p][i].pid, trees[p][i].ppid, trees[p][i].name)), mem[p])
            /\ UNCHANGED <<nextPid, fifo, trees>>
        BY <2>3, <3>1, <3>3 DEF msg_info_handler, Answer
      <4> QED
        BY <1>1, <1>2, <4>2, <4>3, NodePlain DEF tree
    <3> QED
      BY <3>2, <3>3
  <2>4. CASE msg_list_handler(p, lib[p].msg)
    <3>1. PICK i : i = proc_node_find_by_name(trees[p], lib[p].msg.content)
      OBVIOUS
    <3>2. CASE i = 0
      BY <1>2, <2>1, <2>4, <3>1, <3>2 DEF msg_list_handler
    <3>3. CASE i # 0
      <4>1. i \in 1..Len(trees[p])
        BY <2>2, <3>1, <3>3, FindByName
      <4>2. PICK procs : procs = proc_node_get_array(trees[p], i)
        OBVIOUS
      <4>3. procs \in Seq(TreeNode) /\ procs # <<>>
        BY <2>2, <4>1, <4>2, ArrayTyped
      <4>4. Head(procs) \in TreeNode
        BY <4>3
      <4>5. \E to : SendNode(p, to, procs)
        BY <2>4, <3>1, <3>3, <4>2 DEF msg_list_handler
      <4> QED
        BY <1>1, <1>2, <4>4, <4>5, NodePlain DEF SendNode, managerVars, tree
    <3> QED
      BY <3>2, <3>3
  <2>5. CASE lib[p].msg.type = MSG_ADD /\ msg_add_handler(p, lib[p].msg)
    BY <1>1, <1>4, <2>5, ServeAdd
  <2>6. CASE msg_remove_handler(p, lib[p].msg)
    BY <1>1, <2>6, ServeRemove
  <2> QED
    BY <1>2, <1>4, <2>1, <2>3, <2>4, <2>5, <2>6 DEF message_handler
<1> QED
  BY <1>3, <1>4

-----------------------------------------------------------------------------
(***************************************************************************)
(* The theorems.                                                           *)
(***************************************************************************)
LEMMA InitRequest == Init => RequestInv /\ Registry!Init
<1> SUFFICES ASSUME Init PROVE RequestInv /\ Registry!Init
  OBVIOUS
<1> USE PidFacts
<1>1. /\ fifo = <<>> /\ nextPid = PM + 1
      /\ \A p \in Pid : lib[p] = BlankLib /\ pc[p] # "handle"
  BY DEF Init
<1>2. tree = RootOnly(PM, InitPid, pmanager)
  BY DEF Init, tree
<1>3. Len(tree) = 1 /\ tree[1].pid = PM
  BY <1>2 DEF RootOnly, Node
<1>4. NodesForked
  BY <1>1, <1>3 DEF NodesForked, PM
<1>5. \A p \in Pid : InHand(p) = {} /\ BlankAt(p)
  BY <1>1 DEF InHand, BlankAt, Ready, BlankLib
<1>6. Len(fifo) = 0
  BY <1>1
<1>7. AddsOnce
  BY <1>5, <1>6 DEF AddsOnce
<1>8. Registry!Init
  BY <1>2 DEF Registry!Init, RootOnly, Registry!RootOnly, Node, Registry!Node
<1> QED
  BY <1>4, <1>5, <1>7, <1>8 DEF RequestInv, BlankText

LEMMA StepRequest ==
  CalmInv /\ RequestInv /\ [Next /\ ~Incident]_vars => RequestInv' /\ (tree' = tree \/ RegistryStep)
<1> SUFFICES ASSUME CalmInv, RequestInv, [Next /\ ~Incident]_vars
             PROVE  RequestInv' /\ (tree' = tree \/ RegistryStep)
  OBVIOUS
<1>1. ASSUME Plain, tree' = tree PROVE RequestInv'
  <2>1. Pids(tree)' \subseteq Pids(tree)
    BY <1>1
  <2> QED
    BY <1>1, <2>1, PlainKeeps DEF CalmInv
<1>2. CASE UNCHANGED vars
  <2>1. /\ fifo' = fifo /\ nextPid' = nextPid /\ trees' = trees /\ lib' = lib /\ pc' = pc
    BY <1>2 DEF vars, managerVars
  <2>2. \A x \in Pid : PlainAt(x)
    BY <2>1, SameIsPlain
  <2>3. Plain /\ tree' = tree
    BY <2>1, <2>2 DEF Plain, tree
  <2> QED
    BY <1>1, <2>3
<1>3. CASE Next /\ ~Incident
  <2>1. CASE UserStep
    BY <1>1, <2>1, UserPlain DEF UserStep
  <2>2. ASSUME NEW p \in Pid, ProcessStep(p)
        PROVE  RequestInv' /\ (tree' = tree \/ RegistryStep)
    <3>1. ~CopyCleansUp(p)
      BY <1>3 DEF Incident
    <3>2. CASE (MessageStep(p) \/ ChildStep(p) \/ CommandStep(p)) /\ UNCHANGED managerVars
      <4>1. tree' = tree
        BY <3>2 DEF managerVars, tree
      <4>2. CASE MessageStep(p)
        BY <1>1, <4>1, <4>2, WriteRequest, ReadRequest, CallPlain DEF MessageStep
      <4>3. CASE ChildStep(p) \/ CommandStep(p)
        BY <1>1, <4>1, <4>3, ChildPlain, CommandPlain
      <4> QED
        BY <3>2, <4>1, <4>2, <4>3
    <3>3. CASE ManagerStep(p)
      BY <1>1, <3>1, <3>3, ManagerPlain, HandleStep
    <3> QED
      BY <2>2, <3>2, <3>3 DEF ProcessStep
  <2>3. ASSUME NEW p \in Pid, SignalStep(p)
        PROVE  RequestInv' /\ (tree' = tree \/ RegistryStep)
    <3>1. ~DieOfInterrupt(p)
      BY DEF CalmInv, Order, Discipline, NoInterrupt, DieOfInterrupt, Dying, Interrupted
    <3>2. ((set_unread_flag(p) \/ ChildSignal(p)) /\ UNCHANGED trees) \/ terminate(p)
      BY <2>3, <3>1 DEF SignalStep, managerVars
    <3> QED
      BY <1>1, <3>2, SignalPlain
  <2> QED
    BY <1>3, <2>1, <2>2, <2>3 DEF Next, Incident
<1> QED
  BY <1>2, <1>3

LEMMA RequestInvHolds == CalmSpec => [](CalmInv /\ RequestInv)
  BY InitCalm, StepCalm, InitRequest, StepRequest, PTL DEF CalmSpec

\* There is one request to add a process, made after it was forked and served
\* before another one can be made, whoever forked it: pnew, or a managed process
\* that serves MSG_SPAWN.
THEOREM RequestsOnce == CalmSpec => []RequestInv
BY RequestInvHolds, PTL

\* pmanager only adds a process it did not have, below one it has, and only
\* removes a leaf, though msg_add_handler() asks nothing but whether the parent
\* is there.
THEOREM ImplementsRegistry == CalmSpec => RegistrySpec
<1>1. CalmInv /\ RequestInv /\ [Next /\ ~Incident]_vars => [tree' # tree => RegistryStep]_tree
  BY StepRequest
<1>2. Init => Registry!Init
  BY InitRequest
<1> QED
  BY <1>1, <1>2, RequestInvHolds, PTL DEF CalmSpec, RegistrySpec

-----------------------------------------------------------------------------
(***************************************************************************)
(* What module ProcTableProofs proves of the registry holds of pmanager's  *)
(* tree.                                                                   *)
(***************************************************************************)
Table ==
  INSTANCE ProcTableProofs WITH
    Name <- CleanNames, RootPid <- PM, RootPpid <- InitPid, RootName <- pmanager

LEMMA TableRoot == Table!RootAssumption
BY PidFacts DEF Table!RootAssumption, InitPid, Pid

LEMMA TableTexts ==
  Table!NullAssumption /\ Table!AtomAssumption /\ Table!NullRecordAssumption
<1>1. Table!NullAssumption
  BY NullAssumption DEF Table!NullAssumption, Table!Str, Str, Table!Atom, Atom, Table!MsgType, MsgType
<1>2. Table!AtomAssumption
  BY AtomAssumption DEF Table!AtomAssumption, AtomAssumption, Table!MsgType, MsgType
<1>3. Table!NullRecordAssumption
  BY NullRecordAssumption
  DEF Table!NullRecordAssumption, Table!Message, Message, Table!ProcInfo, ProcInfo, Table!Str, Str,
      Table!Atom, Atom, Table!MsgType, MsgType
<1> QED
  BY <1>1, <1>2, <1>3

LEMMA StepIsNext == RegistryStep => Table!Next
<1>1. ASSUME NEW pid, NEW ppid, NEW name, Registry!AddNode(pid, ppid, name)
      PROVE  Table!AddNode(pid, ppid, name)
  BY <1>1, ZenonT(60)
  DEF Registry!AddNode, Table!AddNode, Registry!Pids, Table!Pids, Registry!CanAdd, Table!CanAdd,
      Registry!proc_node_add, Table!proc_node_add, Registry!proc_node_find_by_pid,
      Table!proc_node_find_by_pid, Registry!SelectInSeq, Table!SelectInSeq, Registry!Min, Table!Min,
      Registry!InsertAt, Table!InsertAt, Registry!SubtreeEnd, Table!SubtreeEnd, Registry!Node,
      Table!Node
<1>2. ASSUME NEW pid, Registry!RemoveNode(pid)
      PROVE  Table!RemoveNode(pid)
  BY <1>2, ZenonT(60)
  DEF Registry!RemoveNode, Table!RemoveNode, Registry!CanRemove, Table!CanRemove, Registry!IsLeaf,
      Table!IsLeaf, Registry!proc_node_remove, Table!proc_node_remove,
      Registry!proc_node_find_by_pid, Table!proc_node_find_by_pid, Registry!SelectInSeq,
      Table!SelectInSeq, Registry!Min, Table!Min, Registry!RemoveAt, Table!RemoveAt
<1> QED
  BY <1>1, <1>2, ZenonT(60) DEF RegistryStep, Table!Next

LEMMA ImplementsTable == CalmSpec => Table!Spec
<1>1. Registry!Init => Table!Init
  BY DEF Registry!Init, Table!Init, Registry!RootOnly, Table!RootOnly, Registry!Node, Table!Node
<1>2. [tree' # tree => RegistryStep]_tree => [Table!Next]_tree
  BY StepIsNext
<1>3. RegistrySpec => Table!Spec
  BY <1>1, <1>2, PTL DEF RegistrySpec, Table!Spec
<1> QED
  BY <1>3, ImplementsRegistry, PTL

\* The list of nodes pmanager keeps stays a tree: each pid is there once, the root
\* stays first, and every other node lies below its parent.
THEOREM TreeStays == CalmSpec => []Table!IInv
BY TableRoot, TableTexts, ImplementsTable, Table!TreeInvariant, PTL

\* A process of pmanager's tree keeps its parent, its name and its depth as long as
\* it is there.
THEOREM NodesStayPut == CalmSpec => Table!NodesStay
BY TableRoot, TableTexts, ImplementsTable, Table!NodesKeepTheirPlace, PTL

-----------------------------------------------------------------------------
(***************************************************************************)
(* Families.                                                               *)
(***************************************************************************)

\* What module ProcTableProofs proves of pmanager's tree, as far as it is needed.
Rooted ==
  /\ Len(tree) \in Nat \ {0} /\ tree[1].pid = PM /\ tree[1].depth = 0
  /\ \A i, j \in 1..Len(tree) : tree[i].pid = tree[j].pid => i = j
  /\ \A i \in 2..Len(tree) : \E j \in 1..(i-1) :
       tree[j].pid = tree[i].ppid /\ tree[i].depth = tree[j].depth + 1
  /\ \A i \in 1..Len(tree) : tree[i].depth \in Nat

House == CalmInv /\ TextInv /\ RequestInv /\ Rooted /\ KinInv

\* All messages on their way are p's.
Alone(p) == fifo = <<>> /\ \A x \in Pid \ {p} : Carried(x) = {}

\* Who has the turn, other than by a message, is alone.
LEMMA HolderAlone ==
  ASSUME CalmInv, TextInv, NEW p \in Pid, NEW c \in Claims \ {"usr1", "unread"}, Only(p, c),
         lib[p].at \notin {"write", "kill"}
  PROVE  Alone(p)
<1>1. fifo = <<>>
  BY DEF TextInv, Announcing, Only, Busy, BusyAt
<1>2. ASSUME NEW x \in Pid \ {p} PROVE Carried(x) = {}
  <2>1. ~Busy(x) /\ ~lib[x].unread_flag
    BY DEF Only
  <2>2. lib[x].at # "write"
    BY <2>1 DEF Busy, BusyAt
  <2>3. lib[x].at # "reset"
    BY <2>1, Reader
  <2>4. ~(lib[x].at = "ret" /\ pc[x] \in Reading)
    BY <2>1 DEF Busy, BusyAt, Reading, Receiving
  <2> QED
    BY <2>2, <2>3, <2>4 DEF Carried
<1> QED
  BY <1>1, <1>2 DEF Alone

LEMMA BusyIsAlone ==
  ASSUME CalmInv, TextInv, NEW p \in Pid, Busy(p), lib[p].at = "ret"
  PROVE  Alone(p)
<1>1. Only(p, "busy") /\ "busy" \in Claims \ {"usr1", "unread"}
  BY BusyAlone DEF CalmInv, Claims
<1> QED
  BY <1>1, HolderAlone

-----------------------------------------------------------------------------
\* What a step may do to process x.
Kept(x) ==
  /\ pc[x] \in ChildPoints \ {"term_done"} => pc'[x] \in ChildPoints
  /\ pc[x] = "boot" => pc'[x] \in ChildPoints \union {"boot", "killed"}
  /\ pc[x] = "killed" => pc'[x] = "killed"
  /\ pc'[x] = "term_done" => x \notin Pids(tree)
  /\ pc'[x] \in Family => pc[x] \in Family
  /\ x \in Pids(tree) /\ parent[x] \in Pids(tree) \ {PM} => parent'[x] = parent[x]
  /\ Addressed(x)'

\* And to what pmanager lists.
Listed ==
  /\ \A k \in 1..Len(mem'[PM].procs) : CleanName(mem'[PM].procs[k].name)
  /\ pc'[PM] \in {"list_sent", "list_ack"} /\ mem'[PM].peer \in Pid => pc[mem'[PM].peer] \notin Family

LEMMA ParentsThere ==
  ASSUME Rooted, RequestInv, NEW i \in 2..Len(tree)
  PROVE  /\ i \in 1..Len(tree) /\ tree[i].pid \in Pids(tree) \ {PM} /\ tree[i].pid \in Pid
         /\ tree[i].ppid \in Pids(tree) /\ tree[i].ppid \in Pid
<1>1. i \in 1..Len(tree) /\ 1 \in 1..Len(tree) /\ i # 1
  BY DEF Rooted
<1>2. PICK j \in 1..(i-1) : tree[j].pid = tree[i].ppid
  BY DEF Rooted
<1>3. j \in 1..Len(tree)
  BY <1>1, <1>2 DEF Rooted
<1>4. tree[i].pid # PM
  BY <1>1 DEF Rooted
<1> QED
  BY <1>1, <1>2, <1>3, <1>4 DEF Pids, RequestInv, NodesForked

LEMMA KinStays ==
  ASSUME House, tree' = tree, \A x \in Pid : Kept(x), Listed, ParcelsSound'
  PROVE  KinInv'
<1> USE DEF House
<1>1. RemovedFirst'
  BY DEF RemovedFirst, Kept
<1>2. ListSound'
  BY DEF ListSound, Listed, Kept
<1>3. KinInTree'
  <2> SUFFICES ASSUME NEW i \in 2..Len(tree)
               PROVE  /\ pc'[tree[i].pid] \in ChildPoints \union {"boot", "killed"}
                      /\ tree[i].ppid # PM => /\ pc'[tree[i].pid] \in ChildPoints
                                              /\ parent'[tree[i].pid] = tree[i].ppid
    BY DEF KinInTree
  <2> DEFINE x == tree[i].pid
  <2>1. x \in Pid /\ x \in Pids(tree) /\ tree[i].ppid \in Pids(tree)
    BY ParentsThere
  <2>2. /\ pc[x] \in ChildPoints \union {"boot", "killed"}
        /\ tree[i].ppid # PM => pc[x] \in ChildPoints /\ parent[x] = tree[i].ppid
    BY DEF KinInv, KinInTree
  <2>3. pc[x] # "term_done"
    BY <2>1 DEF KinInv, RemovedFirst
  <2> HIDE DEF x
  <2>4. /\ pc[x] \in ChildPoints => pc'[x] \in ChildPoints
        /\ pc'[x] \in ChildPoints \union {"boot", "killed"}
    BY <2>1, <2>2, <2>3 DEF Kept
  <2>5. tree[i].ppid # PM => parent'[x] = parent[x]
    BY <2>1, <2>2 DEF Kept
  <2> QED
    BY <2>2, <2>4, <2>5 DEF x
<1> QED
  BY <1>1, <1>2, <1>3 DEF KinInv, Kept

-----------------------------------------------------------------------------
\* What a step may do to process x while messages are on their way that say
\* something about it.
Still(x) ==
  /\ pc[x] \in Resting =>
       \/ pc'[x] \in Resting /\ (pc'[x] = "boot" => pc[x] = "boot")
       \/ \A parcel \in Parcels' : parcel.to \notin {PM, InitPid}
  /\ pc[x] \in Cloning => pc'[x] \in Cloning
  /\ pc'[x] \in Leaving => pc[x] \in Leaving
  /\ parent[x] \in Pid \ {PM} /\ pc[parent[x]] \in Cloning => parent'[x] = parent[x]

LEMMA StillSound ==
  ASSUME ParcelsSound, Parcels' \subseteq Parcels, tree' = tree, \A x \in Pid : Still(x) /\ Kept(x)
  PROVE  ParcelsSound'
<1> SUFFICES ASSUME NEW parcel \in Parcels' PROVE Sound(parcel)'
  BY DEF ParcelsSound
<1> DEFINE to == parcel.to
           msg == parcel.msg
<1>1. Sound(parcel)
  BY DEF ParcelsSound
<1>2. ASSUME SoundMessage(to, msg), msg # NULL PROVE SoundMessage(to, msg)'
  <2>1. msg.sender \in Pid => /\ pc'[msg.sender] \in Leaving => msg.type = MSG_REMOVE
                              /\ msg.type = MSG_LIST => pc'[msg.sender] \notin Family
    BY <1>2 DEF SoundMessage, Still, Kept
  <2>2. to \in Pid /\ pc'[to] \in Leaving /\ msg.sender = PM /\ msg.type = MSG_SUCCESS =>
          to \notin Pids(tree)
    BY <1>2 DEF SoundMessage, Still
  <2>3. ASSUME NEW n \in NodesOf(msg) PROVE to \in {PM, InitPid} /\ SoundNode(n)'
    <3>1. to \in {PM, InitPid} /\ SoundNode(n)
      BY <1>2, <2>3 DEF SoundMessage
    <3>2. n.pid \in Pid /\ pc[n.pid] \in Resting
      BY <3>1 DEF SoundNode
    <3>3. pc'[n.pid] \in Resting /\ (pc'[n.pid] = "boot" => pc[n.pid] = "boot")
      BY <3>1, <3>2 DEF Still
    <3>4. ASSUME n.ppid \in Pid \ {PM}
          PROVE  pc'[n.pid] # "boot" /\ parent'[n.pid] = n.ppid /\ pc'[n.ppid] \in Cloning
      <4>1. pc[n.pid] # "boot" /\ parent[n.pid] = n.ppid /\ pc[n.ppid] \in Cloning
        BY <3>1, <3>4 DEF SoundNode
      <4> QED
        BY <3>2, <3>3, <3>4, <4>1 DEF Still
    <3> QED
      BY <3>1, <3>2, <3>3, <3>4 DEF SoundNode
  <2> QED
    BY <2>1, <2>2, <2>3 DEF SoundMessage, NodesOf
<1> QED
  BY <1>1, <1>2 DEF Sound

-----------------------------------------------------------------------------
(***************************************************************************)
(* What may become of a process that goes on, forks or exits.              *)
(***************************************************************************)
\* No message is in its hands.
Empty(point, l) == l.at \notin {"write", "reset"} /\ (l.at = "ret" => point \notin Reading)

\* It does not become or cease to be a managed process, and if it is told that it
\* was removed it was.
KinPoint(p, point) ==
  /\ pc[p] \notin Gone
  /\ pc[p] \in ChildPoints \union {"boot"} => point \in ChildPoints
  /\ point \in Family => pc[p] \in ChildPoints \union {"boot"}
  /\ point = "term_done" => p \notin Pids(tree)

StillPoint(p, point) ==
  /\ pc[p] \in Resting =>
       point \in Resting \ {"boot"} \/ \A parcel \in Parcels : parcel.to \notin {PM, InitPid}
  /\ pc[p] \in Cloning => point \in Cloning
  /\ point \in Leaving => pc[p] \in Leaving

ListedAt(point, m) ==
  /\ \A k \in 1..Len(m.procs) : CleanName(m.procs[k].name)
  /\ point \in {"list_sent", "list_ack"} /\ m.peer \in Pid => pc[m.peer] \notin Family

\* The one message p writes is right.
Fresh(l) ==
  l.at = "write" /\ \A parcel : parcel = Parcel(l.pid, MessageOf(l.text)) => Sound(parcel)'

LEMMA EmptyCarries ==
  ASSUME NEW x \in Pid, Empty(pc'[x], lib'[x])
  PROVE  Carried(x)' = {}
BY DEF Empty, Carried

\* What p alone carries is all that is to be right.
LEMMA AloneSound ==
  ASSUME NEW p \in Pid, Alone(p), fifo' = fifo,
         \A x \in Pid \ {p} : Carried(x)' \subseteq Carried(x),
         Empty(pc'[p], lib'[p]) \/ Fresh(lib'[p])
  PROVE  ParcelsSound'
<1> SUFFICES ASSUME NEW parcel \in Parcels' PROVE Sound(parcel)'
  BY DEF ParcelsSound
<1>1. OnItsWay' = {}
  BY DEF Alone, OnItsWay
<1>2. \A x \in Pid \ {p} : Carried(x)' = {}
  BY DEF Alone
<1>3. parcel \in Carried(p)'
  BY <1>1, <1>2 DEF Parcels
<1>4. Fresh(lib'[p])
  BY <1>3, EmptyCarries
<1>5. parcel = Parcel(lib'[p].pid, MessageOf(lib'[p].text))
  BY <1>3, <1>4 DEF Fresh, Carried
<1> QED
  BY <1>4, <1>5 DEF Fresh

LEMMA GotoKin ==
  ASSUME House, NEW p \in Pid, NEW point, NEW l, NEW m, Goto(p, point, l, m),
         UNCHANGED <<parent, fifo>>, tree' = tree,
         KinPoint(p, point), AddressedAt(point, l, m, parent[p]), p = PM => ListedAt(point, m),
         \/ Alone(p) /\ (Empty(point, l) \/ Fresh(l))
         \/ StillPoint(p, point) /\ Empty(point, l)
  PROVE  KinInv'
<1> USE DEF House
<1>1. /\ pc'[p] = point /\ lib'[p] = l /\ mem'[p] = m
      /\ \A x \in Pid \ {p} : pc'[x] = pc[x] /\ lib'[x] = lib[x] /\ mem'[x] = mem[x]
      /\ PM \in Pid
  BY Shape DEF CalmInv, Goto
<1>2. ASSUME NEW x \in Pid PROVE Kept(x)
  <2>1. CASE x = p
    BY <1>1, <2>1 DEF Kept, KinPoint, Addressed, Gone, Family, ChildPoints
  <2>2. CASE x # p
    <3>1. pc'[x] = "term_done" => x \notin Pids(tree)
      BY <1>1, <2>2 DEF KinInv, RemovedFirst
    <3>2. Addressed(x)'
      BY <1>1, <2>2 DEF KinInv, Addressed
    <3> QED
      BY <1>1, <2>2, <3>1, <3>2 DEF Kept
  <2> QED
    BY <2>1, <2>2
<1>3. Listed
  BY <1>1 DEF Listed, ListedAt, KinInv, ListSound
<1>4. \A x \in Pid \ {p} : Carried(x)' = Carried(x)
  BY <1>1 DEF Carried
<1>5. ParcelsSound'
  <2>1. CASE Alone(p)
    <3>1. Empty(pc'[p], lib'[p]) \/ Fresh(lib'[p])
      BY <1>1, <2>1 DEF Empty, Fresh
    <3> QED
      BY <1>4, <2>1, <3>1, AloneSound
  <2>2. CASE StillPoint(p, point) /\ Empty(point, l)
    <3>1. Carried(p)' = {}
      BY <1>1, <2>2, EmptyCarries
    <3>2. OnItsWay' = OnItsWay
      BY DEF OnItsWay
    <3>3. Parcels' \subseteq Parcels
      BY <1>4, <3>1, <3>2 DEF Parcels
    <3>4. \A x \in Pid : Still(x)
      BY <1>1, <2>2, <3>3 DEF Still, StillPoint
    <3> QED
      BY <1>2, <3>3, <3>4, StillSound DEF KinInv
  <2> QED
    BY <2>1, <2>2
<1> QED
  BY <1>2, <1>3, <1>5, KinStays

LEMMA ForkKin ==
  ASSUME House, NEW p \in Pid, NEW point, NEW l, NEW m, NEW kidPoint, NEW kidLib, NEW kidMem,
         Fork(p, point, l, m, kidPoint, kidLib, kidMem), fifo' = fifo, tree' = tree,
         KinPoint(p, point), AddressedAt(point, l, m, parent[p]), p = PM => ListedAt(point, m),
         kidPoint \in {"exec", "start", "boot", "loop"}, kidLib.at = "ret",
         AddressedAt(kidPoint, kidLib, kidMem, p),
         Alone(p), Empty(point, l) \/ Fresh(l)
  PROVE  KinInv'
<1> USE DEF House
<1>0. PICK kid : kid = nextPid
  OBVIOUS
<1>1. /\ kid \in Pid /\ kid # p /\ kid # PM /\ pc[kid] = "unborn" /\ PM \in Pid
      /\ pc'[p] = point /\ pc'[kid] = kidPoint
      /\ lib'[p] = l /\ lib'[kid] = kidLib
      /\ mem'[p] = m /\ mem'[kid] = kidMem
      /\ parent'[kid] = p
      /\ \A x \in Pid \ {kid} : parent'[x] = parent[x]
      /\ \A x \in Pid \ {p, kid} : pc'[x] = pc[x] /\ lib'[x] = lib[x] /\ mem'[x] = mem[x]
  BY <1>0, ForkFacts, Shape DEF CalmInv, KinPoint
<1>2. kid \notin Pids(tree)
  BY <1>0, NumberFacts, NodesArePids DEF CalmInv, RequestInv
<1>3. ASSUME NEW x \in Pid PROVE Kept(x)
  <2>1. CASE x = p
    BY <1>1, <2>1 DEF Kept, KinPoint, Addressed, Gone, Family, ChildPoints
  <2>2. CASE x = kid
    BY <1>1, <1>2, <2>2 DEF Kept, Addressed, Family, ChildPoints
  <2>3. CASE x \notin {p, kid}
    <3>1. pc'[x] = "term_done" => x \notin Pids(tree)
      BY <1>1, <2>3 DEF KinInv, RemovedFirst
    <3>2. Addressed(x)'
      BY <1>1, <2>3 DEF KinInv, Addressed
    <3> QED
      BY <1>1, <2>3, <3>1, <3>2 DEF Kept
  <2> QED
    BY <2>1, <2>2, <2>3
<1>4. Listed
  BY <1>1 DEF Listed, ListedAt, KinInv, ListSound
<1>5. \A x \in Pid \ {p} : Carried(x)' \subseteq Carried(x)
  <2>1. Carried(kid)' = {}
    BY <1>1, EmptyCarries DEF Empty, Reading
  <2>2. \A x \in Pid \ {p, kid} : Carried(x)' = Carried(x)
    BY <1>1 DEF Carried
  <2> QED
    BY <2>1, <2>2
<1>6. ParcelsSound'
  BY <1>1, <1>5, AloneSound DEF Empty, Fresh
<1> QED
  BY <1>3, <1>4, <1>6, KinStays

LEMMA ExitKin ==
  ASSUME House, NEW p \in Pid, pc[p] \notin Gone \union (ChildPoints \ {"term_done"}) \union {"boot"},
         NEW output, ExitPrinting(p, output), fifo' = fifo, tree' = tree
  PROVE  KinInv'
<1> USE DEF House
<1>1. Ended(p, output) /\ PM \in Pid
  BY ExitFacts, Shape DEF CalmInv
<1>2. p \in Pids(tree) => p = PM
  <2>1. ASSUME p \in Pids(tree) \ {PM} PROVE FALSE
    <3>1. PICK i \in 1..Len(tree) : tree[i].pid = p
      BY <2>1 DEF Pids
    <3>2. i \in 2..Len(tree)
      BY <2>1, <3>1 DEF Rooted
    <3>3. pc[p] \in ChildPoints \union {"boot", "killed"}
      BY <3>1, <3>2 DEF KinInv, KinInTree
    <3>4. pc[p] # "term_done"
      BY <2>1 DEF KinInv, RemovedFirst
    <3> QED
      BY <3>3, <3>4 DEF Gone
  <2> QED
    BY <2>1
<1>3. ASSUME NEW x \in Pid PROVE Kept(x) /\ Still(x)
  <2>1. parent'[x] = parent[x] \/ (parent[x] = p /\ parent'[x] = InitPid)
    BY <1>1 DEF Ended
  <2>2. CASE x = p
    <3>1. pc'[p] \in {"zombie", "dead"} /\ mem'[p] = BlankMem
      BY <1>1 DEF Ended
    <3>2. Addressed(p)'
      BY <3>1 DEF Addressed, AddressedAt
    <3> QED
      BY <1>2, <2>1, <2>2, <3>1, <3>2
      DEF Kept, Still, Family, ChildPoints, Resting, Cloning, Leaving, Gone
  <2>3. CASE x # p
    <3>1. /\ pc'[x] = pc[x] \/ (pc[x] = "zombie" /\ pc'[x] = "dead")
          /\ lib'[x] = lib[x]
          /\ mem'[x] = mem[x] \/ pc[x] = "popen"
      BY <1>1, <2>3 DEF Ended
    <3>2. Addressed(x)'
      <4>1. Addressed(x)
        BY DEF KinInv
      <4> QED
        BY <2>1, <3>1, <4>1 DEF Addressed, AddressedAt
    <3>3. pc'[x] = "term_done" => x \notin Pids(tree)
      BY <3>1 DEF KinInv, RemovedFirst
    <3>4. parent[x] \in Pids(tree) \ {PM} => parent'[x] = parent[x]
      BY <1>2, <2>1
    <3>5. pc[parent[x]] \in Cloning => parent'[x] = parent[x]
      BY <2>1 DEF Cloning, ChildPoints
    <3> QED
      BY <3>1, <3>2, <3>3, <3>4, <3>5
      DEF Kept, Still, Family, ChildPoints, Resting, Cloning, Leaving
  <2> QED
    BY <2>2, <2>3
<1>4. Listed
  <2>1. CASE p = PM
    <3>1. pc'[PM] \in {"zombie", "dead"} /\ mem'[PM].procs = <<>>
      BY <1>1, <2>1 DEF Ended, BlankMem
    <3> QED
      BY <3>1 DEF Listed
  <2>2. CASE p # PM
    <3>1. pc[PM] # "popen"
      BY DEF CalmInv, Order, Discipline, OneManager, Managing, ManagerPoints
    <3>2. mem'[PM] = mem[PM] /\ (pc'[PM] = pc[PM] \/ pc'[PM] = "dead")
      BY <1>1, <2>2, <3>1 DEF Ended
    <3> QED
      BY <3>2 DEF Listed, KinInv, ListSound
  <2> QED
    BY <2>1, <2>2
<1>5. Parcels' \subseteq Parcels
  <2>1. ASSUME NEW x \in Pid PROVE Carried(x)' \subseteq Carried(x)
    <3>1. CASE x = p
      <4>1. Empty(pc'[p], lib'[p])
        BY <1>1 DEF Ended, Empty, BlankLib, Reading
      <4> QED
        BY <3>1, <4>1, EmptyCarries
    <3>2. CASE x # p
      <4>1. lib'[x] = lib[x] /\ (pc'[x] = pc[x] \/ pc'[x] = "dead")
        BY <1>1, <3>2 DEF Ended
      <4> QED
        BY <4>1 DEF Carried, Reading
    <3> QED
      BY <3>1, <3>2
  <2>2. OnItsWay' = OnItsWay
    BY DEF OnItsWay
  <2> QED
    BY <2>1, <2>2 DEF Parcels
<1>6. ParcelsSound'
  BY <1>3, <1>5, StillSound DEF KinInv
<1> QED
  BY <1>3, <1>4, <1>6, KinStays

-----------------------------------------------------------------------------
(***************************************************************************)
(* What the programs write is right.                                       *)
(***************************************************************************)
\* A message that arrives is from its sender and of its type; it arrives when its
\* content has no delimiter.
LEMMA Arrives ==
  ASSUME NEW sender \in Nat, NEW type \in MsgType, NEW content \in Str,
         NEW msg, msg = MessageOf(MessageText(sender, type, content))
  PROVE  /\ msg # NULL => msg.sender = sender /\ msg.type = type
         /\ Len(content) > 0 /\ Without(Colon, content) => msg # NULL
<1>1. msg = IF Len(tokenize(content, Colon)) = 1
            THEN [sender |-> sender, type |-> type, content |-> tokenize(content, Colon)[1]]
            ELSE NULL
  BY Sent
<1>2. ASSUME Len(content) > 0, Without(Colon, content) PROVE msg # NULL
  <2>1. Len(tokenize(content, Colon)) = 1 /\ tokenize(content, Colon)[1] = content
    BY <1>2, OneField DEF Without
  <2>2. msg = [sender |-> sender, type |-> type, content |-> content]
    BY <1>1, <2>1
  <2>3. msg \in Message
    BY <2>2, AtomFacts DEF Message
  <2> QED
    BY <2>3, NullRecordAssumption
<1> QED
  BY <1>1, <1>2

LEMMA SendCall ==
  ASSUME TypeInv, NEW p \in Pid, NEW to, NEW type, NEW content
  PROVE  LET l == message_send(p, to, type, content)
         IN  l.at = "write" /\ l.pid = to /\ l.text = MessageText(p, type, content)
<1> DEFINE text == MessageText(p, type, content)
<1>1. lib[p] \in LibType
  BY Shape DEF SoundLib
<1> HIDE DEF text
<1>2. LET l == [lib[p] EXCEPT !.at = "write", !.pid = to, !.msg = NULL, !.text = text]
      IN  l.at = "write" /\ l.pid = to /\ l.text = text
  BY <1>1 DEF LibType
<1> QED
  BY <1>2 DEF message_send, text

LEMMA Types ==
  /\ MSG_ADD \notin {MSG_REMOVE, MSG_INFO, MSG_ERROR, MSG_SUCCESS, MSG_LIST, MSG_SPAWN}
  /\ MSG_LIST \notin {MSG_REMOVE, MSG_INFO, MSG_ERROR, MSG_SUCCESS, MSG_SPAWN}
  /\ MSG_SUCCESS \notin {MSG_INFO, MSG_ERROR}
  /\ {MSG_ADD, MSG_REMOVE, MSG_INFO, MSG_ERROR, MSG_SUCCESS, MSG_LIST, MSG_SPAWN} \subseteq MsgType
BY AtomAssumption DEF MsgType

LEMMA SendFresh ==
  ASSUME TypeInv, NEW p \in Pid, NEW to, NEW type \in MsgType \ {MSG_ADD}, NEW content \in Str,
         to \in Pid \ {PM} => Len(content) > 0 /\ Without(Colon, content),
         pc'[p] \in Leaving => type = MSG_REMOVE,
         type = MSG_LIST => pc'[p] \notin Family,
         p = PM /\ type = MSG_SUCCESS /\ to \in Pid /\ pc'[to] \in Leaving => to \notin Pids(tree')
  PROVE  Fresh(message_send(p, to, type, content))
<1>1. PICK text : text = MessageText(p, type, content)
  OBVIOUS
<1>2. PICK l : l = message_send(p, to, type, content)
  OBVIOUS
<1>3. l.at = "write" /\ l.pid = to /\ l.text = text
  BY <1>1, <1>2, SendCall
<1>4. PICK msg : msg = MessageOf(text)
  OBVIOUS
<1>5. /\ msg # NULL => msg.sender = p /\ msg.type = type
      /\ Len(content) > 0 /\ Without(Colon, content) => msg # NULL
  BY <1>1, <1>4, Arrives, PidFacts
<1>6. PICK q : q = to
  OBVIOUS
<1>7. ASSUME NEW parcel, parcel = Parcel(q, msg) PROVE Sound(parcel)'
  <2>1. parcel.to = q /\ parcel.msg = msg
    BY <1>7 DEF Parcel
  <2>2. msg # NULL => NodesOf(msg) = {}
    BY <1>5 DEF NodesOf
  <2>3. msg # NULL => SoundMessage(q, msg)'
    BY <1>5, <1>6, <2>2 DEF SoundMessage, NodesOf
  <2>4. q \in Pid \ {PM} => msg # NULL
    BY <1>5, <1>6
  <2> QED
    BY <2>1, <2>3, <2>4 DEF Sound
<1> QED
  BY <1>2, <1>3, <1>4, <1>6, <1>7 DEF Fresh

LEMMA AddFresh ==
  ASSUME TypeInv, NEW p \in Pid, NEW to \in {PM, InitPid}, NEW kid \in Pid, NEW ppid \in Nat,
         NEW name \in Str, pc'[p] \notin Leaving, pc'[kid] \in Resting,
         ppid \in Pid \ {PM} => pc'[kid] # "boot" /\ parent'[kid] = ppid /\ pc'[ppid] \in Cloning
  PROVE  Fresh(message_send(p, to, MSG_ADD, proc_node_tostr(kid, ppid, name)))
<1>1. PICK content : content = proc_node_tostr(kid, ppid, name)
  OBVIOUS
<1>2. PICK text : text = MessageText(p, MSG_ADD, content)
  OBVIOUS
<1>3. PICK l : l = message_send(p, to, MSG_ADD, content)
  OBVIOUS
<1>4. l.at = "write" /\ l.pid = to /\ l.text = text
  BY <1>2, <1>3, SendCall
<1>5. PICK msg : msg = MessageOf(text)
  OBVIOUS
<1>6. p \in Nat /\ kid \in Nat /\ content \in Str
  BY <1>1, PidFacts, AtomFacts, TextTypes
<1>7. msg # NULL => msg.sender = p /\ msg.type = MSG_ADD
  BY <1>2, <1>5, <1>6, Arrives, Types
<1>8. msg # NULL => \/ proc_node_fromstr(msg.content) = NULL
                    \/ /\ proc_node_fromstr(msg.content).pid = kid
                       /\ proc_node_fromstr(msg.content).ppid = ppid
  BY <1>1, <1>2, <1>5, <1>6, NodeCarried, Types
<1>9. ASSUME NEW parcel, parcel = Parcel(to, msg) PROVE Sound(parcel)'
  <2>1. parcel.to = to /\ parcel.msg = msg
    BY <1>9 DEF Parcel
  <2>2. ASSUME msg # NULL, NEW n \in NodesOf(msg) PROVE SoundNode(n)'
    <3>1. n.pid = kid /\ n.ppid = ppid
      BY <1>8, <2>2 DEF NodesOf
    <3> QED
      BY <3>1 DEF SoundNode
  <2>3. msg # NULL => SoundMessage(to, msg)'
    BY <1>7, <2>2, Types DEF SoundMessage, NodesOf
  <2>4. to \notin Pid \ {PM}
    BY DEF InitPid, Pid
  <2> QED
    BY <2>1, <2>3, <2>4 DEF Sound
<1> QED
  BY <1>1, <1>3, <1>4, <1>5, <1>9 DEF Fresh

\* The padding arrives.
LEMMA PadClean == <<Pad>> \in Str /\ Len(<<Pad>>) > 0 /\ Without(Colon, <<Pad>>)
BY AtomFacts, AtomAssumption DEF Without

LEMMA PadFresh ==
  ASSUME TypeInv, NEW p \in Pid, pc'[p] \notin Leaving, NEW to, NEW type \in {MSG_SUCCESS, MSG_SPAWN, MSG_ERROR},
         p # PM \/ type = MSG_ERROR \/ (to \in Pid /\ pc'[to] \in Leaving => to \notin Pids(tree'))
  PROVE  Fresh(message_send(p, to, type, <<Pad>>))
<1>1. type \in MsgType \ {MSG_ADD, MSG_LIST} /\ (type = MSG_ERROR => type # MSG_SUCCESS)
  BY Types
<1> QED
  BY <1>1, SendFresh, PadClean

-----------------------------------------------------------------------------
(***************************************************************************)
(* child.c.                                                                *)
(***************************************************************************)
LEMMA Calls ==
  ASSUME TypeInv, NEW p \in Pid
  PROVE  /\ \A from, point : LET l == message_wait(p, from)
                             IN  Empty(point, l) /\ l.at = "check" /\ l.pid = from
         /\ \A point : Empty(point, message_read(p))
         /\ \A point : point \notin Reading => Empty(point, BlankLib)
         /\ lib[p].at = "ret" =>
              \A point : point \notin Reading =>
                Empty(point, lib[p]) /\ Empty(point, [lib[p] EXCEPT !.msg = NULL])
<1>1. lib[p] \in LibType
  BY Shape DEF SoundLib
<1> QED
  BY <1>1 DEF message_wait, message_read, Empty, LibType, BlankLib

LEMMA ChildGoes ==
  ASSUME House, NEW p \in Pid, pc[p] \in ChildPoints \union {"boot"},
         NEW point \in ChildPoints \ {"term_done", "term_reply"}, NEW l, NEW m,
         Goto(p, point, l, m), UNCHANGED <<parent, fifo>>, tree' = tree,
         \/ Alone(p) /\ (Empty(point, l) \/ Fresh(l))
         \/ StillPoint(p, point) /\ Empty(point, l)
  PROVE  KinInv'
<1>1. KinPoint(p, point) /\ AddressedAt(point, l, m, parent[p])
  BY DEF KinPoint, AddressedAt, Gone, ChildPoints
<1>2. p # PM
  BY Manager DEF House, CalmInv, Managing, ManagerPoints, ChildPoints
<1> QED
  BY <1>1, <1>2, GotoKin

\* A managed process that has read a message has one.
LEMMA ChildReceives ==
  ASSUME House, NEW p \in Pid, lib[p].at = "ret", pc[p] \in {"got", "term_reply", "clone_reply"}
  PROVE  /\ p # PM /\ lib[p].msg # NULL /\ SoundMessage(p, lib[p].msg)
         /\ Alone(p) /\ Busy(p)
<1> USE DEF House
<1>1. p # PM
  BY Manager DEF CalmInv, Managing, ManagerPoints
<1>2. Parcel(p, lib[p].msg) \in Parcels
  BY DEF Parcels, Carried, Reading
<1>3. Sound(Parcel(p, lib[p].msg))
  BY <1>2 DEF KinInv, ParcelsSound
<1>4. Busy(p)
  BY Runnable DEF Receiving
<1> QED
  BY <1>1, <1>3, <1>4, BusyIsAlone DEF Sound, Parcel

LEMMA ResumeFresh ==
  ASSUME TypeInv, NEW p \in Pid \ {PM}, pc'[p] \notin Leaving, NEW to
  PROVE  Fresh(resume_process(p, to))
BY PadFresh DEF resume_process

\* p has been told of a text: it is the only one.
LEMMA ToldText ==
  ASSUME CalmInv, TextInv, NEW p \in Pid, lib[p].unread_flag, lib[p].at = "ret"
  PROVE  \A parcel \in Parcels : parcel.to = p
<1>1. Only(p, "unread")
  BY Holder DEF CalmInv, Turn, HasTurn, Claims
<1>2. ASSUME NEW x \in Pid PROVE Carried(x) = {}
  <2>1. lib[x].at # "write" /\ ~(lib[x].at = "ret" /\ pc[x] \in Reading)
    BY <1>1 DEF Only, Busy, BusyAt, Reading, Receiving
  <2>2. lib[x].at # "reset"
    BY <1>1, Reader DEF Only
  <2> QED
    BY <2>1, <2>2 DEF Carried
<1>3. Holds(p, lib[p].message_sender)
  BY DEF TextInv, TextAt
<1>4. \A parcel \in OnItsWay : parcel.to = p
  BY <1>3 DEF Holds, OnItsWay, Parcel
<1> QED
  BY <1>2, <1>4 DEF Parcels

LEMMA SleepKin ==
  ASSUME House, NEW p \in Pid, tree' = tree,
         RegisterHandlers(p) \/ Sleep(p) \/ CheckSigtermFlag(p) \/ CheckUnreadFlag(p)
  PROVE  KinInv'
<1> USE DEF House
<1>0. TypeInv
  BY DEF CalmInv
<1>1. CASE RegisterHandlers(p) \/ Sleep(p)
  <2>1. PICK point \in {"loop", "asleep"} :
          /\ pc' = [pc EXCEPT ![p] = point]
          /\ pc[p] \in {"boot", "loop"} /\ lib[p].at = "ret"
    BY <1>1 DEF RegisterHandlers, Sleep, Ready
  <2>2. Goto(p, point, lib[p], mem[p]) /\ UNCHANGED <<parent, fifo>>
    BY <1>0, <1>1, <2>1, GotoPoint DEF RegisterHandlers, Sleep
  <2>3. Empty(point, lib[p]) /\ StillPoint(p, point)
    BY <1>0, <2>1, Calls DEF StillPoint, Resting, Cloning, Leaving, Reading
  <2> QED
    BY <2>1, <2>2, <2>3, ChildGoes DEF ChildPoints
<1>2. CASE CheckSigtermFlag(p)
  <2>1. pc[p] = "flag" /\ lib[p].at = "ret" /\ UNCHANGED <<parent, fifo>>
    BY <1>2 DEF CheckSigtermFlag, Ready
  <2>2. CASE mem[p].sigterm_flag = 1
    <3>1. PICK l : l = message_send(p, PM, MSG_REMOVE, <<Pad>>)
      OBVIOUS
    <3>2. Goto(p, "term_sent", l, mem[p])
      BY <1>2, <2>2, <3>1 DEF CheckSigtermFlag
    <3>3. Alone(p)
      <4>1. Only(p, "sigterm") /\ "sigterm" \in Claims
        BY <2>1, <2>2, Holder DEF CalmInv, Turn, HasTurn, Claims, Terminating
      <4> QED
        BY <2>1, <4>1, HolderAlone
    <3>4. Fresh(l)
      <4>1. PM \in Pid /\ p # PM
        BY <2>1, PidFacts, Manager DEF CalmInv, Managing, ManagerPoints
      <4> QED
        BY <1>0, <3>1, <4>1, Types, PadClean, SendFresh
    <3> QED
      BY <2>1, <3>2, <3>3, <3>4, ChildGoes DEF ChildPoints
  <2>3. CASE mem[p].sigterm_flag # 1
    <3>1. Goto(p, "unread", lib[p], mem[p])
      BY <1>2, <2>3 DEF CheckSigtermFlag
    <3>2. Empty("unread", lib[p]) /\ StillPoint(p, "unread")
      BY <1>0, <2>1, Calls DEF StillPoint, Resting, Cloning, Leaving, Reading
    <3> QED
      BY <2>1, <3>1, <3>2, ChildGoes DEF ChildPoints
  <2> QED
    BY <2>2, <2>3
<1>3. CASE CheckUnreadFlag(p)
  <2>1. pc[p] = "unread" /\ lib[p].at = "ret" /\ UNCHANGED <<parent, fifo>>
    BY <1>3 DEF CheckUnreadFlag, Ready
  <2>2. CASE lib[p].unread_flag
    <3>1. Goto(p, "got", message_read(p), mem[p]) /\ Empty("got", message_read(p))
      BY <1>0, <1>3, <2>2, Calls DEF CheckUnreadFlag
    <3>2. p \notin {PM, InitPid}
      BY <2>1, Manager DEF CalmInv, Managing, ManagerPoints, InitPid, Pid
    <3>3. StillPoint(p, "got")
      BY <2>1, <2>2, <3>2, ToldText DEF StillPoint, Cloning, Leaving
    <3> QED
      BY <2>1, <3>1, <3>3, ChildGoes DEF ChildPoints
  <2>3. CASE ~lib[p].unread_flag
    <3>1. Goto(p, "loop", lib[p], mem[p])
      BY <1>3, <2>3 DEF CheckUnreadFlag
    <3>2. Empty("loop", lib[p]) /\ StillPoint(p, "loop")
      BY <1>0, <2>1, Calls DEF StillPoint, Resting, Cloning, Leaving, Reading
    <3> QED
      BY <2>1, <3>1, <3>2, ChildGoes DEF ChildPoints
  <2> QED
    BY <2>2, <2>3
<1> QED
  BY <1>1, <1>2, <1>3

LEMMA GotKin ==
  ASSUME House, NEW p \in Pid, tree' = tree, GotMessage(p)
  PROVE  KinInv'
<1> USE DEF House
<1>0. TypeInv
  BY DEF CalmInv
<1>1. pc[p] = "got" /\ lib[p].at = "ret" /\ UNCHANGED fifo
  BY DEF GotMessage, Ready
<1>2. p # PM /\ lib[p].msg # NULL /\ Alone(p)
  BY <1>1, ChildReceives
<1>3. CASE lib[p].msg.type = MSG_SPAWN
  <2>1. PICK l : l = message_send(p, PM, MSG_INFO, NextName(p))
    OBVIOUS
  <2>2. UNCHANGED parent /\ \E m : Goto(p, "clone_asked", l, m)
    BY <1>2, <1>3, <2>1 DEF GotMessage
  <2>3. Fresh(l)
    <3>1. pc'[p] \notin Leaving
      BY <1>0, <2>2, Shape DEF Goto, Leaving
    <3> QED
      BY <1>0, <1>2, <2>1, <3>1, PidFacts, Types, Contents, SendFresh
  <2> QED
    BY <1>1, <1>2, <2>2, <2>3, ChildGoes DEF ChildPoints
<1>4. CASE lib[p].msg.type # MSG_SPAWN
  <2>1. UNCHANGED parent /\ Goto(p, "loop", [lib[p] EXCEPT !.msg = NULL], mem[p])
    BY <1>2, <1>4 DEF GotMessage
  <2>2. Empty("loop", [lib[p] EXCEPT !.msg = NULL])
    BY <1>0, <1>1, Calls DEF Reading
  <2> QED
    BY <1>1, <1>2, <2>1, <2>2, ChildGoes DEF ChildPoints
<1> QED
  BY <1>3, <1>4

LEMMA TerminateKin ==
  ASSUME House, NEW p \in Pid, tree' = tree,
         AwaitRemoval(p) \/ GotRemoval(p) \/ ExitChild(p) \/ ResetSigtermFlag(p)
  PROVE  KinInv'
<1> USE DEF House
<1>0. TypeInv
  BY DEF CalmInv
<1>1. CASE AwaitRemoval(p)
  <2>1. pc[p] = "term_sent" /\ lib[p].at = "ret" /\ UNCHANGED <<parent, fifo>>
    BY <1>1 DEF AwaitRemoval, Ready
  <2>2. lib[p].status = 0 /\ p # PM
    BY <2>1, Manager
    DEF CalmInv, Order, Discipline, ManagerReached, Reaches, Managing, ManagerPoints
  <2>3. PICK l : l = message_wait(p, PM)
    OBVIOUS
  <2>4. Goto(p, "term_reply", l, mem[p])
    BY <1>1, <2>2, <2>3 DEF AwaitRemoval
  <2>5. Empty("term_reply", l) /\ l.at = "check" /\ l.pid = PM
    BY <1>0, <2>3, Calls
  <2>6. AddressedAt("term_reply", l, mem[p], parent[p])
    BY <2>5 DEF AddressedAt
  <2>7. KinPoint(p, "term_reply") /\ StillPoint(p, "term_reply")
    BY <2>1 DEF KinPoint, StillPoint, Gone, ChildPoints, Resting, Cloning, Leaving
  <2> QED
    BY <2>1, <2>2, <2>4, <2>5, <2>6, <2>7, GotoKin
<1>2. CASE GotRemoval(p)
  <2>1. pc[p] = "term_reply" /\ lib[p].at = "ret" /\ UNCHANGED fifo
    BY <1>2 DEF GotRemoval, Ready
  <2>2. /\ p # PM /\ lib[p].msg # NULL /\ Alone(p)
        /\ SoundMessage(p, lib[p].msg)
    BY <2>1, ChildReceives
  <2>3. lib[p].msg.sender = PM
    BY <2>1, <2>2 DEF KinInv, Addressed, AddressedAt
  <2>4. PICK point \in {"term_done", "term_failed"} :
          /\ point = "term_done" => lib[p].msg.type = MSG_SUCCESS
          /\ Goto(p, point, resume_process(p, mem[p].sigterm_sender), mem[p])
          /\ UNCHANGED parent
    BY <1>2, <2>2 DEF GotRemoval
  <2>5. point = "term_done" => p \notin Pids(tree)
    BY <2>1, <2>2, <2>3, <2>4 DEF SoundMessage, Leaving
  <2>6. pc'[p] = point
    BY <1>0, <2>4, Shape DEF Goto
  <2>7. Fresh(resume_process(p, mem[p].sigterm_sender))
    BY <1>0, <2>2, <2>4, <2>6, ResumeFresh DEF Leaving
  <2>8. /\ KinPoint(p, point)
        /\ AddressedAt(point, resume_process(p, mem[p].sigterm_sender), mem[p], parent[p])
    BY <2>1, <2>4, <2>5 DEF KinPoint, AddressedAt, Gone, ChildPoints
  <2> QED
    BY <2>1, <2>2, <2>4, <2>7, <2>8, GotoKin
<1>3. CASE ExitChild(p)
  BY <1>3, ExitKin DEF ExitChild, Ready, Exit, Gone
<1>4. CASE ResetSigtermFlag(p)
  <2>1. /\ pc[p] = "term_failed" /\ lib[p].at = "ret" /\ UNCHANGED <<parent, fifo>>
        /\ \E m : Goto(p, "unread", lib[p], m)
    BY <1>4 DEF ResetSigtermFlag, Ready
  <2>2. Empty("unread", lib[p]) /\ StillPoint(p, "unread")
    BY <1>0, <2>1, Calls DEF StillPoint, Resting, Cloning, Leaving, Reading
  <2> QED
    BY <2>1, <2>2, ChildGoes DEF ChildPoints
<1> QED
  BY <1>1, <1>2, <1>3, <1>4

\* A clone has returned to its loop, and the sender of MSG_SPAWN is resumed.
LEMMA ResumeKin ==
  ASSUME House, NEW p \in Pid \ {PM}, tree' = tree, pc[p] \in ChildPoints, Alone(p),
         NEW to, NEW m, Goto(p, "loop", resume_process(p, to), m), UNCHANGED <<parent, fifo>>
  PROVE  KinInv'
<1>1. TypeInv
  BY DEF House, CalmInv
<1>2. pc'[p] = "loop"
  BY <1>1, Shape DEF Goto
<1>3. Fresh(resume_process(p, to))
  BY <1>1, <1>2, ResumeFresh DEF Leaving
<1> QED
  BY <1>3, ChildGoes DEF ChildPoints

LEMMA ForkCloneKin ==
  ASSUME House, NEW p \in Pid, tree' = tree, pc[p] = "clone_reply", lib[p].at = "ret",
         ForkClone(p), fifo' = fifo
  PROVE  KinInv'
<1> USE DEF House
<1>0. TypeInv /\ p # PM /\ Alone(p)
  BY ChildReceives DEF CalmInv
<1>1. PICK name : name = NextName(p)
  OBVIOUS
<1>2. PICK kid : kid = nextPid
  OBVIOUS
<1>3. PICK l : l = message_send(p, PM, MSG_ADD, proc_node_tostr(kid, p, name))
  OBVIOUS
<1>4. PICK m, kidMem, kidLib :
        /\ kidLib = [lib[p] EXCEPT !.msg = NULL]
        /\ Fork(p, "clone_sent", l, m, "loop", kidLib, kidMem)
  BY <1>1, <1>2, <1>3 DEF ForkClone
<1>5. kidLib.at = "ret"
  BY <1>0, <1>4, Shape DEF SoundLib, LibType
<1>6. /\ kid \in Pid /\ kid # p
      /\ pc'[p] = "clone_sent" /\ pc'[kid] = "loop" /\ parent'[kid] = p
  BY <1>2, <1>4, ForkFacts DEF CalmInv, Gone
<1>7. Fresh(l)
  <2>1. PM \in {PM, InitPid} /\ p \in Nat /\ name \in Str
    BY <1>0, <1>1, PidFacts, Contents
  <2>2. pc'[p] \notin Leaving /\ pc'[kid] \in Resting /\ pc'[kid] # "boot" /\ pc'[p] \in Cloning
    BY <1>6 DEF Leaving, Resting, Cloning
  <2> QED
    BY <1>0, <1>3, <1>6, <2>1, <2>2, AddFresh
<1>8. /\ KinPoint(p, "clone_sent") /\ AddressedAt("clone_sent", l, m, parent[p])
      /\ AddressedAt("loop", kidLib, kidMem, p)
  BY DEF KinPoint, AddressedAt, Gone, ChildPoints
<1> QED
  BY <1>0, <1>4, <1>5, <1>7, <1>8, ForkKin

LEMMA CloneKin ==
  ASSUME House, NEW p \in Pid, tree' = tree, ~CloneRefused(p),
         AwaitDuplicateCheck(p) \/ child_clone(p) \/ send_proc_to_pmanager(p) \/ CloneAdded(p)
  PROVE  KinInv'
<1> USE DEF House
<1>0. TypeInv
  BY DEF CalmInv
<1>1. CASE AwaitDuplicateCheck(p)
  <2>1. pc[p] = "clone_asked" /\ lib[p].at = "ret" /\ UNCHANGED <<parent, fifo>> /\ p # PM
    BY <1>1, Manager DEF AwaitDuplicateCheck, Ready, CalmInv, Managing, ManagerPoints
  <2>2. CASE lib[p].status = 0
    <3>1. Goto(p, "clone_reply", message_wait(p, PM), mem[p])
      BY <1>1, <2>2 DEF AwaitDuplicateCheck
    <3>2. Empty("clone_reply", message_wait(p, PM)) /\ StillPoint(p, "clone_reply")
      BY <1>0, <2>1, Calls DEF StillPoint, Resting, Cloning, Leaving
    <3> QED
      BY <2>1, <3>1, <3>2, ChildGoes DEF ChildPoints
  <2>3. CASE lib[p].status # 0
    <3>1. Alone(p)
      BY <2>1, <2>3, BusyIsAlone DEF Busy, BusyAt, Sending
    <3>2. \E m : Goto(p, "loop", resume_process(p, mem[p].peer), m)
      BY <1>1, <2>3 DEF AwaitDuplicateCheck
    <3> QED
      BY <2>1, <3>1, <3>2, ResumeKin DEF ChildPoints
  <2> QED
    BY <2>2, <2>3
<1>2. CASE child_clone(p)
  <2>1. pc[p] = "clone_reply" /\ lib[p].at = "ret" /\ fifo' = fifo
    BY <1>2 DEF child_clone, Ready
  <2>2. p # PM /\ lib[p].msg # NULL /\ Alone(p)
    BY <2>1, ChildReceives
  <2>3. CASE ForkClone(p)
    BY <2>1, <2>3, ForkCloneKin
  <2>4. CASE UNCHANGED parent /\ \E m : Goto(p, "loop", resume_process(p, mem[p].peer), m)
    BY <2>1, <2>2, <2>4, ResumeKin DEF ChildPoints
  <2>5. CASE UNCHANGED parent /\ \E m : Goto(p, "loop", [lib[p] EXCEPT !.msg = NULL], m)
    <3>1. Empty("loop", [lib[p] EXCEPT !.msg = NULL])
      BY <1>0, <2>1, Calls DEF Reading
    <3> QED
      BY <2>1, <2>2, <2>5, <3>1, ChildGoes DEF ChildPoints
  <2> QED
    BY <1>2, <2>2, <2>3, <2>4, <2>5 DEF child_clone
<1>3. CASE send_proc_to_pmanager(p)
  <2>1. pc[p] = "clone_sent" /\ lib[p].at = "ret" /\ UNCHANGED <<parent, fifo>>
    BY <1>3 DEF send_proc_to_pmanager, Ready
  <2>2. lib[p].status = 0
    BY <2>1 DEF CalmInv, Order, Discipline, ManagerReached, Reaches
  <2>3. Goto(p, "clone_added", message_wait(p, PM), mem[p])
    BY <1>3, <2>2 DEF send_proc_to_pmanager
  <2>4. Empty("clone_added", message_wait(p, PM)) /\ StillPoint(p, "clone_added")
    BY <1>0, <2>1, Calls DEF StillPoint, Resting, Cloning, Leaving
  <2> QED
    BY <2>1, <2>3, <2>4, ChildGoes DEF ChildPoints
<1>4. CASE CloneAdded(p)
  <2>1. pc[p] = "clone_added" /\ lib[p].at = "ret" /\ UNCHANGED <<parent, fifo>> /\ Ready(p, "clone_added")
    BY <1>4 DEF CloneAdded, Ready
  <2>2. p # PM /\ Alone(p)
    BY <2>1, Runnable, BusyIsAlone, Manager DEF Receiving, CalmInv, Managing, ManagerPoints
  <2>3. \E m : Goto(p, "loop", resume_process(p, mem[p].peer), m)
    BY <1>4, <2>1 DEF CloneAdded, CloneRefused
  <2> QED
    BY <2>1, <2>2, <2>3, ResumeKin DEF ChildPoints
<1> QED
  BY <1>1, <1>2, <1>3, <1>4

LEMMA ChildKin ==
  ASSUME House, NEW p \in Pid, tree' = tree, ~CloneRefused(p), ChildStep(p)
  PROVE  KinInv'
BY SleepKin, GotKin, TerminateKin, CloneKin DEF ChildStep

-----------------------------------------------------------------------------
(***************************************************************************)
(* The commands.                                                           *)
(***************************************************************************)
LEMMA CommandGoes ==
  ASSUME House, NEW p \in Pid, pc[p] \in CommandPoints \ {"boot"},
         NEW point \in CommandPoints \ {"boot", "start"}, NEW l, NEW m,
         Goto(p, point, l, m), UNCHANGED <<parent, fifo>>, tree' = tree,
         point \in {"pnew_asked", "pnew_reply"} => parent[p] \in {PM, InitPid},
         Empty(point, l) \/ (Alone(p) /\ Fresh(l))
  PROVE  KinInv'
<1>1. KinPoint(p, point) /\ AddressedAt(point, l, m, parent[p]) /\ StillPoint(p, point)
  BY DEF KinPoint, AddressedAt, StillPoint, Gone, ChildPoints, CommandPoints, Family, Resting,
         Cloning, Leaving
<1>2. p # PM
  BY Manager DEF House, CalmInv, Managing, ManagerPoints, CommandPoints
<1> QED
  BY <1>1, <1>2, GotoKin

LEMMA FinishKin ==
  ASSUME House, NEW p \in Pid, pc[p] \in CommandPoints \ {"boot"}, Finish(p),
         UNCHANGED <<parent, fifo>>, tree' = tree
  PROVE  KinInv'
<1>1. Empty("exit", BlankLib)
  BY DEF Empty, BlankLib, Reading
<1> QED
  BY <1>1, CommandGoes DEF Finish, CommandPoints

LEMMA LeaveKin ==
  ASSUME House, NEW p \in Pid, pc[p] \in CommandPoints \ {"boot"}, NEW output,
         ExitPrinting(p, output), fifo' = fifo, tree' = tree
  PROVE  KinInv'
BY ExitKin DEF CommandPoints, Gone, ChildPoints

LEMMA AskKin ==
  ASSUME House, NEW p \in Pid, tree' = tree, pc[p] = "start", lib[p].at = "ret",
         NEW point \in {"pnew_asked", "info_asked", "list_asked"},
         point = "pnew_asked" => parent[p] \in {PM, InitPid},
         NEW to, NEW type \in {MSG_INFO, MSG_LIST}, NEW content \in Str,
         to \in {PM, InitPid} \/ CleanName(content),
         Ask(p, point, to, type, content), fifo' = fifo
  PROVE  KinInv'
<1> USE DEF House
<1>0. TypeInv
  BY DEF CalmInv
<1>1. PICK l : l = message_send(p, to, type, content)
  OBVIOUS
<1>2. UNCHANGED parent /\ \E m : Goto(p, point, l, m)
  BY <1>1 DEF Ask
<1>3. Alone(p) /\ p # PM
  BY Runnable, BusyIsAlone, Manager DEF CalmInv, Managing, ManagerPoints
<1>4. pc'[p] = point /\ point \notin Family
  BY <1>0, <1>2, Shape DEF Goto, Family, ChildPoints
<1>5. pc'[p] \notin Leaving
  BY <1>4 DEF Leaving
<1>6. to \in Pid \ {PM} => Len(content) > 0 /\ Without(Colon, content)
  BY DEF CleanName, Without, InitPid, Pid
<1>7. Fresh(l)
  BY <1>0, <1>1, <1>3, <1>4, <1>5, <1>6, Types, SendFresh
<1> QED
  BY <1>2, <1>3, <1>7, CommandGoes DEF CommandPoints

LEMMA PopenKin ==
  ASSUME House, NEW p \in Pid, tree' = tree, pc[p] = "start", lib[p].at = "ret",
         parent[p] \in {PM, InitPid}, popen(p), fifo' = fifo
  PROVE  KinInv'
<1> USE DEF House
<1>0. TypeInv
  BY DEF CalmInv
<1>1. CASE Finish(p) /\ UNCHANGED <<parent, nextPid>>
  BY <1>1, FinishKin DEF CommandPoints
<1>2. ASSUME NEW m, NEW kidMem, kidMem = NewCommand("pinfo", mem[p].name, parent[p]),
             Fork(p, "popen", lib[p], m, "start", BlankLib, kidMem)
      PROVE  KinInv'
  <2>1. kidMem.prog = "pinfo" /\ kidMem.peer = parent[p] /\ kidMem.peer # NoPid
    BY <1>2 DEF NewCommand, BlankMem, NoPid, PM, InitPid
  <2>2. AddressedAt("start", BlankLib, kidMem, p)
    BY <2>1 DEF AddressedAt
  <2>3. BlankLib.at = "ret" /\ Empty("popen", lib[p])
    BY <1>0, Calls DEF BlankLib, Reading
  <2>4. KinPoint(p, "popen") /\ AddressedAt("popen", lib[p], m, parent[p])
    BY DEF KinPoint, AddressedAt, Gone, ChildPoints, Family
  <2>5. Alone(p) /\ p # PM
    BY Runnable, BusyIsAlone, Manager DEF CalmInv, Managing, ManagerPoints
  <2> QED
    BY <1>2, <2>2, <2>3, <2>4, <2>5, ForkKin
<1> QED
  BY <1>1, <1>2 DEF popen

LEMMA StartKin ==
  ASSUME House, NEW p \in Pid, tree' = tree, Start(p)
  PROVE  KinInv'
<1> USE DEF House
<1>0. TypeInv
  BY DEF CalmInv
<1>1. pc[p] = "start" /\ lib[p].at = "ret" /\ fifo' = fifo
  BY DEF Start, Begin, Ready, pnew_main, pinfo_main, prmall_main, plist_main, ptree_main,
         pclose_main, pspawn_main, phelp_main
<1>2. IF mem[p].prog = "pinfo" /\ mem[p].peer # NoPid
      THEN mem[p].peer \in {PM, InitPid} \/ CleanName(mem[p].name)
      ELSE parent[p] \in {PM, InitPid}
  BY <1>1 DEF KinInv, Addressed, AddressedAt
<1>3. mem[p].name \in Str /\ pmanager \in Str
  BY <1>0, Contents
<1>4. CASE Finish(p) /\ UNCHANGED parent
  BY <1>1, <1>4, FinishKin DEF CommandPoints
<1>5. CASE /\ mem[p].prog \in {"prmall", "plist", "ptree"}
           /\ \E content \in {mem[p].name, pmanager} : Ask(p, "list_asked", parent[p], MSG_LIST, content)
  BY <1>1, <1>2, <1>3, <1>5, AskKin
<1>6. CASE mem[p].prog = "pnew" /\ Ask(p, "pnew_asked", parent[p], MSG_INFO, mem[p].name)
  BY <1>1, <1>2, <1>3, <1>6, AskKin
<1>7. CASE mem[p].prog = "pinfo" /\ Ask(p, "info_asked", pid_pmanager(p), MSG_INFO, mem[p].name)
  <2>1. pid_pmanager(p) \in {PM, InitPid} \/ CleanName(mem[p].name)
    BY <1>2, <1>7 DEF pid_pmanager
  <2> QED
    BY <1>1, <1>3, <1>7, <2>1, AskKin
<1>8. CASE mem[p].prog \in {"pclose", "pspawn"} /\ popen(p)
  BY <1>1, <1>2, <1>8, PopenKin
<1> QED
  BY <1>4, <1>5, <1>6, <1>7, <1>8
  DEF Start, Begin, pnew_main, pinfo_main, prmall_main, plist_main, ptree_main, pclose_main,
      pspawn_main, phelp_main

LEMMA ForkProcessKin ==
  ASSUME House, NEW p \in Pid, tree' = tree, pc[p] = "pnew_reply", lib[p].at = "ret",
         ForkProcess(p), fifo' = fifo
  PROVE  KinInv'
<1> USE DEF House
<1>0. TypeInv /\ p # PM /\ Alone(p) /\ parent[p] \in {PM, InitPid}
  BY Runnable, BusyIsAlone, Manager
  DEF Receiving, CalmInv, Managing, ManagerPoints, KinInv, Addressed, AddressedAt
<1>1. PICK kid : kid = nextPid
  OBVIOUS
<1>2. PICK l : l = message_send(p, parent[p], MSG_ADD, proc_node_tostr(kid, parent[p], mem[p].name))
  OBVIOUS
<1>3. PICK m, kidMem, kidLib :
        /\ kidLib = [lib[p] EXCEPT !.msg = NULL]
        /\ Fork(p, "pnew_sent", l, m, "boot", kidLib, kidMem)
  BY <1>1, <1>2 DEF ForkProcess
<1>4. kidLib.at = "ret"
  BY <1>0, <1>3, Shape DEF SoundLib, LibType
<1>5. kid \in Pid /\ pc'[p] = "pnew_sent" /\ pc'[kid] = "boot"
  BY <1>1, <1>3, ForkFacts DEF CalmInv, Gone
<1>6. Fresh(l)
  <2>1. parent[p] \in Nat /\ mem[p].name \in Str /\ parent[p] \notin Pid \ {PM}
    BY <1>0, Contents, PidFacts DEF InitPid, Pid, PM
  <2>2. pc'[p] \notin Leaving /\ pc'[kid] \in Resting
    BY <1>5 DEF Leaving, Resting
  <2> QED
    BY <1>0, <1>2, <1>5, <2>1, <2>2, AddFresh
<1>7. /\ KinPoint(p, "pnew_sent") /\ AddressedAt("pnew_sent", l, m, parent[p])
      /\ AddressedAt("boot", kidLib, kidMem, p)
  BY DEF KinPoint, AddressedAt, Gone, ChildPoints, Family
<1> QED
  BY <1>0, <1>3, <1>4, <1>6, <1>7, ForkKin

LEMMA PnewKin ==
  ASSUME House, NEW p \in Pid, tree' = tree,
         AwaitNameCheck(p) \/ pnew(p) \/ AwaitAdd(p) \/ GotAdd(p)
  PROVE  KinInv'
<1> USE DEF House
<1>0. /\ TypeInv
      /\ pc[p] \in CommandPoints \ {"boot"} /\ lib[p].at = "ret" /\ fifo' = fifo
  BY DEF CalmInv, AwaitNameCheck, pnew, AwaitAdd, GotAdd, Ready, CommandPoints
<1>1. \A point, from : Empty(point, message_wait(p, from))
  BY <1>0, Calls
<1>2. ASSUME abort_fork(p), UNCHANGED parent PROVE KinInv'
  <2>1. CASE Finish(p)
    BY <1>0, <1>2, <2>1, FinishKin
  <2>2. CASE \E from : Goto(p, "exit", message_wait(p, from), mem[p])
    BY <1>0, <1>1, <1>2, <2>2, CommandGoes DEF CommandPoints
  <2> QED
    BY <1>2, <2>1, <2>2 DEF abort_fork
<1>3. CASE AwaitNameCheck(p)
  <2>1. CASE Finish(p)
    BY <1>0, <1>3, <2>1, FinishKin DEF AwaitNameCheck
  <2>2. CASE Goto(p, "pnew_reply", message_wait(p, parent[p]), mem[p])
    <3>1. parent[p] \in {PM, InitPid} /\ UNCHANGED parent
      BY <1>3 DEF AwaitNameCheck, Ready, KinInv, Addressed, AddressedAt
    <3> QED
      BY <1>0, <1>1, <2>2, <3>1, CommandGoes DEF CommandPoints
  <2> QED
    BY <1>3, <2>1, <2>2 DEF AwaitNameCheck
<1>4. CASE pnew(p)
  <2>1. CASE Crash(p)
    BY <1>0, <2>1, LeaveKin DEF Crash, Exit
  <2>2. CASE Finish(p) /\ UNCHANGED parent
    BY <1>0, <2>2, FinishKin
  <2>3. CASE ForkProcess(p)
    BY <1>0, <1>4, <2>3, ForkProcessKin DEF pnew, Ready
  <2> QED
    BY <1>4, <2>1, <2>2, <2>3 DEF pnew
<1>5. CASE AwaitAdd(p)
  <2>1. CASE Goto(p, "pnew_added", message_wait(p, parent[p]), mem[p])
    BY <1>0, <1>1, <1>5, <2>1, CommandGoes DEF AwaitAdd, CommandPoints
  <2> QED
    BY <1>2, <1>5, <2>1 DEF AwaitAdd
<1>6. CASE GotAdd(p)
  BY <1>0, <1>2, <1>6, FinishKin DEF GotAdd
<1> QED
  BY <1>3, <1>4, <1>5, <1>6

LEMMA ListKin ==
  ASSUME House, NEW p \in Pid, tree' = tree,
         AwaitListItem(p) \/ GotListItem(p) \/ kill_proc_tree(p)
  PROVE  KinInv'
<1> USE DEF House
<1>0. /\ TypeInv
      /\ pc[p] \in CommandPoints \ {"boot"} /\ lib[p].at = "ret" /\ fifo' = fifo
  BY DEF CalmInv, AwaitListItem, GotListItem, kill_proc_tree, Ready, CommandPoints
<1>1. /\ \A point, from : Empty(point, message_wait(p, from))
      /\ \A point : point \notin Reading =>
           Empty(point, lib[p]) /\ Empty(point, [lib[p] EXCEPT !.msg = NULL])
  BY <1>0, Calls
<1>2. CASE AwaitListItem(p)
  <2>1. CASE Finish(p)
    BY <1>0, <1>2, <2>1, FinishKin DEF AwaitListItem
  <2>2. CASE Goto(p, "list_item", message_wait(p, parent[p]), mem[p])
    BY <1>0, <1>1, <1>2, <2>2, CommandGoes DEF AwaitListItem, CommandPoints
  <2> QED
    BY <1>2, <2>1, <2>2 DEF AwaitListItem
<1>3. CASE GotListItem(p)
  <2>1. pc[p] = "list_item" /\ Alone(p) /\ p # PM
    BY <1>0, <1>3, Runnable, BusyIsAlone, Manager
    DEF GotListItem, Ready, Receiving, CalmInv, Managing, ManagerPoints
  <2>2. CASE ListItem(p)
    <3>1. CASE Crash(p)
      BY <1>0, <3>1, LeaveKin DEF Crash, Exit
    <3>2. ASSUME NEW l, l = message_send(p, parent[p], MSG_SUCCESS, <<Pad>>), NEW m,
                 Goto(p, "list_asked", l, m), UNCHANGED parent
          PROVE  KinInv'
      <4>1. pc'[p] = "list_asked"
        BY <1>0, <3>2, Shape DEF Goto
      <4>2. Fresh(l)
        BY <1>0, <2>1, <3>2, <4>1, PadFresh DEF Leaving
      <4> QED
        BY <1>0, <2>1, <3>2, <4>2, CommandGoes DEF CommandPoints
    <3> QED
      BY <2>2, <3>1, <3>2 DEF ListItem
  <2>3. CASE UNCHANGED parent /\ \E point \in {"rm_next", "exit"} :
               Goto(p, point, [lib[p] EXCEPT !.msg = NULL], mem[p])
    BY <1>0, <1>1, <2>3, CommandGoes DEF CommandPoints, Reading
  <2>4. CASE Finish(p) /\ UNCHANGED parent
    BY <1>0, <2>4, FinishKin
  <2> QED
    BY <1>3, <2>2, <2>3, <2>4 DEF GotListItem
<1>4. CASE kill_proc_tree(p)
  <2>1. UNCHANGED parent
    BY <1>4 DEF kill_proc_tree
  <2>2. CASE Finish(p)
    BY <1>0, <2>1, <2>2, FinishKin
  <2>3. ASSUME NEW q, NEW rest, SparePmanager(p, rest) \/ SignalVictim(p, q, rest)
        PROVE  KinInv'
    <3>1. PICK l, m : Goto(p, "rm_next", l, m) /\ (l = lib[p] \/ l = message_wait(p, q))
      BY <2>3 DEF SparePmanager, SignalVictim
    <3>2. Empty("rm_next", l)
      BY <1>1, <3>1 DEF Reading
    <3> QED
      BY <1>0, <2>1, <3>1, <3>2, CommandGoes DEF CommandPoints
  <2> QED
    BY <1>4, <2>2, <2>3 DEF kill_proc_tree
<1> QED
  BY <1>2, <1>3, <1>4

LEMMA InfoKin ==
  ASSUME House, NEW p \in Pid, tree' = tree,
         ExitCommand(p) \/ AwaitInfo(p) \/ PrintInfo(p) \/ pclose(p) \/ pspawn(p) \/ AwaitSpawn(p)
  PROVE  KinInv'
<1> USE DEF House
<1>0. /\ TypeInv
      /\ pc[p] \in CommandPoints \ {"boot"} /\ lib[p].at = "ret" /\ fifo' = fifo
  BY DEF CalmInv, ExitCommand, AwaitInfo, PrintInfo, pclose, pspawn, AwaitSpawn, Ready, CommandPoints
<1>1. /\ \A point, from : Empty(point, message_wait(p, from))
      /\ \A point : point \notin Reading =>
           Empty(point, lib[p]) /\ Empty(point, [lib[p] EXCEPT !.msg = NULL])
  BY <1>0, Calls
<1>2. CASE ExitCommand(p) \/ PrintInfo(p)
  BY <1>0, <1>2, LeaveKin DEF ExitCommand, PrintInfo, Exit
<1>3. CASE Finish(p) /\ UNCHANGED parent
  BY <1>0, <1>3, FinishKin
<1>4. ASSUME NEW point \in {"exit", "info_reply"}, NEW l,
             \/ \E from : l = message_wait(p, from)
             \/ l = [lib[p] EXCEPT !.msg = NULL],
             Goto(p, point, l, mem[p]), UNCHANGED parent
      PROVE  KinInv'
  <2>1. Empty(point, l)
    BY <1>1, <1>4 DEF Reading
  <2> QED
    BY <1>0, <1>4, <2>1, CommandGoes DEF CommandPoints
<1>5. ASSUME Ready(p, "popen"), mem[p].peer # Pending, UNCHANGED parent,
             NEW l, l = message_send(p, mem[p].peer, MSG_SPAWN, <<Pad>>),
             Goto(p, "spawn_sent", l, mem[p])
      PROVE  KinInv'
  <2>1. Alone(p)
    BY <1>5, BusyIsAlone DEF Ready, Busy, BusyAt
  <2>2. p # PM
    BY <1>0, Manager DEF CalmInv, Managing, ManagerPoints, CommandPoints
  <2>3. pc'[p] = "spawn_sent"
    BY <1>0, <1>5, Shape DEF Goto
  <2>4. Fresh(l)
    BY <1>0, <1>5, <2>2, <2>3, PadFresh DEF Leaving
  <2> QED
    BY <1>0, <1>5, <2>1, <2>4, CommandGoes DEF CommandPoints
<1>6. CASE AwaitInfo(p)
  BY <1>4, <1>6 DEF AwaitInfo
<1>7. CASE pclose(p)
  BY <1>3, <1>4, <1>7 DEF pclose
<1>8. CASE pspawn(p)
  BY <1>3, <1>5, <1>8 DEF pspawn
<1>9. CASE AwaitSpawn(p)
  BY <1>3, <1>4, <1>9 DEF AwaitSpawn
<1> QED
  BY <1>2, <1>6, <1>7, <1>8, <1>9

LEMMA CommandKin ==
  ASSUME House, NEW p \in Pid, tree' = tree, CommandStep(p)
  PROVE  KinInv'
<1>1. CASE ExitCommand(p) \/ AwaitInfo(p) \/ PrintInfo(p) \/ pclose(p) \/ pspawn(p) \/ AwaitSpawn(p)
  BY <1>1, InfoKin
<1>2. CASE AwaitListItem(p) \/ GotListItem(p) \/ kill_proc_tree(p)
  BY <1>2, ListKin
<1>3. CASE AwaitNameCheck(p) \/ pnew(p) \/ AwaitAdd(p) \/ GotAdd(p)
  BY <1>3, PnewKin
<1>4. CASE Start(p)
  BY <1>4, StartKin
<1> QED
  BY <1>1, <1>2, <1>3, <1>4 DEF CommandStep

-----------------------------------------------------------------------------
(***************************************************************************)
(* pmanager.                                                               *)
(***************************************************************************)
LEMMA ManagerGoes ==
  ASSUME House, pc[PM] \in Managing, NEW point \in Managing, NEW l, NEW m,
         Goto(PM, point, l, m), UNCHANGED <<parent, fifo>>, tree' = tree,
         ListedAt(point, m), Empty(point, l) \/ (Alone(PM) /\ Fresh(l))
  PROVE  KinInv'
<1>1. KinPoint(PM, point) /\ AddressedAt(point, l, m, parent[PM]) /\ StillPoint(PM, point)
  BY DEF KinPoint, AddressedAt, StillPoint, Gone, ChildPoints, Managing, ManagerPoints, Family,
         Resting, Cloning, Leaving
<1>2. PM \in Pid
  BY PidFacts
<1> QED
  BY <1>1, <1>2, GotoKin

LEMMA SameKin ==
  ASSUME House, UNCHANGED <<pc, lib, mem, parent, fifo>>, tree' = tree
  PROVE  KinInv'
<1> USE DEF House
<1>1. \A x \in Pid : Kept(x) /\ Still(x)
  BY DEF Kept, Still, KinInv, RemovedFirst, Addressed
<1>2. Listed
  BY DEF Listed, KinInv, ListSound
<1>3. Parcels' = Parcels
  <2>1. \A x \in Pid : Carried(x)' = Carried(x)
    BY DEF Carried
  <2>2. OnItsWay' = OnItsWay
    BY DEF OnItsWay
  <2> QED
    BY <2>1, <2>2 DEF Parcels
<1>4. ParcelsSound'
  BY <1>1, <1>3, StillSound DEF KinInv
<1> QED
  BY <1>1, <1>2, <1>4, KinStays

\* The nodes that are still to be listed are, whatever else changes.
LEMMA SameListed ==
  ASSUME House, NEW point, NEW m, m.procs = mem[PM].procs,
         point \in {"list_sent", "list_ack"} => pc[PM] \in {"list_sent", "list_ack"} /\ m.peer = mem[PM].peer
  PROVE  ListedAt(point, m)
BY DEF House, KinInv, ListSound, ListedAt

LEMMA ExecCommandKin ==
  ASSUME House, tree' = tree, pc[PM] \in {"readline", "cleanup"}, lib[PM].at = "ret",
         NEW m \in MemType, m.procs = mem[PM].procs,
         NEW prog, NEW name, NEW to, prog = "pinfo" /\ to # NoPid => to \in {PM, InitPid} \/ CleanName(name),
         exec_command(PM, m, prog, name, to), fifo' = fifo
  PROVE  KinInv'
<1> USE DEF House
<1>0. TypeInv /\ PM \in Pid
  BY PidFacts DEF CalmInv
<1>1. PICK pm, kidMem :
        /\ pm = [m EXCEPT !.kid = nextPid]
        /\ kidMem = [NewCommand(prog, name, to) EXCEPT !.exiting = m.exiting, !.masked = m.masked]
        /\ Fork(PM, "poll", lib[PM], pm, "exec", lib[PM], kidMem)
  BY DEF exec_command
<1>2. pm.procs = mem[PM].procs
  BY <1>1 DEF MemType
<1>3. kidMem.prog = prog /\ kidMem.name = name /\ kidMem.peer = to
  BY <1>1 DEF NewCommand, BlankMem
<1>4. AddressedAt("exec", lib[PM], kidMem, PM)
  BY <1>3 DEF AddressedAt
<1>5. KinPoint(PM, "poll") /\ AddressedAt("poll", lib[PM], pm, parent[PM])
  BY DEF KinPoint, AddressedAt, Gone, ChildPoints, Family
<1>6. ListedAt("poll", pm)
  BY <1>2, SameListed
<1>7. Alone(PM) /\ Empty("poll", lib[PM])
  BY <1>0, Runnable, BusyIsAlone, Calls DEF Reading
<1> QED
  BY <1>0, <1>1, <1>4, <1>5, <1>6, <1>7, ForkKin

LEMMA CleanupKin ==
  ASSUME House, tree' = tree, pc[PM] = "readline", lib[PM].at = "ret",
         Goto(PM, "cleanup", lib[PM], mem[PM]), UNCHANGED <<parent, fifo>>
  PROVE  KinInv'
<1>1. PM \in Pid /\ TypeInv
  BY PidFacts DEF House, CalmInv
<1>2. Empty("cleanup", lib[PM])
  BY <1>1, Calls DEF Reading
<1>3. ListedAt("cleanup", mem[PM])
  BY SameListed
<1> QED
  BY <1>2, <1>3, ManagerGoes DEF Managing, ManagerPoints

LEMMA UserKin ==
  ASSUME House, PoliteScript, tree' = tree, ReadLine \/ EndOfInput
  PROVE  KinInv'
<1> USE DEF House
<1>0. TypeInv /\ PM \in Pid
  BY PidFacts DEF CalmInv
<1>1. pc[PM] = "readline" /\ lib[PM].at = "ret" /\ fifo' = fifo
  BY DEF ReadLine, EndOfInput, Ready
<1>2. CASE EndOfInput
  BY <1>1, <1>2, CleanupKin DEF EndOfInput
<1>3. CASE ReadLine
  <2>1. line + 1 \in 1..Len(Script)
    <3>1. line \in 0..Len(Script) /\ line < Len(Script) /\ Len(Script) \in Nat
      BY <1>0, <1>3, ScriptAssumption DEF ReadLine, TypeInv, ManagerInv
    <3> QED
      BY <3>1
  <2>2. PICK c \in Script[line + 1] :
          CASE c.cmd = "quit" ->
                 Goto(PM, "cleanup", lib[PM], mem[PM]) /\ UNCHANGED <<parent, nextPid, trees>>
            [] c.cmd = "other" -> UNCHANGED <<pc, lib, mem, parent, nextPid, trees>>
            [] OTHER ->
                 \/ exec_command(PM, mem[PM], c.cmd, c.name, c.to)
                 \/ ForkMayFail /\ UNCHANGED <<pc, lib, mem, parent, nextPid, trees>>
    BY <1>3 DEF ReadLine
  <2>3. PoliteLine(c)
    BY <2>1, <2>2 DEF PoliteScript
  <2>4. CASE Goto(PM, "cleanup", lib[PM], mem[PM]) /\ UNCHANGED parent
    BY <1>1, <2>4, CleanupKin
  <2>5. CASE UNCHANGED <<pc, lib, mem, parent>>
    BY <1>1, <2>5, SameKin
  <2>6. CASE exec_command(PM, mem[PM], c.cmd, c.name, c.to)
    <3>1. mem[PM] \in MemType
      BY <1>0, Shape DEF SoundMem
    <3> QED
      BY <1>1, <2>3, <2>6, <3>1, ExecCommandKin DEF PoliteLine
  <2> QED
    BY <2>2, <2>4, <2>5, <2>6
<1> QED
  BY <1>2, <1>3

LEMMA ExecKin ==
  ASSUME House, NEW p \in Pid, tree' = tree, ~CopyCleansUp(p), execvp(p)
  PROVE  KinInv'
<1> USE DEF House
<1>0. TypeInv
  BY DEF CalmInv
<1>1. pc[p] = "exec" /\ lib[p].at = "ret" /\ UNCHANGED <<parent, fifo>> /\ Ready(p, "exec")
  BY DEF execvp, Ready
<1>2. pc'[p] # "cleanup"
  BY <1>1 DEF CopyCleansUp
<1>3. PICK m : m = [mem[p] EXCEPT !.exiting = FALSE]
  OBVIOUS
<1>4. Goto(p, "start", BlankLib, m)
  BY <1>0, <1>2, <1>3, Shape DEF execvp, Goto
<1>5. m.prog = mem[p].prog /\ m.peer = mem[p].peer /\ m.name = mem[p].name
  BY <1>0, <1>3, Shape DEF SoundMem, MemType
<1>6. AddressedAt("start", BlankLib, m, parent[p])
  BY <1>1, <1>5 DEF KinInv, Addressed, AddressedAt
<1>7. KinPoint(p, "start") /\ p # PM
  BY <1>1, Manager DEF KinPoint, Gone, ChildPoints, Family, CalmInv, Managing
<1>8. Alone(p) /\ Empty("start", BlankLib)
  BY <1>0, <1>1, Runnable, BusyIsAlone, Calls DEF Reading
<1> QED
  BY <1>1, <1>4, <1>6, <1>7, <1>8, GotoKin

LEMMA PollKin ==
  ASSUME House, NEW p \in Pid, tree' = tree, Poll(p) \/ AwaitAck(p)
  PROVE  KinInv'
<1> USE DEF House
<1>0. /\ TypeInv /\ p = PM /\ PM \in Pid /\ lib[p].at = "ret" /\ UNCHANGED <<parent, fifo>>
      /\ pc[PM] \in {"poll", "list_sent"}
  BY Manager, PidFacts DEF CalmInv, Poll, AwaitAck, Ready, Managing, ManagerPoints
<1>1. PICK point, l :
        /\ point \in {"handle", "towait", "list_ack"}
        /\ Goto(PM, point, l, mem[PM])
        /\ point = "list_ack" => pc[PM] = "list_sent"
        /\ \/ l = message_read(PM)
           \/ l = lib[PM] /\ point = "towait"
           \/ \E from : l = message_wait(PM, from)
  BY <1>0 DEF Poll, AwaitAck, Ready
<1>2. Empty(point, l)
  BY <1>0, <1>1, Calls DEF Reading
<1>3. ListedAt(point, mem[PM])
  BY <1>1, SameListed
<1> QED
  BY <1>0, <1>1, <1>2, <1>3, ManagerGoes DEF Managing, ManagerPoints

LEMMA ReapKin ==
  ASSUME House, tree' = tree, pc[PM] \in {"towait", "waitpid"}, lib[PM].at = "ret",
         pc[mem[PM].kid] = "zombie",
         pc' = [pc EXCEPT ![mem[PM].kid] = "dead", ![PM] = "readline"],
         mem' = [mem EXCEPT ![PM].kid = NoPid],
         UNCHANGED <<lib, parent, fifo>>
  PROVE  KinInv'
<1> USE DEF House
<1>0. PICK kid : kid = mem[PM].kid
  OBVIOUS
<1>1. /\ TypeInv /\ PM \in Pid /\ kid \in Pid /\ kid # PM /\ pc[kid] = "zombie"
  <2>1. kid # NoPid
    BY <1>0, Serving DEF CalmInv, Managing, ManagerPoints
  <2>2. PM \in Pid /\ mem[PM] \in MemType /\ TypeInv
    BY Shape, PidFacts DEF CalmInv, SoundMem
  <2>3. kid \in Pid
    BY <1>0, <2>1, <2>2 DEF MemType
  <2> QED
    BY <1>0, <2>2, <2>3
<1>2. /\ pc'[PM] = "readline" /\ pc'[kid] = "dead"
      /\ \A x \in Pid \ {PM, kid} : pc'[x] = pc[x]
      /\ \A x \in Pid \ {PM} : mem'[x] = mem[x]
      /\ mem'[PM].procs = mem[PM].procs
  BY <1>0, <1>1, Shape DEF SoundMem, MemType
<1>3. ASSUME NEW x \in Pid PROVE Kept(x) /\ Still(x)
  <2>1. CASE x = PM
    BY <1>2, <2>1 DEF Kept, Still, Addressed, AddressedAt, Family, ChildPoints, Resting, Cloning, Leaving
  <2>2. CASE x = kid
    BY <1>1, <1>2, <2>2 DEF Kept, Still, Addressed, AddressedAt, Family, ChildPoints, Resting, Cloning, Leaving
  <2>3. CASE x \notin {PM, kid}
    <3>1. Addressed(x)'
      BY <1>2, <2>3 DEF KinInv, Addressed
    <3> QED
      BY <1>2, <2>3, <3>1 DEF Kept, Still, KinInv, RemovedFirst
  <2> QED
    BY <2>1, <2>2, <2>3
<1>4. Listed
  BY <1>2 DEF Listed, KinInv, ListSound
<1>5. Parcels' \subseteq Parcels
  <2>1. ASSUME NEW x \in Pid PROVE Carried(x)' \subseteq Carried(x)
    BY <1>2 DEF Carried, Reading
  <2>2. OnItsWay' = OnItsWay
    BY DEF OnItsWay
  <2> QED
    BY <2>1, <2>2 DEF Parcels
<1>6. ParcelsSound'
  BY <1>3, <1>5, StillSound DEF KinInv
<1> QED
  BY <1>3, <1>4, <1>6, KinStays

LEMMA WaitpidKin ==
  ASSUME House, NEW p \in Pid, tree' = tree, WaitCommand(p) \/ cleanup(p)
  PROVE  KinInv'
<1> USE DEF House
<1>0. /\ TypeInv /\ p = PM /\ PM \in Pid /\ lib[p].at = "ret" /\ fifo' = fifo
      /\ pc[PM] \in {"towait", "waitpid", "cleanup"}
  BY Manager, PidFacts DEF CalmInv, WaitCommand, cleanup, Ready, Managing, ManagerPoints
<1>1. CASE EndManager(PM)
  BY <1>0, <1>1, ExitKin DEF EndManager, Exit, Gone, ChildPoints
<1>2. CASE WaitCommand(p)
  <2>1. CASE pc' = [pc EXCEPT ![PM] = "waitpid"] /\ UNCHANGED <<lib, mem, parent>> /\ pc[PM] = "towait"
    <3>1. Goto(PM, "waitpid", lib[PM], mem[PM])
      BY <1>0, <2>1, GotoPoint
    <3>2. Empty("waitpid", lib[PM])
      BY <1>0, Calls DEF Reading
    <3>3. ListedAt("waitpid", mem[PM])
      BY SameListed
    <3> QED
      BY <1>0, <2>1, <3>1, <3>2, <3>3, ManagerGoes DEF Managing, ManagerPoints
  <2>2. CASE /\ pc[mem[PM].kid] = "zombie" /\ pc[PM] \in {"towait", "waitpid"}
             /\ pc' = [pc EXCEPT ![mem[PM].kid] = "dead", ![PM] = "readline"]
             /\ mem' = [mem EXCEPT ![PM].kid = NoPid]
             /\ UNCHANGED <<lib, parent>>
    BY <1>0, <2>2, ReapKin
  <2> QED
    BY <1>0, <1>1, <1>2, <2>1, <2>2 DEF WaitCommand, Ready
<1>3. CASE pc[PM] = "cleanup" /\ exec_command(PM, [mem[PM] EXCEPT !.exiting = TRUE], "prmall", pmanager, NoPid)
  <2>1. PICK m : m = [mem[PM] EXCEPT !.exiting = TRUE]
    OBVIOUS
  <2>2. mem[PM] \in MemType
    BY <1>0, Shape DEF SoundMem
  <2>3. m \in MemType /\ m.procs = mem[PM].procs
    BY <2>1, <2>2 DEF MemType
  <2> QED
    BY <1>0, <1>3, <2>1, <2>3, ExecCommandKin
<1> QED
  BY <1>0, <1>1, <1>2, <1>3 DEF cleanup, Ready

-----------------------------------------------------------------------------
(***************************************************************************)
(* message_handler() and the list it sends.                                *)
(***************************************************************************)
\* The message pmanager serves is as it was sent.
LEMMA Serves ==
  ASSUME House, NEW p \in Pid, message_handler(p) \/ GotAck(p)
  PROVE  /\ p = PM /\ PM \in Pid /\ TypeInv /\ lib[PM].at = "ret" /\ pc[PM] \in {"handle", "list_ack"}
         /\ Alone(PM)
         /\ pc[PM] = "handle" /\ lib[PM].msg # NULL => SoundMessage(PM, lib[PM].msg)
<1> USE DEF House
<1>1. /\ p = PM /\ PM \in Pid /\ TypeInv /\ lib[PM].at = "ret" /\ pc[PM] \in {"handle", "list_ack"}
  BY Manager, PidFacts DEF CalmInv, message_handler, GotAck, Ready, Managing, ManagerPoints
<1>2. Alone(PM)
  BY <1>1, Runnable, BusyIsAlone DEF Receiving
<1>3. ASSUME pc[PM] = "handle", lib[PM].msg # NULL PROVE SoundMessage(PM, lib[PM].msg)
  <2>1. Parcel(PM, lib[PM].msg) \in Parcels
    BY <1>1, <1>3 DEF Parcels, Carried, Reading
  <2>2. Sound(Parcel(PM, lib[PM].msg))
    BY <2>1 DEF KinInv, ParcelsSound
  <2> QED
    BY <1>3, <2>2 DEF Sound, Parcel
<1> QED
  BY <1>1, <1>2, <1>3

\* A node of the tree is decoded by whoever it is sent to.
LEMMA NodeFresh ==
  ASSUME TypeInv, PM \in Pid, pc'[PM] \notin Leaving, NEW to, NEW n \in TreeNode, CleanName(n.name)
  PROVE  Fresh(message_send(PM, to, MSG_INFO, proc_node_tostr(n.pid, n.ppid, n.name)))
<1>1. PICK content : content = proc_node_tostr(n.pid, n.ppid, n.name)
  OBVIOUS
<1>2. n.pid \in Nat /\ n.ppid \in Nat /\ n.name \in Str
  BY DEF TreeNode
<1>3. content \in Str
  BY <1>1, <1>2, AtomFacts, TextTypes
<1>4. Len(content) > 0 /\ Without(Colon, content)
  <2>1. PICK s : s = n.name
    OBVIOUS
  <2>2. PICK head : head = <<n.pid, Semi, n.ppid, Semi>>
    OBVIOUS
  <2>3. head \in Seq(Atom) /\ s \in Seq(Atom) /\ Len(head) = 4 /\ content = head \o s
    BY <1>1, <1>2, <2>1, <2>2, AtomFacts DEF proc_node_tostr, Str
  <2>4. \A i \in 1..4 : head[i] # Colon
    BY <1>2, <2>2, AtomAssumption
  <2>5. \A i \in 1..Len(s) : s[i] # Colon
    BY <2>1 DEF CleanName
  <2>6. /\ Len(content) = 4 + Len(s) /\ Len(s) \in Nat
        /\ \A i \in 1..Len(content) : content[i] = IF i <= 4 THEN head[i] ELSE s[i-4]
    <3>1. /\ Len(head \o s) = Len(head) + Len(s)
          /\ \A i \in 1..(Len(head) + Len(s)) :
               (head \o s)[i] = IF i <= Len(head) THEN head[i] ELSE s[i - Len(head)]
      BY <2>3, ConcatProperties
    <3>2. Len(s) \in Nat
      BY <2>3
    <3> QED
      BY <2>3, <3>1, <3>2
  <2> QED
    BY <2>4, <2>5, <2>6 DEF Without
<1>5. MSG_INFO \in MsgType \ {MSG_ADD} /\ MSG_INFO \notin {MSG_LIST, MSG_SUCCESS}
  BY Types
<1> QED
  BY <1>1, <1>3, <1>4, <1>5, SendFresh

LEMMA SendNodeKin ==
  ASSUME House, tree' = tree, pc[PM] \in {"handle", "list_ack"}, lib[PM].at = "ret", Alone(PM),
         NEW to, to \in Pid => pc[to] \notin Family,
         NEW procs \in Seq(TreeNode), procs # <<>>,
         \A k \in 1..Len(procs) : CleanName(procs[k].name), SendNode(PM, to, procs)
  PROVE  KinInv'
<1> USE DEF House
<1>0. TypeInv /\ PM \in Pid /\ mem[PM] \in MemType
  BY PidFacts, Shape DEF CalmInv, SoundMem
<1>1. PICK n : n = Head(procs)
  OBVIOUS
<1>2. Len(procs) \in Nat /\ Len(procs) > 0
  OBVIOUS
<1>3. n \in TreeNode /\ CleanName(n.name)
  BY <1>1, <1>2
<1>4. PICK l : l = message_send(PM, to, MSG_INFO, proc_node_tostr(n.pid, n.ppid, n.name))
  OBVIOUS
<1>5. PICK m : m = [mem[PM] EXCEPT !.peer = to, !.procs = Tail(procs)]
  OBVIOUS
<1>6. Goto(PM, "list_sent", l, m) /\ UNCHANGED <<parent, fifo>>
  BY <1>1, <1>4, <1>5 DEF SendNode
<1>7. pc'[PM] = "list_sent"
  BY <1>0, <1>6, Shape DEF Goto
<1>8. Fresh(l)
  BY <1>0, <1>3, <1>4, <1>7, NodeFresh DEF Leaving
<1>9. m.peer = to /\ m.procs = Tail(procs)
  BY <1>0, <1>5 DEF MemType
<1>10. \A k \in 1..Len(m.procs) : CleanName(m.procs[k].name)
  <2>1. Len(Tail(procs)) = Len(procs) - 1 /\ \A k \in 1..Len(Tail(procs)) : Tail(procs)[k] = procs[k+1]
    BY <1>2
  <2> QED
    BY <1>2, <1>9, <2>1
<1>11. ListedAt("list_sent", m)
  BY <1>9, <1>10 DEF ListedAt
<1> QED
  BY <1>6, <1>8, <1>11, ManagerGoes DEF Managing, ManagerPoints

\* An answer that says no, or names a node.
LEMMA AnswerKin ==
  ASSUME House, tree' = tree, pc[PM] \in {"handle", "list_ack"}, Alone(PM), NEW l, NEW m,
         Goto(PM, "towait", l, m), m.procs = mem[PM].procs, UNCHANGED <<parent, fifo>>, Fresh(l)
  PROVE  KinInv'
<1>1. ListedAt("towait", m)
  BY SameListed
<1> QED
  BY <1>1, ManagerGoes DEF Managing, ManagerPoints

LEMMA RefuseKin ==
  ASSUME House, tree' = tree, pc[PM] = "handle", Alone(PM), NEW to,
         Answer(PM, to, MSG_ERROR, <<Pad>>)
  PROVE  KinInv'
<1>0. TypeInv /\ PM \in Pid
  BY PidFacts DEF House, CalmInv
<1>1. PICK l : l = message_send(PM, to, MSG_ERROR, <<Pad>>)
  OBVIOUS
<1>2. Goto(PM, "towait", l, mem[PM]) /\ UNCHANGED <<parent, fifo>>
  BY <1>1 DEF Answer
<1>3. pc'[PM] = "towait"
  BY <1>0, <1>2, Shape DEF Goto
<1>4. Fresh(l)
  BY <1>0, <1>1, <1>3, PadFresh DEF Leaving
<1> QED
  BY <1>2, <1>4, AnswerKin

LEMMA AckKin ==
  ASSUME House, NEW p \in Pid, tree' = tree, GotAck(p)
  PROVE  KinInv'
<1> USE DEF House
<1>0. /\ p = PM /\ PM \in Pid /\ TypeInv /\ lib[PM].at = "ret" /\ pc[PM] = "list_ack" /\ Alone(PM)
      /\ mem[PM] \in MemType
  BY Serves, Shape DEF GotAck, Ready, SoundMem
<1>1. /\ \A k \in 1..Len(mem[PM].procs) : CleanName(mem[PM].procs[k].name)
      /\ mem[PM].peer \in Pid => pc[mem[PM].peer] \notin Family
  BY <1>0 DEF KinInv, ListSound
<1>2. CASE mem[PM].procs # <<>>
  <2>1. mem[PM].procs \in Seq(TreeNode)
    BY <1>0 DEF MemType
  <2> QED
    BY <1>0, <1>1, <1>2, <2>1, SendNodeKin DEF GotAck
<1>3. CASE mem[PM].procs = <<>>
  <2>1. PICK l : l = message_send(PM, mem[PM].peer, MSG_SUCCESS, <<Pad>>)
    OBVIOUS
  <2>2. PICK m : m = [mem[PM] EXCEPT !.peer = NoPid]
    OBVIOUS
  <2>3. m.procs = mem[PM].procs
    BY <1>0, <2>2 DEF MemType
  <2>4. Goto(PM, "towait", l, m) /\ UNCHANGED <<parent, fifo>>
    BY <1>0, <1>3, <2>1, <2>2 DEF GotAck
  <2>5. pc'[PM] = "towait" /\ \A x \in Pid \ {PM} : pc'[x] = pc[x]
    BY <1>0, <2>4, Shape DEF Goto
  <2>6. mem[PM].peer \in Pid => pc'[mem[PM].peer] \notin Leaving
    BY <1>1, <2>5 DEF Leaving, Family, ChildPoints
  <2>7. Fresh(l)
    BY <1>0, <2>1, <2>5, <2>6, PadFresh DEF Leaving
  <2> QED
    BY <1>0, <2>3, <2>4, <2>7, AnswerKin
<1> QED
  BY <1>2, <1>3

\* The node does not change while it is in the tree.
NodesKept ==
  \A i \in 1..Len(tree), j \in 1..Len(tree') : tree[i].pid = tree'[j].pid => tree[i] = tree'[j]

\* Who is new in the tree is a process at rest, and a clone of the one it is below.
Newcomer(n) ==
  /\ pc[n.pid] \in Resting
  /\ n.ppid # PM => pc[n.pid] # "boot" /\ parent[n.pid] = n.ppid

\* pmanager has changed its tree and answers.
LEMMA TreeKin ==
  ASSUME House, Rooted', NodesKept, pc[PM] = "handle", Alone(PM), NEW l,
         Goto(PM, "towait", l, mem[PM]), UNCHANGED <<parent, fifo>>, Fresh(l),
         \A i \in 1..Len(tree') :
           tree'[i].pid \in Pids(tree) \/ (tree'[i].pid \in Pid /\ Newcomer(tree'[i]))
  PROVE  KinInv'
<1> USE DEF House
<1>1. /\ PM \in Pid /\ pc'[PM] = "towait" /\ lib'[PM] = l /\ mem'[PM] = mem[PM]
      /\ \A x \in Pid \ {PM} : pc'[x] = pc[x] /\ lib'[x] = lib[x] /\ mem'[x] = mem[x]
  BY Shape DEF CalmInv, Goto
<1>2. ASSUME NEW x \in Pid PROVE Addressed(x)'
  <2>1. CASE x = PM
    BY <1>1, <2>1 DEF Addressed, AddressedAt
  <2>2. CASE x # PM
    BY <1>1, <2>2 DEF KinInv, Addressed
  <2> QED
    BY <2>1, <2>2
<1>3. ListSound'
  BY <1>1 DEF KinInv, ListSound
<1>4. ParcelsSound'
  <2>1. \A x \in Pid \ {PM} : Carried(x)' = Carried(x)
    BY <1>1 DEF Carried
  <2>2. Fresh(lib'[PM])
    BY <1>1
  <2> QED
    BY <1>1, <2>1, <2>2, AloneSound
<1>5. RemovedFirst'
  <2> SUFFICES ASSUME NEW x \in Pid, pc'[x] = "term_done", x \in Pids(tree')
               PROVE  FALSE
    BY DEF RemovedFirst
  <2>1. x # PM /\ pc[x] = "term_done"
    BY <1>1
  <2>2. x \notin Pids(tree)
    BY <2>1 DEF KinInv, RemovedFirst
  <2>3. PICK i \in 1..Len(tree') : tree'[i].pid = x
    BY DEF Pids
  <2>4. pc[x] \in Resting
    BY <2>2, <2>3 DEF Newcomer
  <2> QED
    BY <2>1, <2>4 DEF Resting
<1>6. KinInTree'
  <2> SUFFICES ASSUME NEW i \in 2..Len(tree')
               PROVE  /\ pc'[tree'[i].pid] \in ChildPoints \union {"boot", "killed"}
                      /\ tree'[i].ppid # PM => /\ pc'[tree'[i].pid] \in ChildPoints
                                               /\ parent'[tree'[i].pid] = tree'[i].ppid
    BY DEF KinInTree
  <2>1. i \in 1..Len(tree') /\ 1 \in 1..Len(tree') /\ i # 1
    BY DEF Rooted
  <2>2. tree'[i].pid # PM
    BY <2>1 DEF Rooted
  <2> DEFINE x == tree'[i].pid
             y == tree'[i].ppid
  <2>3. CASE x \in Pids(tree)
    <3>1. PICK j \in 1..Len(tree) : tree[j].pid = x
      BY <2>3 DEF Pids
    <3>2. tree[j] = tree'[i]
      BY <2>1, <3>1 DEF NodesKept
    <3>3. j \in 2..Len(tree)
      BY <2>2, <3>1 DEF Rooted
    <3>4. x \in Pid
      BY <3>1, <3>3, ParentsThere
    <3>5. /\ pc[x] \in ChildPoints \union {"boot", "killed"}
          /\ y # PM => pc[x] \in ChildPoints /\ parent[x] = y
      BY <3>1, <3>2, <3>3 DEF KinInv, KinInTree
    <3> QED
      BY <1>1, <2>2, <3>4, <3>5
  <2>4. CASE x \notin Pids(tree)
    <3>1. x \in Pid /\ Newcomer(tree'[i])
      BY <2>1, <2>4
    <3>2. /\ pc[x] \in ChildPoints \union {"boot"}
          /\ y # PM => pc[x] \in ChildPoints /\ parent[x] = y
      BY <3>1 DEF Newcomer, Resting, ChildPoints
    <3> QED
      BY <1>1, <2>2, <3>1, <3>2
  <2> QED
    BY <2>3, <2>4
<1> QED
  BY <1>2, <1>3, <1>4, <1>5, <1>6 DEF KinInv

\* What has been removed is gone.
LEMMA RemovedIsGone ==
  ASSUME NEW t \in Seq(TreeNode), NEW pid, CanRemove(t, pid),
         \A i, j \in 1..Len(t) : t[i].pid = t[j].pid => i = j
  PROVE  pid \notin Pids(proc_node_remove(t, pid))
<1> DEFINE i == proc_node_find_by_pid(t, pid)
<1>1. i \in 1..Len(t) /\ t[i].pid = pid
  BY FindByPid DEF CanRemove
<1>2. proc_node_remove(t, pid) = RemoveAt(t, i)
  BY DEF proc_node_remove
<1> HIDE DEF i
<1>3. Len(t) \in Nat
  OBVIOUS
<1>4. /\ Len(RemoveAt(t, i)) = Len(t) - 1
      /\ \A k \in 1..(Len(t) - 1) : RemoveAt(t, i)[k] = IF k < i THEN t[k] ELSE t[k+1]
  BY <1>1, Removed
<1>5. ASSUME NEW k \in 1..(Len(t) - 1) PROVE RemoveAt(t, i)[k].pid # pid
  <2>1. k \in 1..Len(t) /\ k + 1 \in 1..Len(t)
    BY <1>3
  <2>2. CASE k < i
    BY <1>1, <1>4, <2>1, <2>2
  <2>3. CASE ~(k < i)
    <3>1. k + 1 # i
      BY <1>1, <1>3, <2>3
    <3> QED
      BY <1>1, <1>4, <2>1, <2>3, <3>1
  <2> QED
    BY <2>2, <2>3
<1> QED
  BY <1>2, <1>3, <1>4, <1>5 DEF Pids

LEMMA AddKin ==
  ASSUME House, Rooted', NodesKept, pc[PM] = "handle", lib[PM].at = "ret", lib[PM].msg # NULL,
         Alone(PM), lib[PM].msg.type = MSG_ADD, SoundMessage(PM, lib[PM].msg),
         msg_add_handler(PM, lib[PM].msg)
  PROVE  KinInv'
<1> USE DEF House
<1>0. TypeInv /\ PM \in Pid
  BY PidFacts DEF CalmInv
<1>1. PICK msg : msg = lib[PM].msg
  OBVIOUS
<1>2. PICK n : n = NodeToAdd(PM, msg.content)
  OBVIOUS
<1>3. PICK type, l :
        /\ type \in {MSG_ERROR, MSG_SUCCESS}
        /\ l = message_send(PM, msg.sender, type, <<Pad>>)
        /\ Goto(PM, "towait", l, mem[PM]) /\ UNCHANGED <<parent, fifo>>
  BY <1>1 DEF msg_add_handler, Answer
<1>4. pc'[PM] = "towait" /\ \A x \in Pid \ {PM} : pc'[x] = pc[x]
  BY <1>0, <1>3, Shape DEF Goto
<1>5. msg.sender \in Pid => pc'[msg.sender] \notin Leaving
  <2>1. msg.sender \in Pid => pc[msg.sender] \notin Leaving
    BY <1>1, Types DEF SoundMessage
  <2> QED
    BY <1>4, <2>1 DEF Leaving
<1>6. Fresh(l)
  BY <1>0, <1>3, <1>4, <1>5, PadFresh DEF Leaving
<1>7. CASE n = NULL
  <2>1. tree' = tree
    BY <1>1, <1>2, <1>7 DEF msg_add_handler, tree
  <2>2. \A i \in 1..Len(tree') : tree'[i].pid \in Pids(tree)
    BY <2>1 DEF Pids
  <2> QED
    BY <1>3, <1>6, <2>2, TreeKin
<1>8. CASE n # NULL
  <2>1. n = proc_node_fromstr(msg.content) /\ CanAdd(tree, n.ppid)
    BY <1>2, <1>8 DEF NodeToAdd, tree
  <2>2. n.pid \in Nat /\ n.ppid \in Nat /\ n.name \in Str
    <3>1. msg.content \in Str
      BY <1>0, <1>1, StateFacts DEF TypeInv
    <3>2. n \in ProcInfo
      BY <1>8, <2>1, <3>1, NodeDecoded
    <3> QED
      BY <3>2 DEF ProcInfo
  <2>3. tree' = proc_node_add(tree, n.pid, n.ppid, n.name)
    <3>1. trees' = [trees EXCEPT ![PM] = proc_node_add(trees[PM], n.pid, n.ppid, n.name)]
      BY <1>1, <1>2, <1>8 DEF msg_add_handler
    <3> QED
      BY <1>0, <3>1 DEF tree, TypeInv, ManagerInv
  <2>4. SoundNode(n)
    <3>1. n \in NodesOf(msg)
      BY <1>1, <1>8, <2>1 DEF NodesOf
    <3> QED
      BY <1>1, <3>1 DEF SoundMessage
  <2>5. Pids(tree') \subseteq Pids(tree) \union {n.pid} /\ Has(tree', n.pid, n.ppid, n.name)
    <3>1. PICK t \in Seq(TreeNode) : t = tree
      BY <1>0, TreeTyped
    <3>2. PICK new : new = tree'
      OBVIOUS
    <3>3. CanAdd(t, n.ppid) /\ new = proc_node_add(t, n.pid, n.ppid, n.name)
      BY <2>1, <2>3, <3>1, <3>2
    <3>4. Pids(new) \subseteq Pids(t) \union {n.pid} /\ Has(new, n.pid, n.ppid, n.name)
      BY <2>2, <3>1, <3>3, AddedPids
    <3> QED
      BY <3>1, <3>2, <3>4
  <2>6. n.ppid \in Pid
    <3>1. n.ppid \in Pids(tree)
      BY <1>0, <2>1, TreeTyped, AddedBelow
    <3> QED
      BY <3>1, NodesArePids DEF RequestInv
  <2>7. ASSUME NEW i \in 1..Len(tree'), tree'[i].pid \notin Pids(tree)
        PROVE  tree'[i].pid \in Pid /\ Newcomer(tree'[i])
    <3>1. tree'[i].pid = n.pid
      <4>1. tree'[i].pid \in Pids(tree')
        BY DEF Pids
      <4> QED
        BY <2>5, <2>7, <4>1
    <3>2. PICK k \in 1..Len(tree') : tree'[k].pid = n.pid /\ tree'[k].ppid = n.ppid
      BY <2>5 DEF Has
    <3>3. tree'[i].ppid = n.ppid
      BY <3>1, <3>2 DEF Rooted
    <3> QED
      BY <2>4, <2>6, <3>1, <3>3 DEF SoundNode, Newcomer
  <2> QED
    BY <1>3, <1>6, <2>7, TreeKin
<1> QED
  BY <1>7, <1>8

LEMMA RemoveKin ==
  ASSUME House, Rooted', NodesKept, pc[PM] = "handle", lib[PM].at = "ret", lib[PM].msg # NULL,
         Alone(PM), msg_remove_handler(PM, lib[PM].msg)
  PROVE  KinInv'
<1> USE DEF House
<1>0. TypeInv /\ PM \in Pid
  BY PidFacts DEF CalmInv
<1>1. PICK q : q = lib[PM].msg.sender
  OBVIOUS
<1>2. PICK type, l :
        /\ type = IF CanRemove(tree, q) THEN MSG_SUCCESS ELSE MSG_ERROR
        /\ l = message_send(PM, q, type, <<Pad>>)
        /\ Goto(PM, "towait", l, mem[PM]) /\ UNCHANGED <<parent, fifo>>
  BY <1>1 DEF msg_remove_handler, Answer, tree
<1>3. pc'[PM] = "towait"
  BY <1>0, <1>2, Shape DEF Goto
<1>4. CASE ~CanRemove(tree, q)
  <2>1. tree' = tree
    BY <1>1, <1>4 DEF msg_remove_handler, tree
  <2>2. \A i \in 1..Len(tree') : tree'[i].pid \in Pids(tree)
    BY <2>1 DEF Pids
  <2>3. Fresh(l)
    BY <1>0, <1>2, <1>3, <1>4, PadFresh DEF Leaving
  <2> QED
    BY <1>2, <2>2, <2>3, TreeKin
<1>5. CASE CanRemove(tree, q)
  <2>1. tree' = proc_node_remove(tree, q)
    <3>1. trees' = [trees EXCEPT ![PM] = proc_node_remove(trees[PM], q)]
      BY <1>1, <1>5 DEF msg_remove_handler, tree
    <3> QED
      BY <1>0, <3>1 DEF tree, TypeInv, ManagerInv
  <2>2. Pids(tree') \subseteq Pids(tree) /\ q \notin Pids(tree')
    <3>1. PICK t \in Seq(TreeNode) : t = tree
      BY <1>0, TreeTyped
    <3>2. Pids(proc_node_remove(t, q)) \subseteq Pids(t)
      BY <1>5, <3>1, RemovedPids
    <3>3. \A i, j \in 1..Len(t) : t[i].pid = t[j].pid => i = j
      BY <3>1 DEF Rooted
    <3>4. q \notin Pids(proc_node_remove(t, q))
      BY <1>5, <3>1, <3>3, RemovedIsGone
    <3> QED
      BY <2>1, <3>1, <3>2, <3>4
  <2>3. \A i \in 1..Len(tree') : tree'[i].pid \in Pids(tree)
    BY <2>2 DEF Pids
  <2>4. Fresh(l)
    BY <1>0, <1>2, <1>3, <1>5, <2>2, PadFresh DEF Leaving
  <2> QED
    BY <1>2, <2>3, <2>4, TreeKin
<1> QED
  BY <1>4, <1>5

\* The nodes of a subtree are nodes of the tree.
LEMMA ArrayClean ==
  ASSUME NEW t \in Seq(TreeNode), t \in CleanTree, NEW i \in 1..Len(t),
         NEW a, a = proc_node_get_array(t, i)
  PROVE  \A k \in 1..Len(a) : CleanName(a[k].name)
<1>1. \A k \in 1..Len(t) : t[k].depth \in Nat
  <2>1. \A k \in 1..Len(t) : t[k] \in TreeNode
    OBVIOUS
  <2> QED
    BY <2>1 DEF TreeNode
<1>2. PICK e \in i..Len(t) : a = SubSeq(t, i, e)
  BY <1>1, SubtreeEnds DEF proc_node_get_array
<1>3. i \in Int /\ e \in Int /\ i <= e /\ Len(t) \in Nat
  BY <1>2
<1>4. \A k \in i..e : t[k] \in TreeNode
  BY <1>2
<1>5. Len(a) = e - i + 1 /\ \A k \in 1..(e - i + 1) : a[k] = t[i + k - 1]
  BY <1>2, <1>3, <1>4, SubSeqProperties
<1>6. \A k \in 1..(e - i + 1) : i + k - 1 \in 1..Len(t)
  BY <1>2, <1>3
<1> QED
  BY <1>5, <1>6 DEF CleanTree

LEMMA HandlerKin ==
  ASSUME House, Rooted', NodesKept, NEW p \in Pid, message_handler(p)
  PROVE  KinInv'
<1> USE DEF House
<1>0. /\ p = PM /\ PM \in Pid /\ TypeInv /\ lib[PM].at = "ret" /\ pc[PM] = "handle" /\ Alone(PM)
      /\ lib[PM].msg # NULL => SoundMessage(PM, lib[PM].msg)
  BY Serves DEF message_handler, Ready
<1>1. CASE lib[PM].msg = NULL
  <2>1. Goto(PM, "towait", lib[PM], mem[PM]) /\ UNCHANGED <<parent, fifo>> /\ tree' = tree
    BY <1>0, <1>1 DEF message_handler, managerVars, tree
  <2>2. Empty("towait", lib[PM]) /\ ListedAt("towait", mem[PM])
    BY <1>0, Calls, SameListed DEF Reading
  <2> QED
    BY <1>0, <2>1, <2>2, ManagerGoes DEF Managing, ManagerPoints
<1>2. CASE lib[PM].msg # NULL
  <2>0. PICK msg : msg = lib[PM].msg
    OBVIOUS
  <2>1. trees[PM] = tree /\ tree \in Seq(TreeNode) /\ tree \in CleanTree
    BY <1>0, TreeTyped DEF tree
  <2>2. PICK i : i = proc_node_find_by_name(tree, msg.content)
    OBVIOUS
  <2>3. CASE \E to : Answer(PM, to, MSG_ERROR, <<Pad>>) /\ UNCHANGED trees
    BY <1>0, <2>3, RefuseKin DEF tree
  <2>4. CASE msg_info_handler(PM, msg) /\ i # 0
    <3>1. i \in 1..Len(tree)
      BY <2>1, <2>2, <2>4, FindByName
    <3>2. PICK n \in TreeNode : n = tree[i]
      BY <2>1, <3>1
    <3>3. CleanName(n.name)
      BY <2>1, <3>1, <3>2 DEF CleanTree
    <3>4. PICK l : l = message_send(PM, msg.sender, MSG_INFO, proc_node_tostr(n.pid, n.ppid, n.name))
      OBVIOUS
    <3>5. Goto(PM, "towait", l, mem[PM]) /\ UNCHANGED <<parent, fifo>> /\ tree' = tree
      BY <2>1, <2>2, <2>4, <3>2, <3>4 DEF msg_info_handler, Answer, tree
    <3>6. pc'[PM] = "towait"
      BY <1>0, <3>5, Shape DEF Goto
    <3>7. Fresh(l)
      BY <1>0, <3>3, <3>4, <3>6, NodeFresh DEF Leaving
    <3> QED
      BY <1>0, <3>5, <3>7, AnswerKin
  <2>5. CASE msg.type = MSG_LIST /\ msg_list_handler(PM, msg) /\ i # 0
    <3>1. i \in 1..Len(tree)
      BY <2>1, <2>2, <2>5, FindByName
    <3>2. PICK procs : procs = proc_node_get_array(tree, i)
      OBVIOUS
    <3>3. procs \in Seq(TreeNode) /\ procs # <<>>
      BY <2>1, <3>1, <3>2, ArrayTyped
    <3>4. \A k \in 1..Len(procs) : CleanName(procs[k].name)
      BY <1>0, <2>1, <3>1, <3>2, ArrayClean
    <3>5. SendNode(PM, msg.sender, procs) /\ tree' = tree
      BY <2>1, <2>2, <2>5, <3>2 DEF msg_list_handler, SendNode, managerVars, tree
    <3>6. msg.sender \in Pid => pc[msg.sender] \notin Family
      BY <1>0, <1>2, <2>0, <2>5 DEF SoundMessage
    <3> QED
      BY <1>0, <3>3, <3>4, <3>5, <3>6, SendNodeKin
  <2>6. CASE msg.type = MSG_ADD /\ msg_add_handler(PM, msg)
    BY <1>0, <1>2, <2>0, <2>6, AddKin
  <2>7. CASE msg_remove_handler(PM, msg)
    BY <1>0, <1>2, <2>0, <2>7, RemoveKin
  <2>8. \/ \E to : Answer(PM, to, MSG_ERROR, <<Pad>>) /\ UNCHANGED trees
        \/ msg_info_handler(PM, msg) /\ i # 0
        \/ msg.type = MSG_LIST /\ msg_list_handler(PM, msg) /\ i # 0
        \/ msg.type = MSG_ADD /\ msg_add_handler(PM, msg)
        \/ msg_remove_handler(PM, msg)
    <3>1. i = 0 /\ msg_info_handler(PM, msg) =>
            Answer(PM, msg.sender, MSG_ERROR, <<Pad>>) /\ UNCHANGED trees
      BY <2>1, <2>2 DEF msg_info_handler
    <3>2. i = 0 /\ msg_list_handler(PM, msg) =>
            Answer(PM, msg.sender, MSG_ERROR, <<Pad>>) /\ UNCHANGED trees
      BY <2>1, <2>2 DEF msg_list_handler
    <3> QED
      BY <1>0, <1>2, <2>0, <3>1, <3>2 DEF message_handler
  <2> QED
    BY <2>3, <2>4, <2>5, <2>6, <2>7, <2>8
<1> QED
  BY <1>1, <1>2

-----------------------------------------------------------------------------
(***************************************************************************)
(* The calls of message.c, and the signals.                                *)
(***************************************************************************)
\* x stays where it is, is woken, or is reaped, and forgets nothing.
Stayed(x) ==
  /\ \/ pc'[x] = pc[x]
     \/ pc[x] = "asleep" /\ pc'[x] = "flag"
     \/ pc[x] = "waitpid" /\ pc'[x] = "poll"
     \/ pc[x] = "zombie" /\ pc'[x] = "dead"
  /\ mem'[x].prog = mem[x].prog /\ mem'[x].peer = mem[x].peer
  /\ mem'[x].name = mem[x].name /\ mem'[x].procs = mem[x].procs

LEMMA CallKin ==
  ASSUME House, NEW p \in Pid, parent' = parent, tree' = tree, \A x \in Pid : Stayed(x),
         \A x \in Pid \ {p} : lib'[x] = lib[x], Addressed(p)', Parcels' \subseteq Parcels
  PROVE  KinInv'
<1> USE DEF House
<1>1. ASSUME NEW x \in Pid PROVE Kept(x) /\ Still(x)
  <2>1. Stayed(x)
    OBVIOUS
  <2>2. Addressed(x)'
    <3>1. CASE x = p
      BY <3>1
    <3>2. CASE x # p
      <4>1. lib'[x] = lib[x] /\ Addressed(x)
        BY <3>2 DEF KinInv
      <4> QED
        BY <2>1, <4>1 DEF Stayed, Addressed, AddressedAt
    <3> QED
      BY <3>1, <3>2
  <2>3. pc'[x] = "term_done" => x \notin Pids(tree)
    BY <2>1 DEF Stayed, KinInv, RemovedFirst
  <2>4. Kept(x)
    BY <2>1, <2>2, <2>3 DEF Stayed, Kept, Family, ChildPoints
  <2>5. Still(x)
    BY <2>1 DEF Stayed, Still, Resting, Cloning, Leaving
  <2> QED
    BY <2>4, <2>5
<1>2. Listed
  <2>1. PM \in Pid
    BY PidFacts
  <2>2. Stayed(PM)
    BY <2>1
  <2> QED
    BY <2>2 DEF Stayed, Listed, KinInv, ListSound
<1>3. ParcelsSound'
  BY <1>1, StillSound DEF KinInv
<1> QED
  BY <1>1, <1>2, <1>3, KinStays

LEMMA SignedSender ==
  ASSUME NEW s \in Nat, NEW text \in Str, Signed(text, s)
  PROVE  MessageOf(text) # NULL => MessageOf(text).sender = s
<1>1. Len(text) > 1 /\ text[1] = s /\ text[2] = Colon /\ Len(text) \in Nat /\ text \in Seq(Atom)
  BY DEF Signed, Str
<1>2. s # Colon
  BY AtomAssumption
<1>3. TokenEnd(text, Colon, 1) = 1
  <2>1. 1 \in 1..Len(text) /\ \A k \in 1..1 : text[k] # Colon
    BY <1>1, <1>2
  <2> QED
    BY <1>1, <2>1, TokenEndIs
<1>4. tokenize(text, Colon)[1] = SubSeq(text, 1, 1)
  <2>1. Len(text) > 0 /\ text[1] # Colon
    BY <1>1, <1>2
  <2>2. tokenize(text, Colon)[1] = SubSeq(text, 1, TokenEnd(text, Colon, 1))
    BY <2>1, Beginning
  <2> QED
    BY <1>3, <2>2
<1>5. /\ Len(SubSeq(text, 1, 1)) = 1 /\ SubSeq(text, 1, 1)[1] = s
  <2>1. \A k \in 1..1 : text[k] \in Atom
    BY <1>1
  <2>2. /\ Len(SubSeq(text, 1, 1)) = 1 - 1 + 1
        /\ \A k \in 1..(1 - 1 + 1) : SubSeq(text, 1, 1)[k] = text[1 + k - 1]
    BY <2>1, SubSeqProperties
  <2> QED
    BY <1>1, <2>2
<1>6. atol(tokenize(text, Colon)[1]) = s
  BY <1>4, <1>5 DEF atol
<1> QED
  BY <1>6 DEF MessageOf

LEMMA MessageKin ==
  ASSUME House, NEW p \in Pid, tree' = tree, MessageStep(p)
  PROVE  KinInv'
<1> USE DEF House
<1>1. /\ TypeInv /\ lib \in [Pid -> SoundLib] /\ lib[p] \in LibType /\ fifo \in Seq(LetterType)
      /\ UNCHANGED <<pc, mem, parent>>
      /\ \A x \in Pid \ {p} : lib'[x] = lib[x]
  <2>1. lib \in [Pid -> SoundLib] /\ fifo \in Seq(LetterType) /\ TypeInv
    BY Shape DEF CalmInv, TypeInv, KernelInv
  <2>2. UNCHANGED <<pc, mem, parent>>
    BY DEF MessageStep, WriteText, NotifyReceiver, CheckFlags, Suspend, ReadText, ResetFlags
  <2>3. ReadText(p) => ReadToEnd(p)
    BY ReadsWhole
  <2>4. \A x \in Pid \ {p} : lib'[x] = lib[x]
    BY <2>1, <2>3
    DEF MessageStep, WriteText, NotifyReceiver, CheckFlags, Suspend, ReadToEnd, ResetFlags
  <2> QED
    BY <2>1, <2>2, <2>4 DEF SoundLib
<1>2. \A x \in Pid : Stayed(x)
  BY <1>1 DEF Stayed
<1>3. \A x \in Pid \ {p} : Carried(x)' = Carried(x)
  BY <1>1 DEF Carried
<1>4. Addressed(p) /\ OpenAt(pc[p], lib[p]) /\ TextAt(p)
  BY DEF KinInv, CalmInv, Order, Discipline, CallsOpen, TextInv
<1>5. ASSUME fifo' = fifo, Carried(p)' \subseteq Carried(p) PROVE Parcels' \subseteq Parcels
  <2>1. OnItsWay' = OnItsWay
    BY <1>5 DEF OnItsWay
  <2> QED
    BY <1>3, <1>5, <2>1 DEF Parcels
<1>6. CASE WriteText(p)
  <2>1. /\ lib[p].at = "write" /\ fifo' = Append(fifo, Letter(lib[p].pid, lib[p].text))
        /\ lib'[p].at = "kill"
    BY <1>1, <1>6 DEF WriteText, LibType
  <2>2. fifo = <<>>
    BY <2>1, WritesAlone
  <2>3. PICK letter : letter = Letter(lib[p].pid, lib[p].text)
    OBVIOUS
  <2>4. fifo' = <<letter>>
    BY <2>1, <2>2, <2>3
  <2>5. OnItsWay' = {Parcel(letter.to, MessageOf(letter.text))}
    <3>1. Len(fifo') = 1 /\ fifo'[1] = letter /\ 1..1 = {1}
      BY <2>4
    <3> QED
      BY <3>1 DEF OnItsWay
  <2>6. OnItsWay' = Carried(p)
    BY <2>1, <2>3, <2>5 DEF Carried, Letter
  <2>7. Carried(p)' = {}
    BY <2>1 DEF Carried
  <2>8. Parcels' \subseteq Parcels
    BY <1>3, <2>6, <2>7 DEF Parcels
  <2>9. Addressed(p)'
    BY <1>1, <1>4, <2>1 DEF Addressed, AddressedAt, OpenAt, Sending, Answering
  <2> QED
    BY <1>1, <1>2, <2>8, <2>9, CallKin
<1>7. CASE NotifyReceiver(p)
  <2>1. lib[p].at = "kill" /\ lib'[p].at = "ret" /\ fifo' = fifo
    BY <1>1, <1>7 DEF NotifyReceiver, LibType
  <2>2. pc[p] \in Sending \union Answering
    BY <1>4, <2>1 DEF OpenAt
  <2>3. Carried(p)' = {}
    BY <1>1, <2>1, <2>2 DEF Carried, Reading, Sending, Answering
  <2>4. Addressed(p)'
    BY <1>1, <1>4, <2>2 DEF Addressed, AddressedAt, Sending, Answering
  <2> QED
    BY <1>1, <1>2, <1>5, <2>1, <2>3, <2>4, CallKin
<1>8. CASE CheckFlags(p) \/ Suspend(p)
  <2>1. /\ lib[p].at \in {"check", "suspend"} /\ lib'[p].at \in {"read", "suspend", "asleep"}
        /\ lib'[p].pid = lib[p].pid /\ fifo' = fifo
    BY <1>1, <1>8 DEF CheckFlags, Suspend, LibType
  <2>2. Carried(p)' = {}
    BY <2>1 DEF Carried
  <2>3. Addressed(p)'
    BY <1>1, <1>4, <2>1 DEF Addressed, AddressedAt
  <2> QED
    BY <1>1, <1>2, <1>5, <2>1, <2>2, <2>3, CallKin
<1>9. CASE ReadText(p)
  <2>1. Len(fifo) = 1 /\ fifo[1].to = p /\ ReadToEnd(p) /\ lib[p].at = "read" /\ lib[p].text = <<>>
    BY <1>4, <1>9, ReadsWhole DEF ReadText, TextAt
  <2>2. PICK text : text = fifo[1].text
    OBVIOUS
  <2>3. text \in Str /\ fifo[1] = Head(fifo) /\ Tail(fifo) = <<>>
    <3>1. ASSUME NEW S, NEW s \in Seq(S), Len(s) = 1
          PROVE  s[1] \in S /\ s[1] = Head(s) /\ Tail(s) = <<>>
      <4>1. s # <<>> /\ s[1] \in S /\ s[1] = Head(s)
        BY <3>1
      <4>2. PICK rest : rest = Tail(s)
        OBVIOUS
      <4>3. rest \in Seq(S) /\ Len(rest) = 0
        BY <3>1, <4>1, <4>2
      <4>4. rest = <<>>
        BY <4>3
      <4> QED
        BY <4>1, <4>2, <4>4
    <3>2. fifo[1] \in LetterType /\ fifo[1] = Head(fifo) /\ Tail(fifo) = <<>>
      BY <1>1, <2>1, <3>1
    <3> QED
      BY <2>2, <3>2 DEF LetterType
  <2>4. lib[p].text \o Head(fifo).text = text
    BY <2>1, <2>2, <2>3 DEF Str
  <2>5. fifo' = <<>> /\ lib'[p].at = "reset" /\ lib'[p].msg = MessageOf(text)
    BY <1>1, <2>1, <2>3, <2>4 DEF ReadToEnd, LibType
  <2>6. OnItsWay = {Parcel(p, MessageOf(text))}
    <3>1. 1..Len(fifo) = {1}
      BY <2>1
    <3> QED
      BY <2>1, <2>2, <3>1 DEF OnItsWay
  <2>7. OnItsWay' = {} /\ Carried(p)' = {Parcel(p, MessageOf(text))}
    BY <2>5 DEF OnItsWay, Carried
  <2>8. Parcels' \subseteq Parcels
    BY <1>3, <2>6, <2>7 DEF Parcels
  <2>9. ASSUME pc[p] = "term_reply", MessageOf(text) # NULL PROVE MessageOf(text).sender = PM
    <3>1. lib[p].pid = PM
      BY <1>4, <2>1, <2>9 DEF Addressed, AddressedAt
    <3>2. lib[p].message_sender = PM /\ lib[p].unread_flag
      BY <1>4, <2>1, <3>1 DEF TextAt, OpenAt, PM, NoPid
    <3>3. Signed(text, PM)
      BY <1>4, <2>1, <2>2, <3>2 DEF TextAt, Holds
    <3>4. PM \in Nat
      BY DEF PM
    <3> QED
      BY <2>3, <2>9, <3>3, <3>4, SignedSender
  <2>10. Addressed(p)'
    BY <1>1, <1>4, <2>5, <2>9 DEF Addressed, AddressedAt
  <2> QED
    BY <1>1, <1>2, <2>8, <2>10, CallKin
<1>10. CASE ResetFlags(p)
  <2>1. /\ lib[p].at = "reset" /\ lib'[p].at = "ret" /\ lib'[p].msg = lib[p].msg /\ fifo' = fifo
    BY <1>1, <1>10 DEF ResetFlags, LibType
  <2>2. Carried(p)' \subseteq Carried(p)
    BY <2>1 DEF Carried
  <2>3. Addressed(p)'
    BY <1>1, <1>4, <2>1 DEF Addressed, AddressedAt
  <2> QED
    BY <1>1, <1>2, <1>5, <2>1, <2>2, <2>3, CallKin
<1> QED
  BY <1>6, <1>7, <1>8, <1>9, <1>10 DEF MessageStep

\* A handler that only leaves a flag.
LEMMA WokenKin ==
  ASSUME House, NEW p \in Pid, parent' = parent, tree' = tree, fifo' = fifo,
         pc[p] \notin Gone, ~Busy(p) \/ pc[p] \in ChildPoints,
         pc'[p] \in AfterSignal(p),
         \A x \in Pid \ {p} :
           lib'[x] = lib[x] /\ (pc'[x] = pc[x] \/ (pc[x] = "zombie" /\ pc'[x] = "dead")),
         lib'[p].at = WokenAt(lib[p].at), lib'[p].pid = lib[p].pid,
         lib'[p].text = lib[p].text, lib'[p].msg = lib[p].msg,
         \A x \in Pid : /\ mem'[x].prog = mem[x].prog /\ mem'[x].peer = mem[x].peer
                        /\ mem'[x].name = mem[x].name /\ mem'[x].procs = mem[x].procs
  PROVE  KinInv'
<1> USE DEF House
<1>1. \/ pc'[p] = pc[p]
      \/ pc[p] = "asleep" /\ pc'[p] = "flag"
      \/ pc[p] = "waitpid" /\ pc'[p] = "poll"
  BY HandlerPoint
<1>2. \A x \in Pid : Stayed(x)
  BY <1>1 DEF Stayed
<1>3. \/ lib'[p].at = lib[p].at
      \/ lib[p].at = "asleep" /\ lib'[p].at = "check"
  BY DEF WokenAt
<1>4. Addressed(p)'
  <2>1. Addressed(p)
    BY DEF KinInv
  <2> QED
    BY <1>1, <1>3, <2>1 DEF Addressed, AddressedAt
<1>5. Carried(p)' \subseteq Carried(p)
  BY <1>1, <1>3 DEF Carried, Reading
<1>6. \A x \in Pid \ {p} : Carried(x)' \subseteq Carried(x)
  BY DEF Carried, Reading
<1>7. OnItsWay' = OnItsWay
  BY DEF OnItsWay
<1>8. Parcels' \subseteq Parcels
  BY <1>5, <1>6, <1>7 DEF Parcels
<1> QED
  BY <1>2, <1>4, <1>8, CallKin

LEMMA HandlersKin ==
  ASSUME House, NEW p \in Pid, tree' = tree,
         set_unread_flag(p) \/ sigterm_handler(p) \/ remove_zombie(p)
  PROVE  KinInv'
<1> USE DEF House
<1>1. /\ TypeInv /\ pc \in [Pid -> Points] /\ lib \in [Pid -> SoundLib] /\ lib[p] \in LibType
      /\ mem \in [Pid -> SoundMem] /\ mem[p] \in MemType
  BY Shape DEF CalmInv, SoundLib, SoundMem
<1>2. CASE set_unread_flag(p)
  <2>1. /\ UNCHANGED <<parent, fifo, mem>> /\ pc[p] \notin Gone
        /\ \E point \in AfterSignal(p) : pc' = [pc EXCEPT ![p] = point]
        /\ lib'[p].at = WokenAt(lib[p].at) /\ lib'[p].pid = lib[p].pid
        /\ lib'[p].text = lib[p].text /\ lib'[p].msg = lib[p].msg
        /\ \A x \in Pid \ {p} : lib'[x] = lib[x]
    BY <1>1, <1>2 DEF set_unread_flag, Alive, LibType
  <2>2. HasTurn(p, "usr1") /\ "usr1" \in Claims
    BY <1>2 DEF set_unread_flag, HasTurn, Claims
  <2>3. Only(p, "usr1")
    BY <2>2, Holder DEF CalmInv, Turn
  <2>4. ~Busy(p)
    BY <2>3 DEF Only
  <2>5. pc'[p] \in AfterSignal(p) /\ \A x \in Pid \ {p} : pc'[x] = pc[x]
    BY <1>1, <2>1
  <2> QED
    BY <2>1, <2>4, <2>5, WokenKin
<1>3. CASE sigterm_handler(p)
  <2>1. /\ UNCHANGED <<parent, fifo>> /\ pc[p] \in ChildPoints
        /\ \E point \in AfterSignal(p) : pc' = [pc EXCEPT ![p] = point]
        /\ lib'[p].at = WokenAt(lib[p].at) /\ lib'[p].pid = lib[p].pid
        /\ lib'[p].text = lib[p].text /\ lib'[p].msg = lib[p].msg
        /\ \A x \in Pid \ {p} : lib'[x] = lib[x]
    BY <1>1, <1>3 DEF sigterm_handler, LibType
  <2>2. \A x \in Pid : /\ mem'[x].prog = mem[x].prog /\ mem'[x].peer = mem[x].peer
                       /\ mem'[x].name = mem[x].name /\ mem'[x].procs = mem[x].procs
    BY <1>1, <1>3 DEF sigterm_handler, MemType
  <2>3. pc'[p] \in AfterSignal(p) /\ \A x \in Pid \ {p} : pc'[x] = pc[x]
    BY <1>1, <2>1
  <2>4. pc[p] \notin Gone
    BY <2>1 DEF ChildPoints, Gone
  <2> QED
    BY <2>1, <2>2, <2>3, <2>4, WokenKin
<1>4. CASE remove_zombie(p)
  <2>1. /\ UNCHANGED <<parent, fifo, mem>> /\ pc[p] \in ChildPoints
        /\ lib'[p].at = WokenAt(lib[p].at) /\ lib'[p].pid = lib[p].pid
        /\ lib'[p].text = lib[p].text /\ lib'[p].msg = lib[p].msg
        /\ \A x \in Pid \ {p} : lib'[x] = lib[x]
    BY <1>1, <1>4 DEF remove_zombie, LibType
  <2>2. PICK q \in Zombies(p), point \in AfterSignal(p) : pc' = [pc EXCEPT ![q] = "dead", ![p] = point]
    BY <1>4 DEF remove_zombie
  <2>3. q \in Pid /\ pc[q] = "zombie"
    BY DEF Zombies
  <2>4. /\ pc'[p] \in AfterSignal(p)
        /\ \A x \in Pid \ {p} : pc'[x] = pc[x] \/ (pc[x] = "zombie" /\ pc'[x] = "dead")
    BY <1>1, <2>2, <2>3
  <2>5. pc[p] \notin Gone
    BY <2>1 DEF ChildPoints, Gone
  <2> QED
    BY <2>1, <2>4, <2>5, WokenKin
<1> QED
  BY <1>2, <1>3, <1>4

\* A process that SIGTERM kills before it has a handler for it remains in the tree.
LEMMA BootKin ==
  ASSUME House, NEW p \in Pid, tree' = tree, KilledAtBoot(p)
  PROVE  KinInv'
<1> USE DEF House
<1>1. /\ pc[p] = "boot" /\ sig[p].term # NoPid /\ UNCHANGED <<parent, fifo>>
      /\ pc'[p] = "killed" /\ lib'[p] = BlankLib
      /\ \A x \in Pid \ {p} : pc'[x] = pc[x] /\ lib'[x] = lib[x] /\ mem'[x] = mem[x]
  BY Shape DEF CalmInv, KilledAtBoot
<1>2. Alone(p)
  <2>1. HasTurn(p, "term") /\ "term" \in Claims \ {"usr1", "unread"}
    BY <1>1 DEF HasTurn, Claims
  <2>2. Only(p, "term")
    BY <2>1, Holder DEF CalmInv, Turn
  <2>3. lib[p].at \notin {"write", "kill"}
    BY <2>2 DEF Only, Busy, BusyAt
  <2> QED
    BY <2>1, <2>2, <2>3, HolderAlone
<1>3. p # PM /\ PM \in Pid
  BY <1>1, Manager, PidFacts DEF CalmInv, Managing, ManagerPoints
<1>4. ASSUME NEW x \in Pid PROVE Kept(x)
  <2>1. CASE x = p
    BY <1>1, <2>1 DEF Kept, Addressed, AddressedAt, ChildPoints, Family
  <2>2. CASE x # p
    <3>1. Addressed(x)'
      BY <1>1, <2>2 DEF KinInv, Addressed
    <3> QED
      BY <1>1, <2>2, <3>1 DEF Kept, KinInv, RemovedFirst
  <2> QED
    BY <2>1, <2>2
<1>5. Listed
  BY <1>1, <1>3 DEF Listed, KinInv, ListSound
<1>6. ParcelsSound'
  <2>1. \A x \in Pid \ {p} : Carried(x)' = Carried(x)
    BY <1>1 DEF Carried
  <2>2. Empty(pc'[p], lib'[p])
    BY <1>1 DEF Empty, BlankLib, Reading
  <2> QED
    BY <1>1, <1>2, <2>1, <2>2, AloneSound
<1> QED
  BY <1>4, <1>5, <1>6, KinStays

LEMMA EndKin ==
  ASSUME House, NEW p \in Pid, fifo' = fifo, terminate(p)
  PROVE  KinInv'
<1> USE DEF House
<1>1. /\ TypeInv /\ pc[p] \in ManagerPoints /\ ~sig[p].int /\ lib[p] \in LibType /\ PM \in Pid
  BY Shape, PidFacts DEF CalmInv, Order, Discipline, NoInterrupt, terminate, SoundLib
<1>2. sig[p].term # NoPid
  BY <1>1 DEF terminate, Deliverable
<1>3. HasTurn(p, "term") /\ "term" \in Claims \ {"usr1", "unread"}
  BY <1>2 DEF HasTurn, Claims
<1>4. Only(p, "term")
  BY <1>3, Holder DEF CalmInv, Turn
<1>5. ~Busy(p) /\ lib[p].at \notin {"write", "kill"}
  BY <1>4 DEF Only, Busy, BusyAt
<1>6. Alone(p)
  BY <1>3, <1>4, <1>5, HolderAlone
<1>7. pc[p] # "exec"
  BY <1>1, <1>5
  DEF Busy, BusyAt, CalmInv, Order, Discipline, CallsOpen, OpenAt, LibType, CallPoints, Sending,
      Answering, Receiving
<1>8. p = PM /\ pc[p] \in Managing
  BY <1>1, <1>7, Manager DEF CalmInv, Managing
<1>9. CASE Exit(p) /\ DropTree(p)
  <2>1. tree' = tree
    BY <1>8, <1>9 DEF DropTree, tree
  <2>2. pc[p] \notin Gone \union (ChildPoints \ {"term_done"}) \union {"boot"}
    BY <1>8 DEF Managing, ManagerPoints, Gone, ChildPoints
  <2> QED
    BY <1>9, <2>1, <2>2, ExitKin DEF Exit
<1>10. ASSUME NEW s, NEW l, NEW m, Goto(PM, "cleanup", l, m), UNCHANGED <<parent, trees>>,
              l = [lib[p] EXCEPT !.at = "ret", !.pid = NoPid, !.text = <<>>, !.msg = NULL],
              m = [ExitingManager(p) EXCEPT !.masked = @ \union {s}]
       PROVE  KinInv'
  <2>1. l.at = "ret"
    BY <1>1, <1>10 DEF LibType
  <2>2. Empty("cleanup", l)
    BY <2>1 DEF Empty, Reading
  <2>3. m.procs = <<>>
    BY <1>10 DEF ExitingManager, NewCommand, BlankMem
  <2>4. ListedAt("cleanup", m)
    BY <2>3 DEF ListedAt
  <2>5. tree' = tree
    BY <1>10 DEF tree
  <2> QED
    BY <1>8, <1>10, <2>2, <2>4, <2>5, ManagerGoes DEF Managing, ManagerPoints
<1> QED
  BY <1>8, <1>9, <1>10 DEF terminate

-----------------------------------------------------------------------------
(***************************************************************************)
(* The theorems.                                                           *)
(***************************************************************************)
LEMMA InitKin == Init => KinInv
<1> SUFFICES ASSUME Init PROVE KinInv
  OBVIOUS
<1>1. /\ fifo = <<>> /\ PM \in Pid
      /\ \A p \in Pid : lib[p] = BlankLib /\ pc[p] \in {"readline", "unborn"}
      /\ pc[PM] = "readline"
  BY PidFacts DEF Init
<1>2. Parcels = {}
  <2>1. \A p \in Pid : Carried(p) = {}
    BY <1>1 DEF Carried, BlankLib, Reading
  <2>2. OnItsWay = {}
    BY <1>1 DEF OnItsWay
  <2> QED
    BY <2>1, <2>2 DEF Parcels
<1>3. ParcelsSound
  BY <1>2 DEF ParcelsSound
<1>4. KinInTree
  <2>1. tree = RootOnly(PM, InitPid, pmanager)
    BY <1>1 DEF Init, tree
  <2>2. Len(tree) = 1
    BY <2>1 DEF RootOnly
  <2> QED
    BY <2>2 DEF KinInTree
<1>5. RemovedFirst
  BY <1>1 DEF RemovedFirst
<1>6. \A p \in Pid : Addressed(p)
  BY <1>1 DEF Addressed, AddressedAt
<1>7. ListSound
  <2>1. mem[PM].procs = <<>>
    BY <1>1 DEF Init, NewCommand, BlankMem
  <2> QED
    BY <1>1, <2>1 DEF ListSound
<1> QED
  BY <1>3, <1>4, <1>5, <1>6, <1>7 DEF KinInv

LEMMA StepKin ==
  ASSUME PoliteScript, House, Rooted', NodesKept, [MailStep]_vars
  PROVE  KinInv'
<1>0. CalmInv
  BY DEF House
<1>1. CASE UNCHANGED vars
  BY <1>1, SameKin DEF vars, managerVars, tree
<1>2. CASE MailStep
  <2>1. \A p \in Pid : ~CopyCleansUp(p) /\ ~CloneRefused(p)
    BY <1>2 DEF MailStep, Incident
  <2>2. CASE UserStep
    <3>1. ReadLine \/ EndOfInput
      BY <2>2 DEF UserStep
    <3>2. tree' = tree
      BY <1>0, <3>1, UserPlain
    <3> QED
      BY <3>1, <3>2, UserKin
  <2>3. ASSUME NEW p \in Pid, ProcessStep(p)
        PROVE  KinInv'
    <3>1. CASE (MessageStep(p) \/ ChildStep(p) \/ CommandStep(p)) /\ UNCHANGED managerVars
      <4>1. tree' = tree
        BY <3>1 DEF managerVars, tree
      <4> QED
        BY <2>1, <3>1, <4>1, MessageKin, ChildKin, CommandKin
    <3>2. CASE ManagerStep(p) /\ ~message_handler(p)
      <4>1. tree' = tree
        BY <1>0, <2>1, <3>2, ManagerPlain
      <4> QED
        BY <2>1, <3>2, <4>1, ExecKin, PollKin, WaitpidKin, AckKin DEF ManagerStep
    <3>3. CASE message_handler(p)
      BY <3>3, HandlerKin
    <3> QED
      BY <2>3, <3>1, <3>2, <3>3 DEF ProcessStep
  <2>4. ASSUME NEW p \in Pid, SignalStep(p)
        PROVE  KinInv'
    <3>1. ~DieOfInterrupt(p)
      BY <1>0 DEF CalmInv, Order, Discipline, NoInterrupt, DieOfInterrupt, Dying, Interrupted
    <3>2. ((set_unread_flag(p) \/ ChildSignal(p)) /\ UNCHANGED trees) \/ terminate(p)
      BY <2>4, <3>1 DEF SignalStep, managerVars
    <3>3. tree' = tree
      BY <1>0, <3>2, SignalPlain
    <3>4. CASE set_unread_flag(p) \/ ChildSignal(p)
      BY <3>3, <3>4, HandlersKin, BootKin DEF ChildSignal
    <3>5. CASE terminate(p)
      <4>1. fifo' = fifo
        BY <3>5 DEF terminate
      <4> QED
        BY <3>5, <4>1, EndKin
    <3> QED
      BY <3>2, <3>4, <3>5
  <2> QED
    BY <1>2, <2>2, <2>3, <2>4 DEF MailStep, Next, Incident
<1> QED
  BY <1>1, <1>2

-----------------------------------------------------------------------------
LEMMA TableIsRooted == Table!IInv => Rooted
<1> SUFFICES ASSUME Table!IInv PROVE Rooted
  OBVIOUS
<1>1. tree \in Seq(Table!NodeType) /\ Len(tree) \in Nat
  BY DEF Table!IInv, Table!TypeOK
<1>2. Len(tree) \in Nat \ {0} /\ tree[1].pid = PM /\ tree[1].depth = 0
  BY <1>1 DEF Table!IInv, Table!RootFirst, Table!Node
<1>3. \A i, j \in 1..Len(tree) : tree[i].pid = tree[j].pid => i = j
  BY DEF Table!IInv, Table!PidsUnique
<1>4. \A i \in 2..Len(tree) : \E j \in 1..(i-1) :
        tree[j].pid = tree[i].ppid /\ tree[i].depth = tree[j].depth + 1
  BY DEF Table!IInv, Table!ParentsInTree, Table!UnderParent
<1>5. \A i \in 1..Len(tree) : tree[i].depth \in Nat
  <2>1. \A i \in 1..Len(tree) : tree[i] \in Table!NodeType
    BY <1>1
  <2> QED
    BY <2>1 DEF Table!NodeType
<1> QED
  BY <1>2, <1>3, <1>4, <1>5 DEF Rooted

\* Nor does the node change when the tree does not.
LEMMA KeptAnyhow == Rooted /\ [Table!NodeKept]_tree => NodesKept
<1> SUFFICES ASSUME Rooted, [Table!NodeKept]_tree PROVE NodesKept
  OBVIOUS
<1>1. CASE Table!NodeKept
  BY <1>1 DEF Table!NodeKept, NodesKept
<1>2. CASE tree' = tree
  <2> SUFFICES ASSUME NEW i \in 1..Len(tree), NEW j \in 1..Len(tree'), tree[i].pid = tree'[j].pid
               PROVE  tree[i] = tree'[j]
    BY DEF NodesKept
  <2>1. i = j
    BY <1>2 DEF Rooted
  <2> QED
    BY <1>2, <2>1
<1> QED
  BY <1>1, <1>2

LEMMA KinMatches == Rooted /\ KinInTree => TreeMatchesKernel
<1> SUFFICES ASSUME Rooted, KinInTree, NEW i \in 1..Len(tree), tree[i].depth >= 2
             PROVE  Managed(tree[i].pid) /\ parent[tree[i].pid] = tree[i].ppid
  BY DEF TreeMatchesKernel
<1>1. i \in 2..Len(tree)
  BY DEF Rooted
<1>2. PICK j \in 1..(i-1) : tree[j].pid = tree[i].ppid /\ tree[i].depth = tree[j].depth + 1
  BY <1>1 DEF Rooted
<1>3. j \in 1..Len(tree) /\ 1 \in 1..Len(tree)
  BY <1>1, <1>2 DEF Rooted
<1>4. tree[i].ppid # PM
  <2>1. tree[j].depth # 0
    BY <1>2
  <2>2. j # 1
    BY <2>1 DEF Rooted
  <2> QED
    BY <1>2, <1>3, <2>2 DEF Rooted
<1> QED
  BY <1>1, <1>4 DEF KinInTree, Managed

LEMMA MailIsCalm == MailSpec => CalmSpec
<1>1. [MailStep]_vars => [Next /\ ~Incident]_vars
  BY DEF MailStep
<1> QED
  BY <1>1, PTL DEF MailSpec, CalmSpec, MailStep

\* The tree is a tree, and what it says of a family is so.
LEMMA FamilyInvHolds ==
  ASSUME PoliteScript
  PROVE  MailSpec => [](KinInv /\ Rooted)
<1>1. Table!IInv => Rooted
  BY TableIsRooted
<1>2. /\ CalmInv /\ TextInv /\ RequestInv /\ Rooted /\ Rooted' /\ KinInv
      /\ [Table!NodeKept]_tree /\ [MailStep]_vars
      => KinInv'
  BY KeptAnyhow, StepKin DEF House
<1>3. MailSpec => [](CalmInv /\ RequestInv)
  BY MailIsCalm, RequestInvHolds
<1>4. MailSpec => []Table!IInv
  BY MailIsCalm, TreeStays
<1>5. MailSpec => [][Table!NodeKept]_tree
  BY MailIsCalm, NodesStayPut DEF Table!NodesStay
<1> QED
  BY <1>1, <1>2, <1>3, <1>4, <1>5, InitKin, MailInvHolds, PTL DEF MailSpec, MailStep

\* What a message says of the processes is so when it arrives, and a process that
\* exits has been removed from pmanager's tree, however the fork()s, requests,
\* answers and exits of different processes interleave.
THEOREM FamiliesKept ==
  ASSUME PoliteScript
  PROVE  MailSpec => []KinInv
BY FamilyInvHolds, PTL

\* The kernel and pmanager's tree agree on whose child a clone is: a process with
\* clones in the tree has not exited, so that SIGCHLD reaches it.
THEOREM KernelAgrees ==
  ASSUME PoliteScript
  PROVE  MailSpec => []TreeMatchesKernel
<1>1. KinInv /\ Rooted => TreeMatchesKernel
  BY KinMatches DEF KinInv
<1> QED
  BY <1>1, FamilyInvHolds, PTL
=============================================================================
