----------------------------- MODULE TurnProofs -----------------------------
(***************************************************************************)
(* The first part: type correctness of the whole shell, for every script,  *)
(* every number of processes and every order of signals: whatever names    *)
(* are typed and however texts are torn, no program sends to, waits for or *)
(* prints what is not a pid, and what its decoders let through is clean.   *)
(*                                                                         *)
(* The second part: the programs take turns, for every script and every    *)
(* number of processes, as long as no incident has happened: at any moment *)
(* one process at most has something to do, so the FIFO never has two      *)
(* readers.  A step either leaves the turn with whoever has it (KeepTurn), *)
(* or is taken by the process that has the turn and hands it on            *)
(* (PassTurn).                                                             *)
(***************************************************************************)
EXTENDS Turns, WireProofs

\* A string without a delimiter.
Without(delim, str) == \A i \in 1..Len(str) : str[i] # delim

\* A call of message.c: a text is sent to a pid, and a message that could be
\* decoded has no ':' in its content.
SoundLib ==
  {l \in LibType :
     /\ l.at \in {"write", "kill"} => l.pid \in Nat
     /\ l.msg # NULL => Without(Colon, l.msg.content)}

\* SIGTERM came from a process that can be resumed.
SoundMem == {m \in MemType : m.sigterm_flag = 1 => m.sigterm_sender \in Pid}

\* The names of a tree can be sent and decoded again.
CleanTree == {t \in Seq(TreeNode) : \A i \in 1..Len(t) : CleanName(t[i].name)}

\* The points at which a process has somebody to resume or to go on sending to.
Owing == {"clone_asked", "clone_reply", "clone_sent", "clone_added", "list_sent", "list_ack"}

SoundPoint(point, m) ==
  /\ point \in Owing => m.peer \in Nat
  /\ point \in {"term_sent", "term_reply"} => m.sigterm_flag = 1

Processes ==
  /\ pc \in [Pid -> Points]
  /\ lib \in [Pid -> SoundLib]
  /\ mem \in [Pid -> SoundMem]
  /\ \A p \in Pid : SoundPoint(pc[p], mem[p])

Signals == sig \in [Pid -> SignalType]

Kinship ==
  /\ parent \in [Pid -> Pid \union {InitPid}]
  /\ nextPid \in Pid \union {MaxPid + 1}

\* What every program can change.
KernelInv == Processes /\ Signals /\ Kinship /\ fifo \in Seq(LetterType)

\* What pmanager and its user change.
ManagerInv ==
  /\ linked \in BOOLEAN
  /\ line \in 0..Len(Script)
  /\ outside \subseteq UserSignals
  /\ trees \in [Pid -> CleanTree]

TypeInv == KernelInv /\ ManagerInv

-----------------------------------------------------------------------------
(***************************************************************************)
(* Constants.                                                              *)
(***************************************************************************)
LEMMA PidFacts ==
  /\ MaxPid \in Nat
  /\ PM \in Pid
  /\ Pid \subseteq Nat
  /\ 2 \in Pid \union {MaxPid + 1}
<1>1. Len(Script) \in Nat
  BY ScriptAssumption
<1> QED
  BY <1>1, ScriptAssumption DEF Pid, PM

LEMMA AtomFacts ==
  /\ MsgType \subseteq Atom
  /\ Nat \subseteq Atom
  /\ Pad \in Atom
  /\ Colon \in Atom
  /\ Semi \in Atom
  /\ <<Pad>> \in Str
  /\ <<>> \in Str
<1>1. Pad \in Atom
  BY DEF Atom
<1> QED
  BY <1>1 DEF Atom, Str

\* What is written and named is made of atoms.
LEMMA TextTypes ==
  ASSUME NEW a \in Atom, NEW b \in Atom, NEW s \in Str, NEW n \in Nat
  PROVE  /\ MessageText(a, b, s) \in Str
         /\ proc_node_tostr(a, b, s) \in Str
         /\ CloneName(s, n) \in Str
  BY AtomFacts DEF MessageText, proc_node_tostr, CloneName, Str

LEMMA Blank == BlankLib \in SoundLib /\ BlankMem \in SoundMem /\ NoSignals \in SignalType
  BY AtomFacts DEF BlankLib, BlankMem, NoSignals, SoundLib, SoundMem, LibType, MemType, SignalType,
     CallPoints, NoPid, InitPid

-----------------------------------------------------------------------------
(***************************************************************************)
(* The calls of message.c.                                                 *)
(***************************************************************************)
LEMMA SendSound ==
  ASSUME Processes, NEW p \in Pid, NEW to \in Nat, NEW type \in MsgType, NEW content \in Str
  PROVE  message_send(p, to, type, content) \in SoundLib
<1>1. MessageText(p, type, content) \in Str
  BY PidFacts, AtomFacts, TextTypes
<1> QED
  BY <1>1 DEF message_send, Processes, SoundLib, LibType, CallPoints

LEMMA WaitSound ==
  ASSUME Processes, NEW p \in Pid, NEW from \in Nat \union {NoPid}
  PROVE  message_wait(p, from) \in SoundLib /\ message_read(p) \in SoundLib
  BY AtomFacts DEF message_wait, message_read, Processes, SoundLib, LibType, CallPoints

LEMMA ForgetSound ==
  ASSUME NEW l \in SoundLib
  PROVE  [l EXCEPT !.msg = NULL] \in SoundLib
  BY DEF SoundLib, LibType

-----------------------------------------------------------------------------
(***************************************************************************)
(* What a step of the kernel does to the processes.                        *)
(***************************************************************************)
LEMMA GotoSound ==
  ASSUME Processes, NEW p \in Pid, NEW point \in Points, NEW l \in SoundLib, NEW m \in SoundMem,
         SoundPoint(point, m), Goto(p, point, l, m)
  PROVE  Processes'
  BY DEF Goto, Processes

LEMMA ForkSound ==
  ASSUME Processes, Kinship, NEW p \in Pid, NEW point \in Points, NEW l \in SoundLib,
         NEW m \in SoundMem, SoundPoint(point, m),
         NEW kidPoint \in Points, NEW kidLib \in SoundLib,
         NEW kidMem \in SoundMem, SoundPoint(kidPoint, kidMem),
         Fork(p, point, l, m, kidPoint, kidLib, kidMem)
  PROVE  Processes' /\ Kinship' /\ nextPid \in Pid
<1>1. nextPid \in Pid /\ nextPid + 1 \in Pid \union {MaxPid + 1}
  BY PidFacts DEF Fork, Kinship, Pid
<1>2. Processes'
  BY <1>1 DEF Fork, Processes
<1> QED
  BY <1>1, <1>2 DEF Fork, Kinship

LEMMA ExitSound ==
  ASSUME Processes, Signals, Kinship, NEW p \in Pid, NEW output \in Nat \union {NoPid},
         ExitPrinting(p, output)
  PROVE  Processes' /\ Signals' /\ Kinship'
<1> USE DEF ExitPrinting, EndProcess
<1>1. Signals'
  BY Blank DEF Signals, SignalType
<1>2. Kinship'
  BY DEF Kinship
<1>3. pc' \in [Pid -> Points] /\ lib' \in [Pid -> SoundLib]
  BY Blank DEF Processes, Points, Gone
<1>4. mem' \in [Pid -> SoundMem]
  <2>1. ASSUME NEW m \in SoundMem  PROVE  [m EXCEPT !.peer = output] \in SoundMem
    BY DEF SoundMem, MemType
  <2>2. \A q \in Pid : mem[q] \in SoundMem /\ [mem[q] EXCEPT !.peer = output] \in SoundMem
    BY <2>1 DEF Processes
  <2> QED
    BY <2>2, Blank DEF Processes
<1>5. \A q \in Pid : SoundPoint(pc'[q], mem'[q])
  <2> TAKE q \in Pid
  <2>1. CASE pc'[q] \in {"zombie", "dead"}
    BY <2>1 DEF SoundPoint, Owing
  <2>2. CASE pc'[q] \notin {"zombie", "dead"}
    <3>1. q # p /\ pc'[q] = pc[q]
      BY <2>2 DEF Processes
    <3>2. mem'[q].sigterm_flag = mem[q].sigterm_flag /\ (pc[q] # "popen" => mem'[q] = mem[q])
      BY <3>1 DEF Processes, SoundMem, MemType
    <3> QED
      BY <3>1, <3>2 DEF Processes, SoundPoint, Owing
  <2> QED
    BY <2>1, <2>2
<1> QED
  BY <1>1, <1>2, <1>3, <1>4, <1>5 DEF Processes

LEMMA PostSound ==
  ASSUME Signals, NEW p \in Pid, NEW q, PostUsr1(q, p) \/ PostTerm(q, p)
  PROVE  Signals'
  BY DEF Signals, SignalType, PostUsr1, PostTerm, Exists

-----------------------------------------------------------------------------
(***************************************************************************)
(* The lists of nodes.                                                     *)
(***************************************************************************)
LEMMA FindByName ==
  ASSUME NEW S, NEW t \in Seq(S), NEW name, proc_node_find_by_name(t, name) # 0
  PROVE  proc_node_find_by_name(t, name) \in 1..Len(t)
<1> DEFINE found == {k \in 1..Len(t) : t[k].name = name}
<1>1. proc_node_find_by_name(t, name) = IF found # {} THEN Min(found) ELSE 0
  BY DEF proc_node_find_by_name, SelectInSeq
<1>2. found \in SUBSET Nat /\ found # {}
  BY <1>1
<1>3. \E m \in found : \A k \in found : m <= k
  BY <1>2, LeastElement
<1>4. Min(found) \in found
  BY <1>3 DEF Min
<1> QED
  BY <1>1, <1>2, <1>4

LEMMA NodeTyped ==
  ASSUME NEW pid \in Nat, NEW ppid \in Nat, NEW name \in Str, NEW depth \in Nat
  PROVE  Node(pid, ppid, name, depth) \in TreeNode /\ Node(pid, ppid, name, depth).name = name
  BY DEF Node, TreeNode

LEMMA RootTyped ==
  ASSUME NEW pid \in Nat, NEW ppid \in Nat, NEW name \in Str
  PROVE  /\ RootOnly(pid, ppid, name) \in Seq(TreeNode)
         /\ CleanName(name) => RootOnly(pid, ppid, name) \in CleanTree
  BY NodeTyped DEF RootOnly, CleanTree

\* A node is added below another one.
LEMMA AddTyped ==
  ASSUME NEW t \in Seq(TreeNode), NEW pid \in Nat, NEW ppid \in Nat, NEW name \in Str,
         CanAdd(t, ppid)
  PROVE  /\ proc_node_add(t, pid, ppid, name) \in Seq(TreeNode)
         /\ t \in CleanTree /\ CleanName(name) => proc_node_add(t, pid, ppid, name) \in CleanTree
<1> DEFINE i == proc_node_find_by_pid(t, ppid)
           e == SubtreeEnd(t, i) + 1
           x == Node(pid, ppid, name, t[i].depth + 1)
<1>1. i \in 1..Len(t)
  BY FindByPid DEF CanAdd
<1>2. \A k \in 1..Len(t) : t[k].depth \in Nat
  <2>1. \A k \in 1..Len(t) : t[k] \in TreeNode
    OBVIOUS
  <2> QED
    BY <2>1 DEF TreeNode
<1>3. SubtreeEnd(t, i) \in i..Len(t)
  BY <1>1, <1>2, SubtreeEnds
<1>4. x \in TreeNode /\ x.name = name
  <2>1. t[i].depth + 1 \in Nat
    BY <1>1, <1>2
  <2> HIDE DEF i
  <2> QED
    BY <2>1, NodeTyped, SMTT(30)
<1>5. proc_node_add(t, pid, ppid, name) = InsertAt(t, e, x)
  BY DEF proc_node_add
<1>6. e \in 1..(Len(t) + 1)
  <2> HIDE DEF i
  <2> QED
    BY <1>1, <1>3
<1> HIDE DEF i, e, x
<1>7. /\ InsertAt(t, e, x) \in Seq(TreeNode)
      /\ Len(InsertAt(t, e, x)) = Len(t) + 1
      /\ \A k \in 1..(Len(t) + 1) :
           InsertAt(t, e, x)[k] = IF k < e THEN t[k] ELSE IF k = e THEN x ELSE t[k-1]
  BY <1>4, <1>6, Inserted
<1>8. ASSUME t \in CleanTree, CleanName(name), NEW k \in 1..(Len(t) + 1)
      PROVE  CleanName(InsertAt(t, e, x)[k].name)
  <2>1. \A j \in 1..Len(t) : CleanName(t[j].name)
    BY <1>8 DEF CleanTree
  <2>2. CASE k < e
    <3>1. k \in 1..Len(t)
      BY <1>6, <2>2
    <3> QED
      BY <1>7, <2>1, <2>2, <3>1
  <2>3. CASE k = e
    BY <1>4, <1>7, <1>8, <2>3
  <2>4. CASE k > e
    <3>1. k - 1 \in 1..Len(t) /\ ~(k < e) /\ k # e
      BY <1>6, <2>4
    <3> QED
      BY <1>7, <2>1, <3>1
  <2> QED
    BY <1>6, <2>2, <2>3, <2>4
<1> QED
  BY <1>5, <1>7, <1>8 DEF CleanTree

LEMMA RemoveTyped ==
  ASSUME NEW t \in Seq(TreeNode), NEW i \in 1..Len(t)
  PROVE  /\ RemoveAt(t, i) \in Seq(TreeNode)
         /\ t \in CleanTree => RemoveAt(t, i) \in CleanTree
<1>1. /\ RemoveAt(t, i) \in Seq(TreeNode)
      /\ Len(RemoveAt(t, i)) = Len(t) - 1
      /\ \A k \in 1..(Len(t) - 1) : RemoveAt(t, i)[k] = IF k < i THEN t[k] ELSE t[k+1]
  BY Removed
<1>2. ASSUME t \in CleanTree, NEW k \in 1..(Len(t) - 1)
      PROVE  CleanName(RemoveAt(t, i)[k].name)
  <2>1. k \in 1..Len(t) /\ k + 1 \in 1..Len(t)
    OBVIOUS
  <2> QED
    BY <1>1, <1>2, <2>1 DEF CleanTree
<1> QED
  BY <1>1, <1>2 DEF CleanTree

LEMMA ArrayTyped ==
  ASSUME NEW t \in Seq(TreeNode), NEW i \in 1..Len(t)
  PROVE  proc_node_get_array(t, i) \in Seq(TreeNode) /\ proc_node_get_array(t, i) # <<>>
<1>0. \A k \in 1..Len(t) : t[k].depth \in Nat
  <2>1. \A k \in 1..Len(t) : t[k] \in TreeNode
    OBVIOUS
  <2> QED
    BY <2>1 DEF TreeNode
<1>1. SubtreeEnd(t, i) \in i..Len(t)
  BY <1>0, SubtreeEnds
<1>2. \A k \in i..SubtreeEnd(t, i) : t[k] \in TreeNode
  BY <1>1
<1> DEFINE e == SubtreeEnd(t, i)
           a == SubSeq(t, i, e)
<1> HIDE DEF e
<1>3. i \in Int /\ e \in Int /\ i <= e /\ \A k \in i..e : t[k] \in TreeNode
  BY <1>1, <1>2 DEF e
<1>4. a \in Seq(TreeNode) /\ Len(a) = e-i+1
  BY <1>3, SubSeqProperties
<1>5. a # <<>>
  <2>1. Len(a) # 0
    BY <1>3, <1>4
  <2> HIDE DEF a
  <2> QED
    BY <1>4, <2>1
<1>6. proc_node_get_array(t, i) = a
  BY DEF proc_node_get_array, e
<1> QED
  BY <1>4, <1>5, <1>6

\* kill_proc_tree() finds a leaf as long as a node is left.
LEMMA VictimExists ==
  ASSUME NEW t \in Seq(TreeNode), t # <<>>
  PROVE  NextVictim(t) \in 1..Len(t) /\ IsLeaf(t, NextVictim(t))
<1> DEFINE leaves == {i \in 1..Len(t) : IsLeaf(t, i)}
<1>1. Len(t) \in leaves /\ leaves \in SUBSET Nat
  BY DEF IsLeaf
<1>2. PICK i \in leaves : \A k \in leaves : i <= k
  BY <1>1, LeastElement
<1>3. \A j \in 1..(i-1) : ~IsLeaf(t, j)
  <2> TAKE j \in 1..(i-1)
  <2>1. j \in 1..Len(t) /\ ~(i <= j)
    BY <1>2
  <2> QED
    BY <1>2, <2>1
<1> QED
  BY <1>2, <1>3 DEF NextVictim

\* What a command does with a row it has received.
LEMMA RowTyped ==
  ASSUME NEW t \in Seq(TreeNode), NEW info \in ProcInfo
  PROVE  /\ print_proc_entry(t, info) \in Seq(TreeNode)
         /\ add_process_to_tree(t, info) \in Seq(TreeNode)
<1>1. info.pid \in Nat /\ info.ppid \in Nat /\ info.name \in Str
  BY DEF ProcInfo
<1>2. print_proc_entry(t, info) \in Seq(TreeNode)
  BY <1>1, NodeTyped DEF print_proc_entry
<1>3. add_process_to_tree(t, info) \in Seq(TreeNode)
  BY <1>1, RootTyped, AddTyped DEF add_process_to_tree
<1> QED
  BY <1>2, <1>3

-----------------------------------------------------------------------------
(***************************************************************************)
(* message.c.                                                              *)
(***************************************************************************)
\* Reading: a text may be whole, torn, or missing.
LEMMA ReadTyped ==
  ASSUME KernelInv, NEW p \in Pid, ReadText(p)
  PROVE  lib' \in [Pid -> SoundLib] /\ fifo' \in Seq(LetterType)
<1>1. lib[p] \in SoundLib /\ lib[p].text \in Str /\ lib \in [Pid -> SoundLib]
  BY DEF KernelInv, Processes, SoundLib, LibType
<1>2. CASE fifo = <<>>
  <2>1. ReadNothing(p)
    BY <1>2 DEF ReadText
  <2>2. [lib[p] EXCEPT !.at = "ret", !.pid = NoPid, !.text = <<>>, !.msg = NULL] \in SoundLib
    BY <1>1, AtomFacts DEF SoundLib, LibType, CallPoints
  <2> QED
    BY <1>1, <2>1, <2>2 DEF ReadNothing, KernelInv
<1>3. CASE fifo # <<>>
  <2>1. Head(fifo) \in LetterType /\ Tail(fifo) \in Seq(LetterType) /\ Head(fifo).text \in Str
    <3>1. Head(fifo) \in LetterType /\ Tail(fifo) \in Seq(LetterType)
      BY <1>3 DEF KernelInv
    <3> QED
      BY <3>1 DEF LetterType
  <2>2. ReadToEnd(p) \/ (ReadAtom(p) /\ Head(fifo).text # <<>>)
    BY <1>3 DEF ReadText
  <2>3. CASE ReadToEnd(p)
    <3> DEFINE text == lib[p].text \o Head(fifo).text
               l == [lib[p] EXCEPT !.at = "reset", !.text = text, !.msg = MessageOf(text)]
    <3>1. text \in Str
      BY <1>1, <2>1 DEF Str
    <3>2. MessageOf(text) \in Message \union {NULL}
      BY <3>1, Decoded
    <3>3. MessageOf(text) # NULL => Without(Colon, MessageOf(text).content)
      <4>1. MessageOf(text) # NULL => IsToken(MessageOf(text).content, text, Colon)
        BY <3>1, Decoded
      <4> QED
        BY <4>1 DEF IsToken, Without
    <3> HIDE DEF text
    <3>4. l \in SoundLib
      BY <1>1, <3>1, <3>2, <3>3 DEF SoundLib, LibType, CallPoints
    <3> HIDE DEF l
    <3>5. lib' = [lib EXCEPT ![p] = l] /\ fifo' = Tail(fifo)
      BY <2>3 DEF ReadToEnd, l, text
    <3> QED
      BY <1>1, <2>1, <3>4, <3>5
  <2>4. CASE ReadAtom(p) /\ Head(fifo).text # <<>>
    <3>1. Head(Head(fifo).text) \in Atom /\ Tail(Head(fifo).text) \in Str
      BY <2>1, <2>4 DEF Str
    <3>2. [lib[p] EXCEPT !.text = Append(@, Head(Head(fifo).text))] \in SoundLib
      <4>1. Append(lib[p].text, Head(Head(fifo).text)) \in Str
        BY <1>1, <3>1 DEF SoundLib, LibType, Str
      <4> QED
        BY <1>1, <4>1 DEF SoundLib, LibType
    <3>3. Letter(Head(fifo).to, Tail(Head(fifo).text)) \in LetterType
      BY <2>1, <3>1 DEF Letter, LetterType
    <3>4. <<Letter(Head(fifo).to, Tail(Head(fifo).text))>> \o Tail(fifo) \in Seq(LetterType)
      BY <2>1, <3>3
    <3> QED
      BY <1>1, <2>4, <3>2, <3>4 DEF ReadAtom
  <2> QED
    BY <2>2, <2>3, <2>4
<1> QED
  BY <1>2, <1>3

LEMMA MessageTyped ==
  ASSUME KernelInv, NEW p \in Pid, MessageStep(p)
  PROVE  KernelInv'
<1>1. lib[p] \in SoundLib /\ lib \in [Pid -> SoundLib] /\ fifo \in Seq(LetterType)
  BY DEF KernelInv, Processes
<1>2. UNCHANGED <<pc, mem, parent, nextPid>> /\ (NotifyReceiver(p) \/ UNCHANGED sig)
  BY DEF MessageStep, WriteText, NotifyReceiver, CheckFlags, Suspend, ReadText, ResetFlags
<1>3. lib' \in [Pid -> SoundLib] /\ fifo' \in Seq(LetterType)
  <2>1. CASE WriteText(p)
    <3>1. Letter(lib[p].pid, lib[p].text) \in LetterType
      BY <1>1, <2>1 DEF WriteText, SoundLib, LibType, Letter, LetterType
    <3>2. [lib[p] EXCEPT !.at = "kill", !.text = <<>>] \in SoundLib
      BY <1>1, <2>1, AtomFacts DEF WriteText, SoundLib, LibType, CallPoints
    <3> QED
      BY <1>1, <2>1, <3>1, <3>2 DEF WriteText
  <2>2. CASE NotifyReceiver(p)
    <3>1. \A status \in {0, -1} : [lib[p] EXCEPT !.at = "ret", !.pid = NoPid, !.status = status] \in SoundLib
      BY <1>1 DEF SoundLib, LibType, CallPoints
    <3> QED
      BY <1>1, <2>2, <3>1 DEF NotifyReceiver
  <2>3. CASE CheckFlags(p) \/ Suspend(p)
    <3>1. \A at \in {"read", "suspend", "asleep"} : [lib[p] EXCEPT !.at = at] \in SoundLib
      BY <1>1 DEF SoundLib, LibType, CallPoints
    <3> QED
      BY <1>1, <2>3, <3>1 DEF CheckFlags, Suspend
  <2>4. CASE ReadText(p)
    BY <2>4, ReadTyped
  <2>5. CASE ResetFlags(p)
    <3>1. [lib[p] EXCEPT !.at = "ret", !.pid = NoPid, !.text = <<>>, !.unread_flag = FALSE,
                         !.message_sender = NoPid] \in SoundLib
      BY <1>1, AtomFacts DEF SoundLib, LibType, CallPoints
    <3> QED
      BY <1>1, <2>5, <3>1 DEF ResetFlags
  <2> QED
    BY <2>1, <2>2, <2>3, <2>4, <2>5 DEF MessageStep
<1>4. Signals'
  BY <1>2, PostSound DEF NotifyReceiver, KernelInv, Signals
<1> QED
  BY <1>2, <1>3, <1>4 DEF KernelInv, Processes, Kinship

-----------------------------------------------------------------------------
(***************************************************************************)
(* The shapes of a step, and the parts of a process's memory.              *)
(***************************************************************************)
LEMMA GotoTyped ==
  ASSUME KernelInv, NEW p \in Pid, NEW point \in Points, NEW l \in SoundLib, NEW m \in SoundMem,
         SoundPoint(point, m), Goto(p, point, l, m),
         UNCHANGED sig \/ \E q \in Nat \union {NoPid} : PostTerm(q, p),
         UNCHANGED <<parent, nextPid, fifo>>
  PROVE  KernelInv'
<1>1. Processes'
  BY GotoSound DEF KernelInv
<1>2. Signals'
  BY PostSound DEF KernelInv, Signals
<1> QED
  BY <1>1, <1>2 DEF KernelInv, Kinship

LEMMA ForkTyped ==
  ASSUME KernelInv, NEW p \in Pid, NEW point \in Points, NEW l \in SoundLib,
         NEW m \in SoundMem, SoundPoint(point, m),
         NEW kidPoint \in Points, NEW kidLib \in SoundLib,
         NEW kidMem \in SoundMem, SoundPoint(kidPoint, kidMem),
         Fork(p, point, l, m, kidPoint, kidLib, kidMem),
         UNCHANGED <<sig, fifo>>
  PROVE  KernelInv' /\ nextPid \in Pid
<1>1. Processes' /\ Kinship' /\ nextPid \in Pid
  BY ForkSound DEF KernelInv
<1> QED
  BY <1>1 DEF KernelInv, Signals

LEMMA ExitTyped ==
  ASSUME KernelInv, NEW p \in Pid, Exit(p), UNCHANGED fifo
  PROVE  KernelInv'
<1>1. EndOfFile \in Nat \union {NoPid}
  BY DEF EndOfFile
<1> QED
  BY <1>1, ExitSound DEF Exit, KernelInv

LEMMA MemFacts ==
  ASSUME NEW m \in SoundMem
  PROVE  /\ m.name \in Str
         /\ m.peer \in Nat \union {NoPid}
         /\ m.kid \in Pid \union {NoPid}
         /\ m.procs \in Seq(TreeNode)
         /\ m.clones_count \in Nat
         /\ m.sigterm_flag = 1 => m.sigterm_sender \in Pid
  BY DEF SoundMem, MemType

LEMMA NewCommandSound ==
  ASSUME NEW prog \in Programs \union {"none", "pmanager", "child", "path"}, NEW name \in Str,
         NEW peer \in Nat \union {NoPid}
  PROVE  NewCommand(prog, name, peer) \in SoundMem
  BY Blank DEF NewCommand, SoundMem, MemType, BlankMem

LEMMA StateFacts ==
  ASSUME KernelInv, NEW p \in Pid
  PROVE  /\ lib[p] \in SoundLib /\ mem[p] \in SoundMem /\ parent[p] \in Nat
         /\ lib[p].msg # NULL => /\ lib[p].msg.sender \in Nat
                                 /\ lib[p].msg.content \in Str
                                 /\ Without(Colon, lib[p].msg.content)
<1>1. lib[p] \in SoundLib /\ mem[p] \in SoundMem
  BY DEF KernelInv, Processes
<1>2. parent[p] \in Nat
  <2>1. parent[p] \in Pid \union {InitPid}
    BY DEF KernelInv, Kinship
  <2> QED
    BY <2>1, PidFacts DEF InitPid, Pid
<1>3. lib[p].msg # NULL => lib[p].msg \in Message /\ Without(Colon, lib[p].msg.content)
  BY <1>1 DEF SoundLib, LibType
<1> QED
  BY <1>1, <1>2, <1>3 DEF Message

-----------------------------------------------------------------------------
(***************************************************************************)
(* child.c.                                                                *)
(***************************************************************************)
LEMMA ChildTyped ==
  ASSUME KernelInv, NEW p \in Pid, ChildStep(p)
  PROVE  KernelInv'
<1> USE DEF Points, ChildPoints, SoundPoint, Owing
<1>1. /\ lib[p] \in SoundLib /\ mem[p] \in SoundMem /\ Processes /\ PM \in Nat
      /\ SoundPoint(pc[p], mem[p])
  BY StateFacts, PidFacts DEF KernelInv, Processes
<1>2. mem[p].sigterm_flag = 1 => mem[p].sigterm_sender \in Nat
  BY <1>1, MemFacts, PidFacts
<1>3. CASE RegisterHandlers(p) \/ Sleep(p)
  BY <1>1, <1>3 DEF RegisterHandlers, Sleep, KernelInv, Processes, Signals, Kinship
<1>4. CASE CheckSigtermFlag(p)
  <2>1. message_send(p, PM, MSG_REMOVE, <<Pad>>) \in SoundLib
    BY <1>1, SendSound, AtomFacts DEF MsgType
  <2> QED
    BY <1>1, <1>4, <2>1, GotoTyped DEF CheckSigtermFlag, Ready
<1>5. CASE CheckUnreadFlag(p)
  <2>1. message_read(p) \in SoundLib
    BY <1>1, WaitSound
  <2> QED
    BY <1>1, <1>5, <2>1, GotoTyped DEF CheckUnreadFlag, Ready
<1>6. CASE GotMessage(p)
  <2>1. CASE lib[p].msg = NULL
    BY <1>6, <2>1, ExitTyped DEF GotMessage, Crash
  <2>2. CASE lib[p].msg # NULL /\ lib[p].msg.type = MSG_SPAWN
    <3>1. lib[p].msg.sender \in Nat
      BY <2>2, StateFacts
    <3>2. NextName(p) \in Str
      <4>1. mem[p].clones_count + 1 \in Nat /\ mem[p].name \in Str
        BY <1>1, MemFacts
      <4> QED
        BY <4>1, AtomFacts, TextTypes DEF NextName
    <3>3. message_send(p, PM, MSG_INFO, NextName(p)) \in SoundLib
      BY <1>1, <3>2, SendSound DEF MsgType
    <3>4. /\ [mem[p] EXCEPT !.peer = lib[p].msg.sender] \in SoundMem
          /\ [mem[p] EXCEPT !.peer = lib[p].msg.sender].peer \in Nat
      BY <1>1, <3>1 DEF SoundMem, MemType
    <3> QED
      BY <1>6, <2>2, <3>3, <3>4, GotoTyped DEF GotMessage
  <2>3. CASE lib[p].msg # NULL /\ lib[p].msg.type # MSG_SPAWN
    BY <1>1, <1>6, <2>3, ForgetSound, GotoTyped DEF GotMessage
  <2> QED
    BY <2>1, <2>2, <2>3
<1>7. CASE AwaitRemoval(p)
  <2>1. message_wait(p, PM) \in SoundLib
    BY <1>1, WaitSound
  <2>2. mem[p].sigterm_flag = 1 /\ resume_process(p, mem[p].sigterm_sender) \in SoundLib
    BY <1>1, <1>2, <1>7, SendSound, AtomFacts DEF AwaitRemoval, Ready, resume_process, MsgType
  <2> QED
    BY <1>1, <1>7, <2>1, <2>2, GotoTyped DEF AwaitRemoval
<1>8. CASE GotRemoval(p)
  <2>1. CASE lib[p].msg = NULL
    BY <1>8, <2>1, ExitTyped DEF GotRemoval, Crash
  <2>2. CASE lib[p].msg # NULL
    <3>1. mem[p].sigterm_flag = 1 /\ resume_process(p, mem[p].sigterm_sender) \in SoundLib
      BY <1>1, <1>2, <1>8, SendSound, AtomFacts DEF GotRemoval, Ready, resume_process, MsgType
    <3> QED
      BY <1>1, <1>8, <2>2, <3>1, GotoTyped DEF GotRemoval
  <2> QED
    BY <2>1, <2>2
<1>9. CASE ExitChild(p)
  BY <1>9, ExitTyped DEF ExitChild
<1>10. CASE ResetSigtermFlag(p)
  <2>1. [mem[p] EXCEPT !.sigterm_flag = 0] \in SoundMem
    BY <1>1 DEF SoundMem, MemType
  <2> QED
    BY <1>1, <1>10, <2>1, GotoTyped DEF ResetSigtermFlag
<1>11. CloneReturns(p) \in SoundMem
  BY <1>1 DEF CloneReturns, SoundMem, MemType
<1>12. ASSUME pc[p] \in {"clone_asked", "clone_reply", "clone_sent", "clone_added"}
       PROVE  resume_process(p, mem[p].peer) \in SoundLib
  BY <1>1, <1>12, SendSound, AtomFacts DEF resume_process, MsgType
<1>13. CASE AwaitDuplicateCheck(p)
  BY <1>1, <1>11, <1>12, <1>13, WaitSound, GotoTyped DEF AwaitDuplicateCheck, Ready
<1>14. CASE child_clone(p)
  <2>1. CASE lib[p].msg = NULL
    BY <1>14, <2>1, ExitTyped DEF child_clone, Crash
  <2>2. CASE lib[p].msg # NULL /\ lib[p].msg.type = MSG_INFO
    BY <1>11, <1>12, <1>14, <2>2, GotoTyped DEF child_clone, Ready
  <2>3. CASE lib[p].msg # NULL /\ lib[p].msg.type # MSG_INFO
    <3>1. pc[p] = "clone_reply" /\ UNCHANGED <<sig, fifo>>
      BY <1>14, <2>3 DEF child_clone, Ready
    <3>2. CASE Goto(p, "loop", [lib[p] EXCEPT !.msg = NULL], CloneReturns(p))
               /\ UNCHANGED <<parent, nextPid>>
      BY <1>1, <1>11, <3>1, <3>2, ForgetSound, GotoTyped
    <3>3. CASE ForkClone(p)
      <4> DEFINE name == NextName(p)
                 kidMem == [CloneReturns(p) EXCEPT !.name = name, !.clones_count = 0]
                 own == [mem[p] EXCEPT !.kid = nextPid]
                 call == message_send(p, PM, MSG_ADD, proc_node_tostr(nextPid, p, name))
      <4>1. nextPid \in Pid
        BY <3>3, PidFacts DEF ForkClone, Fork, KernelInv, Kinship, Pid
      <4>2. name \in Str
        <5>1. mem[p].clones_count + 1 \in Nat /\ mem[p].name \in Str
          BY <1>1, MemFacts
        <5> QED
          BY <5>1, AtomFacts, TextTypes DEF NextName
      <4>3. call \in SoundLib
        <5>1. proc_node_tostr(nextPid, p, name) \in Str
          BY <4>1, <4>2, TextTypes, AtomFacts, PidFacts
        <5> QED
          BY <1>1, <5>1, SendSound DEF MsgType
      <4>4. kidMem \in SoundMem
        <5> HIDE DEF name
        <5> QED
          BY <1>11, <4>2 DEF SoundMem, MemType
      <4>5. own \in SoundMem /\ own.peer = mem[p].peer
        BY <1>1, <4>1 DEF SoundMem, MemType
      <4>6. Fork(p, "clone_sent", call, own, "loop", [lib[p] EXCEPT !.msg = NULL], kidMem)
        BY <3>3 DEF ForkClone
      <4> HIDE DEF name, kidMem, own, call
      <4> QED
        BY <1>1, <3>1, <4>3, <4>4, <4>5, <4>6, ForgetSound, ForkTyped
    <3> QED
      BY <1>14, <2>3, <3>2, <3>3 DEF child_clone
  <2> QED
    BY <2>1, <2>2, <2>3
<1>15. ASSUME KillClone(p), pc[p] \in {"clone_sent", "clone_added"}, UNCHANGED <<parent, nextPid, fifo>>
       PROVE  KernelInv'
  <2>1. mem[p].kid \in Nat \union {NoPid}
    BY <1>1, MemFacts, PidFacts
  <2> QED
    BY <1>11, <1>12, <1>15, <2>1, GotoTyped DEF KillClone
<1>16. CASE send_proc_to_pmanager(p)
  BY <1>1, <1>15, <1>16, WaitSound, GotoTyped DEF send_proc_to_pmanager, Ready
<1>17. CASE CloneAdded(p)
  <2>1. [CloneReturns(p) EXCEPT !.clones_count = @ + 1] \in SoundMem
    BY <1>11 DEF SoundMem, MemType
  <2> QED
    BY <1>12, <1>15, <1>17, <2>1, GotoTyped DEF CloneAdded, Ready
<1> QED
  BY <1>3, <1>4, <1>5, <1>6, <1>7, <1>8, <1>9, <1>10, <1>13, <1>14, <1>16, <1>17 DEF ChildStep

-----------------------------------------------------------------------------
(***************************************************************************)
(* The commands.                                                           *)
(***************************************************************************)
LEMMA FinishTyped ==
  ASSUME KernelInv, NEW p \in Pid, Finish(p),
         UNCHANGED sig \/ \E q \in Nat \union {NoPid} : PostTerm(q, p),
         UNCHANGED <<parent, nextPid, fifo>>
  PROVE  KernelInv'
  BY StateFacts, Blank, GotoTyped DEF Finish, Points, CommandPoints, SoundPoint, Owing

LEMMA AskTyped ==
  ASSUME KernelInv, NEW p \in Pid, NEW point \in {"pnew_asked", "info_asked", "list_asked"},
         NEW to \in Nat, NEW type \in MsgType, NEW content \in Str,
         Ask(p, point, to, type, content), UNCHANGED <<sig, fifo>>
  PROVE  KernelInv'
<1>1. message_send(p, to, type, content) \in SoundLib
  BY SendSound DEF KernelInv
<1>2. [mem[p] EXCEPT !.peer = to] \in SoundMem
  BY StateFacts DEF SoundMem, MemType
<1>3. point \in Points /\ SoundPoint(point, [mem[p] EXCEPT !.peer = to])
  BY DEF Points, CommandPoints, SoundPoint, Owing
<1>4. Goto(p, point, message_send(p, to, type, content), [mem[p] EXCEPT !.peer = to])
      /\ UNCHANGED <<parent, nextPid>>
  BY DEF Ask
<1> QED
  BY <1>1, <1>2, <1>3, <1>4, GotoTyped

LEMMA PopenTyped ==
  ASSUME KernelInv, NEW p \in Pid, popen(p), UNCHANGED <<sig, fifo>>
  PROVE  KernelInv'
<1>1. CASE Finish(p) /\ UNCHANGED <<parent, nextPid>>
  BY <1>1, FinishTyped
<1>2. CASE Fork(p, "popen", lib[p], [mem[p] EXCEPT !.peer = Pending],
                "start", BlankLib, NewCommand("pinfo", mem[p].name, parent[p]))
  <2> DEFINE own == [mem[p] EXCEPT !.peer = Pending]
             kidMem == NewCommand("pinfo", mem[p].name, parent[p])
  <2>1. own \in SoundMem
    BY StateFacts DEF Pending, SoundMem, MemType
  <2>2. kidMem \in SoundMem
    <3>1. mem[p].name \in Str /\ parent[p] \in Nat
      BY StateFacts, MemFacts
    <3> QED
      BY <3>1, NewCommandSound DEF Programs
  <2> HIDE DEF own, kidMem
  <2>3. SoundPoint("popen", own) /\ SoundPoint("start", kidMem)
    BY DEF SoundPoint, Owing
  <2>4. "popen" \in Points /\ "start" \in Points
    BY DEF Points, CommandPoints
  <2>5. Fork(p, "popen", lib[p], own, "start", BlankLib, kidMem)
    BY <1>2 DEF own, kidMem
  <2> QED
    BY <2>1, <2>2, <2>3, <2>4, <2>5, StateFacts, Blank, ForkTyped
<1> QED
  BY <1>1, <1>2 DEF popen

LEMMA StartTyped ==
  ASSUME KernelInv, NEW p \in Pid, Start(p)
  PROVE  KernelInv'
<1>1. parent[p] \in Nat /\ mem[p].name \in Str /\ mem[p].peer \in Nat \union {NoPid}
  BY StateFacts, MemFacts
<1>2. MSG_INFO \in MsgType /\ MSG_LIST \in MsgType /\ pmanager \in Str
  BY NameAssumption DEF MsgType
<1>3. pid_pmanager(p) \in Nat
  BY <1>1 DEF pid_pmanager
<1>4. UNCHANGED <<sig, fifo>>
  BY DEF Start, pnew_main, pinfo_main, prmall_main, plist_main, ptree_main, pclose_main,
     pspawn_main, phelp_main, Begin
<1>5. \/ Finish(p) /\ UNCHANGED <<parent, nextPid>>
      \/ Ask(p, "pnew_asked", parent[p], MSG_INFO, mem[p].name)
      \/ Ask(p, "info_asked", pid_pmanager(p), MSG_INFO, mem[p].name)
      \/ Ask(p, "list_asked", parent[p], MSG_LIST, mem[p].name)
      \/ Ask(p, "list_asked", parent[p], MSG_LIST, pmanager)
      \/ popen(p)
  BY DEF Start, pnew_main, pinfo_main, prmall_main, plist_main, ptree_main, pclose_main,
     pspawn_main, phelp_main, Begin
<1> QED
  BY <1>1, <1>2, <1>3, <1>4, <1>5, FinishTyped, AskTyped, PopenTyped

\* A command that goes on to wait for a reply, or gives up.
LEMMA WaitTyped ==
  ASSUME KernelInv, NEW p \in Pid, NEW point \in CommandPoints, NEW from \in Nat \union {NoPid},
         Goto(p, point, message_wait(p, from), mem[p]),
         UNCHANGED sig \/ \E q \in Nat \union {NoPid} : PostTerm(q, p),
         UNCHANGED <<parent, nextPid, fifo>>
  PROVE  KernelInv'
<1>1. message_wait(p, from) \in SoundLib /\ mem[p] \in SoundMem
  BY WaitSound, StateFacts DEF KernelInv
<1>2. point \in Points /\ SoundPoint(point, mem[p])
  BY DEF Points, CommandPoints, SoundPoint, Owing
<1> QED
  BY <1>1, <1>2, GotoTyped

LEMMA PnewTyped ==
  ASSUME KernelInv, NEW p \in Pid, AwaitNameCheck(p) \/ pnew(p) \/ AwaitAdd(p) \/ GotAdd(p)
  PROVE  KernelInv'
<1>1. parent[p] \in Nat /\ mem[p] \in SoundMem /\ mem[p].name \in Str
      /\ mem[p].kid \in Nat \union {NoPid} /\ lib[p] \in SoundLib
  BY StateFacts, MemFacts, PidFacts
<1>2. "pnew_reply" \in CommandPoints /\ "pnew_added" \in CommandPoints /\ "exit" \in CommandPoints
  BY DEF CommandPoints
<1>3. CASE AwaitNameCheck(p)
  BY <1>1, <1>2, <1>3, WaitTyped, FinishTyped DEF AwaitNameCheck
<1>4. CASE pnew(p)
  <2>1. CASE Crash(p) /\ UNCHANGED fifo
    BY <2>1, ExitTyped DEF Crash
  <2>2. CASE Finish(p) /\ UNCHANGED <<sig, parent, nextPid, fifo>>
    BY <2>2, FinishTyped
  <2>3. CASE ForkProcess(p) /\ UNCHANGED <<sig, fifo>>
    <3> DEFINE call == message_send(p, parent[p], MSG_ADD, proc_node_tostr(nextPid, parent[p], mem[p].name))
               own == [mem[p] EXCEPT !.kid = nextPid]
               kidMem == NewCommand("child", mem[p].name, NoPid)
    <3>1. nextPid \in Pid
      BY <2>3, PidFacts DEF ForkProcess, Fork, KernelInv, Kinship, Pid
    <3>2. call \in SoundLib
      <4>1. proc_node_tostr(nextPid, parent[p], mem[p].name) \in Str
        BY <1>1, <3>1, TextTypes, AtomFacts, PidFacts
      <4> QED
        BY <1>1, <4>1, SendSound DEF MsgType, KernelInv
    <3>3. own \in SoundMem
      BY <1>1, <3>1 DEF SoundMem, MemType
    <3>4. kidMem \in SoundMem
      BY <1>1, NewCommandSound
    <3>5. Fork(p, "pnew_sent", call, own, "boot", [lib[p] EXCEPT !.msg = NULL], kidMem)
      BY <2>3 DEF ForkProcess
    <3> HIDE DEF call, own, kidMem
    <3>6. SoundPoint("pnew_sent", own) /\ SoundPoint("boot", kidMem)
      BY DEF SoundPoint, Owing
    <3>7. "pnew_sent" \in Points /\ "boot" \in Points
      BY DEF Points, CommandPoints
    <3> QED
      BY <1>1, <2>3, <3>2, <3>3, <3>4, <3>5, <3>6, <3>7, ForgetSound, ForkTyped
  <2> QED
    BY <1>4, <2>1, <2>2, <2>3 DEF pnew
<1>5. ASSUME abort_fork(p), UNCHANGED <<parent, nextPid, fifo>>  PROVE  KernelInv'
  BY <1>1, <1>2, <1>5, WaitTyped, FinishTyped DEF abort_fork
<1>6. CASE AwaitAdd(p)
  BY <1>1, <1>2, <1>5, <1>6, WaitTyped DEF AwaitAdd
<1>7. CASE GotAdd(p)
  BY <1>5, <1>7, FinishTyped DEF GotAdd
<1> QED
  BY <1>3, <1>4, <1>6, <1>7

LEMMA ListTyped ==
  ASSUME KernelInv, NEW p \in Pid, AwaitListItem(p) \/ GotListItem(p) \/ kill_proc_tree(p)
  PROVE  KernelInv'
<1>1. parent[p] \in Nat /\ mem[p] \in SoundMem /\ mem[p].procs \in Seq(TreeNode) /\ lib[p] \in SoundLib
  BY StateFacts, MemFacts
<1>2. ASSUME NEW procs \in Seq(TreeNode)  PROVE  [mem[p] EXCEPT !.procs = procs] \in SoundMem
  <2> HIDE DEF TreeNode
  <2> QED
    BY <1>1 DEF SoundMem, MemType
<1>3. /\ {"list_item", "list_asked", "rm_next", "exit"} \subseteq CommandPoints
      /\ CommandPoints \subseteq Points
      /\ \A point \in CommandPoints, m \in SoundMem : SoundPoint(point, m)
  BY DEF CommandPoints, Points, SoundPoint, Owing
<1>4. CASE AwaitListItem(p)
  BY <1>1, <1>3, <1>4, WaitTyped, FinishTyped DEF AwaitListItem
<1>5. CASE GotListItem(p)
  <2>1. CASE lib[p].msg # NULL /\ ListItem(p) /\ UNCHANGED fifo
    <3> DEFINE info == proc_node_fromstr(lib[p].msg.content)
               rows == mem[p].procs
               ack  == message_send(p, parent[p], MSG_SUCCESS, <<Pad>>)
               next == CASE info = NULL -> rows
                         [] info # NULL /\ mem[p].prog = "plist" -> print_proc_entry(rows, info)
                         [] OTHER -> add_process_to_tree(rows, info)
    <3>1. info \in ProcInfo \union {NULL}
      BY <2>1, StateFacts, NodeDecoded
    <3>2. ack \in SoundLib
      BY <1>1, SendSound, AtomFacts DEF MsgType, KernelInv
    <3> HIDE DEF info, ack
    <3>3. next \in Seq(TreeNode)
      BY <1>1, <3>1, RowTyped
    <3>4. Crash(p) \/ (Goto(p, "list_asked", ack, [mem[p] EXCEPT !.procs = next])
                       /\ UNCHANGED <<sig, parent, nextPid>>)
      BY <2>1 DEF ListItem, info, ack
    <3> HIDE DEF next, rows
    <3> QED
      BY <1>2, <1>3, <2>1, <3>2, <3>3, <3>4, GotoTyped, ExitTyped DEF Crash
  <2>2. CASE UNCHANGED <<sig, parent, nextPid, fifo>>
             /\ \E point \in {"rm_next", "exit"} : Goto(p, point, [lib[p] EXCEPT !.msg = NULL], mem[p])
    BY <1>1, <1>3, <2>2, ForgetSound, GotoTyped
  <2>3. CASE Finish(p) /\ UNCHANGED <<sig, parent, nextPid, fifo>>
    BY <2>3, FinishTyped
  <2> QED
    BY <1>5, <2>1, <2>2, <2>3 DEF GotListItem
<1>6. CASE kill_proc_tree(p)
  <2>1. CASE mem[p].procs = <<>>
    BY <1>6, <2>1, FinishTyped DEF kill_proc_tree
  <2>2. CASE mem[p].procs # <<>>
    <3> DEFINE i == NextVictim(mem[p].procs)
               q == mem[p].procs[i].pid
               rest == RemoveAt(mem[p].procs, i)
    <3>1. i \in 1..Len(mem[p].procs)
      BY <1>1, <2>2, VictimExists
    <3>2. rest \in Seq(TreeNode) /\ mem[p].procs[i] \in TreeNode
      BY <1>1, <3>1, RemoveTyped
    <3>3. q \in Nat
      BY <3>2 DEF TreeNode
    <3>4. /\ SparePmanager(p, rest) \/ SignalVictim(p, q, rest)
          /\ UNCHANGED <<parent, nextPid, fifo>>
      BY <1>6, <2>2 DEF kill_proc_tree
    <3> HIDE DEF q, rest, i
    <3>5. message_wait(p, q) \in SoundLib /\ [mem[p] EXCEPT !.procs = rest] \in SoundMem
      BY <1>2, <3>2, <3>3, WaitSound DEF KernelInv
    <3> QED
      BY <1>1, <1>3, <3>3, <3>4, <3>5, GotoTyped DEF SparePmanager, SignalVictim
  <2> QED
    BY <2>1, <2>2
<1> QED
  BY <1>4, <1>5, <1>6

LEMMA CommandTyped ==
  ASSUME KernelInv, NEW p \in Pid, CommandStep(p)
  PROVE  KernelInv'
<1>1. mem[p].peer \in Nat \union {NoPid} /\ mem[p] \in SoundMem /\ lib[p] \in SoundLib
  BY StateFacts, MemFacts
<1>2. "exit" \in CommandPoints /\ "info_reply" \in CommandPoints /\ "spawn_sent" \in CommandPoints
      /\ CommandPoints \subseteq Points
  BY DEF CommandPoints, Points
<1>3. SoundPoint("info_reply", mem[p]) /\ SoundPoint("spawn_sent", mem[p])
  BY DEF SoundPoint, Owing
<1>4. CASE ExitCommand(p)
  BY <1>4, ExitTyped DEF ExitCommand
<1>5. CASE AwaitInfo(p)
  BY <1>1, <1>2, <1>3, <1>5, WaitTyped, ForgetSound, GotoTyped DEF AwaitInfo
<1>6. CASE PrintInfo(p)
  <2>1. PrintedPid(lib[p].msg) \in Nat \union {NoPid}
    BY StateFacts, NodeDecoded DEF PrintedPid, EndOfFile, ProcInfo
  <2> QED
    BY <1>6, <2>1, ExitSound DEF PrintInfo, KernelInv
<1>7. CASE pclose(p)
  BY <1>1, <1>2, <1>7, WaitTyped, FinishTyped DEF pclose
<1>8. CASE pspawn(p)
  <2>1. mem[p].peer # EndOfFile => message_send(p, mem[p].peer, MSG_SPAWN, <<Pad>>) \in SoundLib
    BY <1>1, SendSound, AtomFacts DEF MsgType, KernelInv, EndOfFile
  <2> QED
    BY <1>1, <1>2, <1>3, <1>8, <2>1, GotoTyped, FinishTyped DEF pspawn
<1>9. CASE AwaitSpawn(p)
  BY <1>1, <1>2, <1>9, WaitTyped, FinishTyped DEF AwaitSpawn
<1> QED
  BY <1>4, <1>5, <1>6, <1>7, <1>8, <1>9, StartTyped, PnewTyped, ListTyped DEF CommandStep

-----------------------------------------------------------------------------
(***************************************************************************)
(* pmanager.c and handlers.c.                                              *)
(***************************************************************************)
\* What a manager sends, the tree it leaves being given.
LEMMA AnswerTyped ==
  ASSUME KernelInv, NEW p \in Pid, NEW to \in Nat, NEW type \in MsgType, NEW content \in Str,
         Answer(p, to, type, content)
  PROVE  KernelInv'
<1>1. message_send(p, to, type, content) \in SoundLib /\ mem[p] \in SoundMem
  BY SendSound, StateFacts DEF KernelInv
<1>2. "towait" \in Points /\ SoundPoint("towait", mem[p])
  BY DEF Points, ManagerPoints, SoundPoint, Owing
<1> QED
  BY <1>1, <1>2, GotoTyped DEF Answer

LEMMA SendNodeTyped ==
  ASSUME KernelInv, NEW p \in Pid, NEW to \in Nat, NEW procs \in Seq(TreeNode), procs # <<>>,
         SendNode(p, to, procs)
  PROVE  KernelInv'
<1> DEFINE n == Head(procs)
           own == [mem[p] EXCEPT !.peer = to, !.procs = Tail(procs)]
           call == message_send(p, to, MSG_INFO, proc_node_tostr(n.pid, n.ppid, n.name))
<1>1. n \in TreeNode /\ Tail(procs) \in Seq(TreeNode)
  OBVIOUS
<1>2. n.pid \in Nat /\ n.ppid \in Nat /\ n.name \in Str
  BY <1>1 DEF TreeNode
<1>3. call \in SoundLib
  <2>1. proc_node_tostr(n.pid, n.ppid, n.name) \in Str
    BY <1>2, TextTypes, AtomFacts
  <2> QED
    BY <2>1, SendSound DEF MsgType, KernelInv
<1>4. own \in SoundMem /\ own.peer \in Nat
  <2>1. mem[p] \in SoundMem
    BY StateFacts
  <2>2. \A rest \in Seq(TreeNode) : [mem[p] EXCEPT !.peer = to, !.procs = rest] \in SoundMem
    BY <2>1 DEF SoundMem, MemType
  <2> QED
    BY <1>1, <2>1, <2>2 DEF SoundMem, MemType
<1>5. Goto(p, "list_sent", call, own) /\ UNCHANGED <<sig, parent, nextPid, fifo>>
  BY DEF SendNode
<1> HIDE DEF call, own
<1>6. "list_sent" \in Points /\ SoundPoint("list_sent", own)
  BY <1>4 DEF Points, ManagerPoints, SoundPoint, Owing
<1> QED
  BY <1>3, <1>4, <1>5, <1>6, GotoTyped

\* A node that was decoded and whose parent is in the tree keeps the tree clean.
LEMMA HandlerTyped ==
  ASSUME TypeInv, NEW p \in Pid, message_handler(p), UNCHANGED outside
  PROVE  TypeInv'
<1> DEFINE msg == lib[p].msg
<1>1. KernelInv /\ trees[p] \in CleanTree /\ trees[p] \in Seq(TreeNode) /\ <<Pad>> \in Str
      /\ mem[p] \in SoundMem /\ lib[p] \in SoundLib
  BY StateFacts, AtomFacts DEF TypeInv, ManagerInv, CleanTree
<1>2. MsgType = {MSG_ADD, MSG_REMOVE, MSG_INFO, MSG_ERROR, MSG_SUCCESS, MSG_LIST, MSG_SPAWN}
  BY DEF MsgType
<1>3. CASE msg = NULL
  <2>1. "towait" \in Points /\ SoundPoint("towait", mem[p])
    BY DEF Points, ManagerPoints, SoundPoint, Owing
  <2>2. KernelInv'
    BY <1>1, <1>3, <2>1, GotoTyped DEF message_handler
  <2> QED
    BY <1>3, <2>2 DEF message_handler, TypeInv, ManagerInv, managerVars
<1>4. CASE msg # NULL
  <2>1. msg.sender \in Nat /\ msg.content \in Str /\ Without(Colon, msg.content)
    BY <1>1, <1>4, StateFacts
  <2>2. CASE msg_add_handler(p, msg)
    <3> DEFINE node == NodeToAdd(p, msg.content)
               new == proc_node_add(trees[p], node.pid, node.ppid, node.name)
    <3>1. node # NULL => new \in CleanTree
      <4>1. node # NULL => node = proc_node_fromstr(msg.content) /\ CanAdd(trees[p], node.ppid)
        BY DEF NodeToAdd
      <4>2. node # NULL => node \in ProcInfo /\ IsToken(node.name, msg.content, Semi)
        BY <2>1, <4>1, NodeDecoded
      <4> HIDE DEF node
      <4>3. node # NULL => CleanName(node.name)
        BY <2>1, <4>2 DEF IsToken, Without, CleanName
      <4>4. node # NULL => node.pid \in Nat /\ node.ppid \in Nat /\ node.name \in Str
        BY <4>2 DEF ProcInfo
      <4> QED
        BY <1>1, <4>1, <4>3, <4>4, AddTyped
    <3>2. trees' = IF node = NULL THEN trees ELSE [trees EXCEPT ![p] = new]
      BY <2>2 DEF msg_add_handler
    <3>3. KernelInv' /\ UNCHANGED <<linked, line>>
      <4>1. \E type \in {MSG_ERROR, MSG_SUCCESS} : Answer(p, msg.sender, type, <<Pad>>)
        BY <2>2 DEF msg_add_handler
      <4> HIDE DEF msg
      <4> QED
        BY <1>1, <1>2, <2>1, <4>1, AnswerTyped DEF Answer
    <3> HIDE DEF node, new
    <3> QED
      BY <3>1, <3>2, <3>3 DEF TypeInv, ManagerInv
  <2>3. CASE msg_info_handler(p, msg)
    <3> DEFINE i == proc_node_find_by_name(trees[p], msg.content)
               n == trees[p][i]
    <3>1. i # 0 => i \in 1..Len(trees[p])
      BY <1>1, FindByName
    <3> HIDE DEF i
    <3>2. i # 0 => n \in TreeNode
      BY <1>1, <3>1
    <3>3. i # 0 => proc_node_tostr(n.pid, n.ppid, n.name) \in Str
      BY <3>2, TextTypes, AtomFacts DEF TreeNode
    <3>4. IF i = 0 THEN Answer(p, msg.sender, MSG_ERROR, <<Pad>>)
          ELSE Answer(p, msg.sender, MSG_INFO, proc_node_tostr(n.pid, n.ppid, n.name))
      BY <2>3 DEF msg_info_handler, i
    <3>5. UNCHANGED trees
      BY <2>3 DEF msg_info_handler
    <3> HIDE DEF msg, n
    <3>6. KernelInv' /\ UNCHANGED <<linked, line>>
      BY <1>1, <1>2, <2>1, <3>3, <3>4, AnswerTyped DEF Answer
    <3> QED
      BY <3>5, <3>6 DEF TypeInv, ManagerInv
  <2>4. CASE msg_remove_handler(p, msg)
    <3> DEFINE ok == CanRemove(trees[p], msg.sender)
               new == proc_node_remove(trees[p], msg.sender)
    <3>1. ok => new \in CleanTree
      BY <1>1, FindByPid, RemoveTyped DEF CanRemove, proc_node_remove
    <3>2. trees' = IF ok THEN [trees EXCEPT ![p] = new] ELSE trees
      BY <2>4 DEF msg_remove_handler
    <3>3. KernelInv' /\ UNCHANGED <<linked, line>>
      <4>1. \E type \in {MSG_ERROR, MSG_SUCCESS} : Answer(p, msg.sender, type, <<Pad>>)
        BY <2>4 DEF msg_remove_handler
      <4> HIDE DEF msg
      <4> QED
        BY <1>1, <1>2, <2>1, <4>1, AnswerTyped DEF Answer
    <3> HIDE DEF ok, new
    <3> QED
      BY <3>1, <3>2, <3>3 DEF TypeInv, ManagerInv
  <2>5. CASE msg_list_handler(p, msg)
    <3> DEFINE i == proc_node_find_by_name(trees[p], msg.content)
               procs == proc_node_get_array(trees[p], i)
    <3>1. i # 0 => procs \in Seq(TreeNode) /\ procs # <<>>
      BY <1>1, FindByName, ArrayTyped
    <3>2. \/ Answer(p, msg.sender, MSG_ERROR, <<Pad>>) /\ UNCHANGED trees
          \/ i # 0 /\ SendNode(p, msg.sender, procs)
      BY <2>5 DEF msg_list_handler
    <3> HIDE DEF msg, i, procs
    <3>3. KernelInv' /\ UNCHANGED managerVars
      BY <1>1, <1>2, <2>1, <3>1, <3>2, AnswerTyped, SendNodeTyped DEF Answer, SendNode, managerVars
    <3> QED
      BY <3>3 DEF TypeInv, ManagerInv, managerVars
  <2>6. CASE Answer(p, msg.sender, MSG_ERROR, <<Pad>>) /\ UNCHANGED trees
    <3> HIDE DEF msg
    <3>1. KernelInv' /\ UNCHANGED <<linked, line>>
      BY <1>1, <1>2, <2>1, <2>6, AnswerTyped DEF Answer
    <3> QED
      BY <2>6, <3>1 DEF TypeInv, ManagerInv
  <2> QED
    BY <1>4, <2>2, <2>3, <2>4, <2>5, <2>6 DEF message_handler
<1> QED
  BY <1>3, <1>4

\* A manager starts a command, and gives it a copy of its tree.
LEMMA ExecTyped ==
  ASSUME TypeInv, NEW p \in Pid, NEW m \in SoundMem, m.masked \subseteq {"int", "term"},
         m.exiting \in BOOLEAN, NEW prog \in Programs \union {"path"}, NEW name \in Str,
         NEW to \in Nat \union {NoPid},
         exec_command(p, m, prog, name, to), UNCHANGED <<sig, fifo>>
  PROVE  KernelInv' /\ trees' \in [Pid -> CleanTree]
<1> DEFINE own == [m EXCEPT !.kid = nextPid]
           kidMem == [NewCommand(prog, name, to) EXCEPT !.exiting = m.exiting, !.masked = m.masked]
<1>1. nextPid \in Pid
  BY PidFacts DEF exec_command, Fork, TypeInv, KernelInv, Kinship, Pid
<1>2. own \in SoundMem
  BY <1>1 DEF SoundMem, MemType
<1>3. kidMem \in SoundMem
  <2>1. NewCommand(prog, name, to) \in SoundMem
    BY NewCommandSound
  <2> QED
    BY <2>1 DEF SoundMem, MemType
<1>4. Fork(p, "poll", lib[p], own, "exec", lib[p], kidMem)
  BY DEF exec_command
<1> HIDE DEF own, kidMem
<1>5. /\ "poll" \in Points /\ "exec" \in Points
      /\ SoundPoint("poll", own) /\ SoundPoint("exec", kidMem)
  BY DEF Points, ManagerPoints, SoundPoint, Owing
<1>6. KernelInv'
  BY <1>2, <1>3, <1>4, <1>5, StateFacts, ForkTyped DEF TypeInv
<1>7. trees' \in [Pid -> CleanTree]
  BY <1>1 DEF exec_command, TypeInv, ManagerInv
<1> QED
  BY <1>6, <1>7

\* What a manager starts cleanup() with.
LEMMA CleanupSound ==
  ASSUME KernelInv, NEW p \in Pid, NEW s \in {"int", "term"}
  PROVE  /\ ExitingManager(p) \in SoundMem
         /\ [ExitingManager(p) EXCEPT !.masked = @ \union {s}] \in SoundMem
<1>1. NewCommand("pmanager", pmanager, NoPid) \in SoundMem
  BY NameAssumption, NewCommandSound
<1>2. mem[p].exiting \in BOOLEAN /\ mem[p].masked \subseteq {"int", "term"}
  BY StateFacts DEF SoundMem, MemType
<1>3. ExitingManager(p) \in SoundMem
  BY <1>1, <1>2 DEF ExitingManager, SoundMem, MemType
<1> QED
  BY <1>3 DEF SoundMem, MemType

\* A process ends, and its tree with it.
LEMMA EndTyped ==
  ASSUME TypeInv, NEW p \in Pid, Exit(p), DropTree(p), UNCHANGED fifo
  PROVE  KernelInv' /\ trees' \in [Pid -> CleanTree]
<1>1. <<>> \in CleanTree
  BY DEF CleanTree
<1> QED
  BY <1>1, ExitTyped DEF TypeInv, ManagerInv, DropTree

LEMMA ManagerTyped ==
  ASSUME TypeInv, NEW p \in Pid, ManagerStep(p), UNCHANGED outside
  PROVE  TypeInv'
<1>1. /\ KernelInv /\ lib[p] \in SoundLib /\ mem[p] \in SoundMem
      /\ mem[p].procs \in Seq(TreeNode)
      /\ <<Pad>> \in Str /\ MSG_SUCCESS \in MsgType
  BY StateFacts, MemFacts, AtomFacts DEF TypeInv, MsgType
<1>2. /\ ManagerPoints \subseteq Points
      /\ \A point \in ManagerPoints \ {"list_sent", "list_ack"}, m \in SoundMem : SoundPoint(point, m)
  BY DEF Points, ManagerPoints, SoundPoint, Owing
<1>3. CASE execvp(p)
  <2>1. CASE mem[p].prog = "path"
    <3>1. KernelInv'
      BY <1>1, <1>2, <1>3, <2>1, CleanupSound, GotoTyped DEF execvp, ManagerPoints
    <3> QED
      BY <1>3, <2>1, <3>1 DEF execvp, TypeInv, ManagerInv
  <2>2. CASE mem[p].prog # "path"
    <3>1. [mem[p] EXCEPT !.exiting = FALSE] \in SoundMem
      BY <1>1 DEF SoundMem, MemType
    <3>2. KernelInv'
      BY <1>1, <1>3, <2>2, <3>1, Blank, GotoTyped
      DEF execvp, Points, CommandPoints, SoundPoint, Owing
    <3>3. trees' \in [Pid -> CleanTree]
      <4>1. <<>> \in CleanTree
        BY DEF CleanTree
      <4> QED
        BY <1>3, <2>2, <4>1 DEF execvp, DropTree, TypeInv, ManagerInv
    <3> QED
      BY <1>3, <3>2, <3>3 DEF execvp, TypeInv, ManagerInv
  <2> QED
    BY <2>1, <2>2
<1>4. CASE Poll(p)
  <2>1. KernelInv'
    BY <1>1, <1>2, <1>4, WaitSound, GotoTyped DEF Poll, KernelInv, ManagerPoints
  <2> QED
    BY <1>4, <2>1 DEF Poll, TypeInv, ManagerInv, managerVars
<1>5. CASE WaitCommand(p)
  <2>1. CASE pc' = [pc EXCEPT ![p] = "waitpid"]
             /\ UNCHANGED <<lib, mem, sig, parent, nextPid, fifo, trees, linked, line>>
    BY <1>2, <2>1 DEF ManagerPoints, TypeInv, KernelInv, ManagerInv, Processes, Signals, Kinship
  <2>2. CASE EndManager(p) /\ UNCHANGED <<fifo, line>>
    BY <2>2, EndTyped DEF EndManager, TypeInv, ManagerInv
  <2>3. CASE /\ pc' = [pc EXCEPT ![mem[p].kid] = "dead", ![p] = "readline"]
             /\ mem' = [mem EXCEPT ![p].kid = NoPid]
             /\ UNCHANGED <<lib, sig, parent, nextPid, trees, linked, fifo, line>>
    <3>1. [mem[p] EXCEPT !.kid = NoPid] \in SoundMem
      BY <1>1 DEF SoundMem, MemType
    <3>2. pc' \in [Pid -> Points] /\ mem' \in [Pid -> SoundMem]
      BY <1>2, <2>3, <3>1 DEF Points, Gone, ManagerPoints, KernelInv, TypeInv, Processes
    <3>3. \A q \in Pid : SoundPoint(pc'[q], mem'[q])
      <4> TAKE q \in Pid
      <4>1. pc'[q] \in {"dead", "readline"} \/ (pc'[q] = pc[q] /\ mem'[q] = mem[q])
        BY <2>3 DEF KernelInv, TypeInv, Processes
      <4>2. SoundPoint(pc[q], mem[q])
        BY DEF KernelInv, TypeInv, Processes
      <4> QED
        BY <4>1, <4>2 DEF SoundPoint, Owing
    <3> QED
      BY <2>3, <3>2, <3>3 DEF TypeInv, KernelInv, ManagerInv, Processes, Signals, Kinship
  <2> QED
    BY <1>5, <2>1, <2>2, <2>3 DEF WaitCommand
<1>6. CASE cleanup(p)
  <2>1. CASE /\ exec_command(p, [mem[p] EXCEPT !.exiting = TRUE], "prmall", pmanager, NoPid)
             /\ UNCHANGED <<sig, linked, fifo, line>>
    <3>1. /\ [mem[p] EXCEPT !.exiting = TRUE] \in SoundMem
          /\ [mem[p] EXCEPT !.exiting = TRUE].masked \subseteq {"int", "term"}
          /\ [mem[p] EXCEPT !.exiting = TRUE].exiting \in BOOLEAN
      BY <1>1 DEF SoundMem, MemType
    <3>2. KernelInv' /\ trees' \in [Pid -> CleanTree]
      BY <2>1, <3>1, NameAssumption, ExecTyped DEF Programs
    <3> QED
      BY <2>1, <3>2 DEF TypeInv, ManagerInv
  <2>2. CASE EndManager(p) /\ UNCHANGED <<fifo, line>>
    BY <2>2, EndTyped DEF EndManager, TypeInv, ManagerInv
  <2> QED
    BY <1>6, <2>1, <2>2 DEF cleanup
<1>7. CASE message_handler(p)
  BY <1>7, HandlerTyped
<1>8. CASE AwaitAck(p)
  <2>1. mem[p].peer \in Nat /\ "list_ack" \in Points
    BY <1>8 DEF AwaitAck, Ready, TypeInv, KernelInv, Processes, SoundPoint, Owing, Points, ManagerPoints
  <2>2. KernelInv'
    BY <1>1, <1>8, <2>1, WaitSound, GotoTyped DEF AwaitAck, SoundPoint, Owing, KernelInv
  <2> QED
    BY <1>8, <2>2 DEF AwaitAck, TypeInv, ManagerInv, managerVars
<1>9. CASE GotAck(p)
  <2>1. mem[p].peer \in Nat
    BY <1>9 DEF GotAck, Ready, TypeInv, KernelInv, Processes, SoundPoint, Owing
  <2>2. message_send(p, mem[p].peer, MSG_SUCCESS, <<Pad>>) \in SoundLib
        /\ [mem[p] EXCEPT !.peer = NoPid] \in SoundMem
    BY <1>1, <2>1, SendSound DEF KernelInv, SoundMem, MemType
  <2>3. KernelInv'
    BY <1>1, <1>2, <1>9, <2>1, <2>2, SendNodeTyped, GotoTyped DEF GotAck, ManagerPoints
  <2> QED
    BY <1>9, <2>3 DEF GotAck, SendNode, TypeInv, ManagerInv, managerVars
<1> QED
  BY <1>3, <1>4, <1>5, <1>6, <1>7, <1>8, <1>9 DEF ManagerStep

-----------------------------------------------------------------------------
(***************************************************************************)
(* The user and the signals.                                               *)
(***************************************************************************)
LEMMA UserTyped ==
  ASSUME TypeInv, UserStep
  PROVE  TypeInv'
<1>1. KernelInv /\ PM \in Pid /\ lib[PM] \in SoundLib /\ mem[PM] \in SoundMem
  BY PidFacts, StateFacts DEF TypeInv
<1>2. "cleanup" \in Points /\ SoundPoint("cleanup", mem[PM])
  BY DEF Points, ManagerPoints, SoundPoint, Owing
<1>3. UNCHANGED <<outside, sig, fifo, linked>>
  BY DEF UserStep, ReadLine, EndOfInput, managerVars
<1>4. CASE EndOfInput
  <2>1. KernelInv'
    BY <1>1, <1>2, <1>4, GotoTyped DEF EndOfInput
  <2> QED
    BY <1>3, <1>4, <2>1 DEF EndOfInput, managerVars, TypeInv, ManagerInv
<1>5. CASE ReadLine
  <2>1. line' \in 0..Len(Script) /\ line + 1 \in 1..Len(Script)
    BY <1>5, ScriptAssumption DEF ReadLine, TypeInv, ManagerInv
  <2>2. PICK c \in Script[line + 1] :
          \/ Goto(PM, "cleanup", lib[PM], mem[PM]) /\ UNCHANGED <<parent, nextPid, trees>>
          \/ UNCHANGED <<pc, lib, mem, parent, nextPid, trees>>
          \/ /\ c.cmd \notin {"quit", "other"}
             /\ exec_command(PM, mem[PM], c.cmd, c.name, c.to)
    BY <1>5 DEF ReadLine
  <2>3. c \in Line
    BY <2>1, ScriptAssumption
  <2>4. KernelInv' /\ trees' \in [Pid -> CleanTree]
    <3>1. CASE Goto(PM, "cleanup", lib[PM], mem[PM]) /\ UNCHANGED <<parent, nextPid, trees>>
      BY <1>1, <1>2, <1>3, <3>1, GotoTyped DEF TypeInv, ManagerInv
    <3>2. CASE UNCHANGED <<pc, lib, mem, parent, nextPid, trees>>
      BY <1>3, <3>2 DEF TypeInv, KernelInv, ManagerInv, Processes, Signals, Kinship
    <3>3. CASE c.cmd \notin {"quit", "other"} /\ exec_command(PM, mem[PM], c.cmd, c.name, c.to)
      <4>1. /\ c.cmd \in Programs \union {"path"}
            /\ c.name \in Str
            /\ c.to \in Nat \union {NoPid}
        BY <2>3, <3>3, PidFacts DEF Line
      <4>2. mem[PM].masked \subseteq {"int", "term"} /\ mem[PM].exiting \in BOOLEAN
        BY <1>1 DEF SoundMem, MemType
      <4> QED
        BY <1>1, <1>3, <3>3, <4>1, <4>2, ExecTyped
    <3> QED
      BY <2>2, <3>1, <3>2, <3>3
  <2> QED
    BY <1>3, <2>1, <2>4 DEF TypeInv, ManagerInv
<1> QED
  BY <1>4, <1>5 DEF UserStep

LEMMA UserSignalTyped ==
  ASSUME TypeInv, UserSignal
  PROVE  TypeInv'
<1>1. Signals'
  BY DEF UserSignal, PressCtrlC, TypeInv, KernelInv, Signals, SignalType
<1>2. outside' \subseteq UserSignals
  BY DEF UserSignal, TypeInv, ManagerInv
<1> QED
  BY <1>1, <1>2
  DEF UserSignal, managerVars, TypeInv, KernelInv, ManagerInv, Processes, Kinship

\* A handler has run: what it found waiting goes on.
LEMMA HandledTyped ==
  ASSUME Processes, NEW p \in Pid, NEW point \in AfterSignal(p), NEW m \in MemType
  PROVE  /\ point \in Points
         /\ SoundPoint(pc[p], m) => SoundPoint(point, m)
<1>1. \/ point = pc[p]
      \/ point \in {"flag", "waitpid", "poll", "readline", "cleanup"}
  BY DEF AfterSignal
<1>2. pc[p] \in Points
  BY DEF Processes
<1> QED
  BY <1>1, <1>2 DEF Points, ChildPoints, ManagerPoints, SoundPoint, Owing

LEMMA SignalTyped ==
  ASSUME TypeInv, NEW p \in Pid, SignalStep(p)
  PROVE  TypeInv'
<1>1. /\ KernelInv /\ Processes /\ lib[p] \in SoundLib /\ mem[p] \in SoundMem
      /\ sig[p] \in SignalType /\ SoundPoint(pc[p], mem[p])
      /\ pc \in [Pid -> Points] /\ lib \in [Pid -> SoundLib] /\ mem \in [Pid -> SoundMem]
      /\ sig \in [Pid -> SignalType]
  BY StateFacts DEF TypeInv, KernelInv, Signals, Processes
<1>2. UNCHANGED outside
  BY DEF SignalStep
<1>3. WokenAt(lib[p].at) \in CallPoints /\ (WokenAt(lib[p].at) \in {"write", "kill"} => lib[p].at \in {"write", "kill"})
  BY <1>1 DEF WokenAt, CallPoints, SoundLib, LibType
<1>4. [lib[p] EXCEPT !.at = WokenAt(@)] \in SoundLib
  BY <1>1, <1>3 DEF SoundLib, LibType
<1>5. CASE set_unread_flag(p) /\ UNCHANGED managerVars
  <2> DEFINE l == [lib[p] EXCEPT !.unread_flag = TRUE, !.message_sender = sig[p].usr1, !.at = WokenAt(@)]
  <2>1. sig[p].usr1 \in Pid
    BY <1>1, <1>5 DEF set_unread_flag, SignalType
  <2>2. l \in SoundLib
    BY <1>1, <1>3, <2>1 DEF SoundLib, LibType
  <2> HIDE DEF l
  <2>3. lib' = [lib EXCEPT ![p] = l]
    BY <1>5 DEF set_unread_flag, l
  <2>4. PICK point \in AfterSignal(p) : pc' = [pc EXCEPT ![p] = point]
    BY <1>5 DEF set_unread_flag
  <2>5. point \in Points /\ SoundPoint(point, mem[p])
    BY <1>1, <2>4, HandledTyped DEF SoundMem
  <2>6. [sig[p] EXCEPT !.usr1 = NoPid] \in SignalType
    BY <1>1 DEF SignalType
  <2>7. Processes' /\ Signals'
    <3>1. Signals'
      BY <1>1, <1>5, <2>6 DEF set_unread_flag, Signals
    <3>2. mem' = mem
      BY <1>5 DEF set_unread_flag
    <3>3. pc' \in [Pid -> Points] /\ lib' \in [Pid -> SoundLib]
      BY <1>1, <2>2, <2>3, <2>4, <2>5
    <3>4. \A q \in Pid : SoundPoint(pc'[q], mem[q])
      BY <1>1, <2>4, <2>5 DEF Processes
    <3> QED
      BY <1>1, <3>1, <3>2, <3>3, <3>4 DEF Processes
  <2> QED
    BY <1>2, <1>5, <2>7 DEF set_unread_flag, managerVars, TypeInv, KernelInv, ManagerInv, Kinship
<1>6. CASE sigterm_handler(p) /\ UNCHANGED managerVars
  <2> DEFINE m == [mem[p] EXCEPT !.sigterm_flag = 1, !.sigterm_sender = sig[p].term,
                                 !.overwrote = mem[p].sigterm_flag = 1]
  <2>1. sig[p].term \in Pid
    BY <1>1, <1>6 DEF sigterm_handler, SignalType
  <2>2. m \in SoundMem /\ m.sigterm_flag = 1 /\ m.peer = mem[p].peer
    BY <1>1, <2>1 DEF SoundMem, MemType
  <2> HIDE DEF m
  <2>3. mem' = [mem EXCEPT ![p] = m]
    BY <1>6 DEF sigterm_handler, m
  <2>4. PICK point \in AfterSignal(p) : pc' = [pc EXCEPT ![p] = point]
    BY <1>6 DEF sigterm_handler
  <2>5. point \in Points /\ SoundPoint(point, m)
    <3>1. SoundPoint(pc[p], m)
      BY <1>1, <2>2 DEF SoundPoint
    <3> QED
      BY <1>1, <2>2, <2>4, <3>1, HandledTyped DEF SoundMem
  <2>6. [sig[p] EXCEPT !.term = NoPid] \in SignalType
    BY <1>1 DEF SignalType
  <2>7. Processes' /\ Signals'
    <3>1. Signals'
      BY <1>1, <1>6, <2>6 DEF sigterm_handler, Signals
    <3>2. lib' \in [Pid -> SoundLib]
      BY <1>1, <1>4, <1>6 DEF sigterm_handler
    <3>3. pc' \in [Pid -> Points] /\ mem' \in [Pid -> SoundMem]
      BY <1>1, <2>2, <2>3, <2>4, <2>5
    <3>4. \A q \in Pid : SoundPoint(pc'[q], mem'[q])
      BY <1>1, <2>3, <2>4, <2>5 DEF Processes
    <3> QED
      BY <3>1, <3>2, <3>3, <3>4 DEF Processes
  <2> QED
    BY <1>2, <1>6, <2>7 DEF sigterm_handler, managerVars, TypeInv, KernelInv, ManagerInv, Kinship
<1>7. CASE KilledAtBoot(p) /\ UNCHANGED managerVars
  <2>1. "killed" \in Points /\ SoundPoint("killed", BlankMem)
    BY DEF Points, Gone, SoundPoint, Owing
  <2>2. Processes' /\ Signals'
    BY <1>1, <1>7, <2>1, Blank DEF KilledAtBoot, Processes, Signals
  <2> QED
    BY <1>2, <1>7, <2>2 DEF KilledAtBoot, managerVars, TypeInv, KernelInv, ManagerInv, Kinship
<1>8. CASE remove_zombie(p) /\ UNCHANGED managerVars
  <2>1. PICK q \in Zombies(p), point \in AfterSignal(p) : pc' = [pc EXCEPT ![q] = "dead", ![p] = point]
    BY <1>8 DEF remove_zombie
  <2>2. point \in Points /\ SoundPoint(point, mem[p]) /\ "dead" \in Points
    BY <1>1, <2>1, HandledTyped DEF SoundMem, Points, Gone
  <2>3. \A x \in Pid : pc'[x] \in {point, pc[x], "dead"} /\ (pc'[x] = point => x = p \/ pc'[x] \in {pc[x], "dead"})
    BY <1>1, <2>1
  <2>4. \A x \in Pid : SoundPoint(pc'[x], mem[x])
    <3> TAKE x \in Pid
    <3>1. SoundPoint(pc[x], mem[x]) /\ SoundPoint("dead", mem[x])
      BY <1>1 DEF Processes, SoundPoint, Owing
    <3> QED
      BY <2>2, <2>3, <3>1
  <2>5. pc' \in [Pid -> Points]
    BY <1>1, <2>1, <2>2
  <2>6. [sig[p] EXCEPT !.chld = FALSE] \in SignalType
    BY <1>1 DEF SignalType
  <2>7. Processes' /\ Signals'
    BY <1>1, <1>4, <1>8, <2>4, <2>5, <2>6 DEF remove_zombie, Processes, Signals
  <2> QED
    BY <1>2, <1>8, <2>7 DEF remove_zombie, managerVars, TypeInv, KernelInv, ManagerInv, Kinship
<1>9. CASE terminate(p)
  <2>1. PICK s \in Deliverable(p) :
          \/ /\ sig' = IF s = "int" THEN [sig EXCEPT ![p].int = FALSE] ELSE [sig EXCEPT ![p].term = NoPid]
             /\ Goto(p, "cleanup",
                     [lib[p] EXCEPT !.at = "ret", !.pid = NoPid, !.text = <<>>, !.msg = NULL],
                     [ExitingManager(p) EXCEPT !.masked = @ \union {s}])
             /\ UNCHANGED <<parent, nextPid, trees>>
          \/ Exit(p) /\ DropTree(p)
    BY <1>9 DEF terminate
  <2>2. UNCHANGED <<fifo, line, linked>>
    BY <1>9 DEF terminate
  <2>3. CASE Exit(p) /\ DropTree(p)
    BY <1>2, <2>2, <2>3, EndTyped DEF TypeInv, ManagerInv
  <2>4. CASE /\ sig' = IF s = "int" THEN [sig EXCEPT ![p].int = FALSE] ELSE [sig EXCEPT ![p].term = NoPid]
             /\ Goto(p, "cleanup",
                     [lib[p] EXCEPT !.at = "ret", !.pid = NoPid, !.text = <<>>, !.msg = NULL],
                     [ExitingManager(p) EXCEPT !.masked = @ \union {s}])
             /\ UNCHANGED <<parent, nextPid, trees>>
    <3>1. s \in {"int", "term"}
      BY <2>1 DEF Deliverable
    <3>2. [lib[p] EXCEPT !.at = "ret", !.pid = NoPid, !.text = <<>>, !.msg = NULL] \in SoundLib
      BY <1>1, AtomFacts DEF SoundLib, LibType, CallPoints
    <3>3. [ExitingManager(p) EXCEPT !.masked = @ \union {s}] \in SoundMem
      BY <1>1, <3>1, CleanupSound
    <3>4. "cleanup" \in Points /\ SoundPoint("cleanup", [ExitingManager(p) EXCEPT !.masked = @ \union {s}])
      BY DEF Points, ManagerPoints, SoundPoint, Owing
    <3>5. Processes'
      BY <1>1, <2>4, <3>2, <3>3, <3>4, GotoSound
    <3>6. [sig[p] EXCEPT !.int = FALSE] \in SignalType /\ [sig[p] EXCEPT !.term = NoPid] \in SignalType
      BY <1>1 DEF SignalType
    <3>7. Signals'
      BY <1>1, <2>4, <3>6 DEF Signals
    <3> QED
      BY <1>2, <2>2, <2>4, <3>5, <3>7 DEF TypeInv, KernelInv, ManagerInv, Kinship
  <2> QED
    BY <2>1, <2>3, <2>4
<1>10. CASE DieOfInterrupt(p) /\ UNCHANGED <<fifo, managerVars>>
  BY <1>2, <1>10, ExitTyped DEF DieOfInterrupt, managerVars, TypeInv, ManagerInv
<1> QED
  BY <1>5, <1>6, <1>7, <1>8, <1>9, <1>10 DEF SignalStep, ChildSignal

-----------------------------------------------------------------------------
LEMMA InitTyped == Init => TypeInv
<1> SUFFICES ASSUME Init PROVE TypeInv
  OBVIOUS
<1>1. PM \in Nat /\ InitPid \in Nat /\ <<>> \in CleanTree /\ Len(Script) \in Nat
  BY ScriptAssumption DEF PM, InitPid, CleanTree
<1>2. RootOnly(PM, InitPid, pmanager) \in CleanTree
  BY <1>1, NameAssumption, RootTyped
<1>3. NewCommand("pmanager", pmanager, NoPid) \in SoundMem
  BY NameAssumption, NewCommandSound
<1>4. \A point \in {"readline", "unborn"}, m \in SoundMem : point \in Points /\ SoundPoint(point, m)
  BY DEF Points, ManagerPoints, Gone, SoundPoint, Owing
<1>5. Processes
  BY <1>3, <1>4, Blank DEF Init, Processes
<1>6. Signals /\ fifo \in Seq(LetterType)
  BY Blank DEF Init, Signals
<1>7. Kinship
  BY PidFacts DEF Init, Kinship, PM
<1>8. ManagerInv
  BY <1>1, <1>2 DEF Init, ManagerInv
<1> QED
  BY <1>5, <1>6, <1>7, <1>8 DEF TypeInv, KernelInv

LEMMA StepTyped == TypeInv /\ [Next]_vars => TypeInv'
<1> SUFFICES ASSUME TypeInv, [Next]_vars  PROVE TypeInv'
  OBVIOUS
<1>1. CASE UNCHANGED vars
  BY <1>1 DEF vars, managerVars, TypeInv, KernelInv, ManagerInv, Processes, Signals, Kinship
<1>2. CASE UserStep
  BY <1>2, UserTyped
<1>3. CASE UserSignal
  BY <1>3, UserSignalTyped
<1>4. ASSUME NEW p \in Pid, ProcessStep(p)  PROVE TypeInv'
  <2>1. CASE ManagerStep(p)
    BY <1>4, <2>1, ManagerTyped DEF ProcessStep
  <2>2. CASE (MessageStep(p) \/ ChildStep(p) \/ CommandStep(p)) /\ UNCHANGED managerVars
    <3>1. KernelInv'
      BY <2>2, MessageTyped, ChildTyped, CommandTyped DEF TypeInv
    <3> QED
      BY <1>4, <2>2, <3>1 DEF ProcessStep, managerVars, TypeInv, ManagerInv
  <2> QED
    BY <1>4, <2>1, <2>2 DEF ProcessStep
<1>5. ASSUME NEW p \in Pid, SignalStep(p)  PROVE TypeInv'
  BY <1>5, SignalTyped
<1> QED
  BY <1>1, <1>2, <1>3, <1>4, <1>5 DEF Next

LEMMA TypeInvHolds == Spec => []TypeInv
  BY InitTyped, StepTyped, PTL DEF Spec

\* Whatever is typed and however the signals fall, every variable holds what the
\* code can put there: no call addresses what is not a pid, and a message that
\* could be decoded has the fields its receiver expects.
THEOREM TypeCorrect == Spec => []TypeOK
<1>1. TypeInv => TypeOK
  <2> SUFFICES ASSUME TypeInv PROVE TypeOK
    OBVIOUS
  <2>1. lib \in [Pid -> LibType]
    BY DEF TypeInv, KernelInv, Processes, SoundLib
  <2>2. mem \in [Pid -> MemType]
    BY DEF TypeInv, KernelInv, Processes, SoundMem
  <2>3. trees \in [Pid -> Seq(TreeNode)]
    BY DEF TypeInv, ManagerInv, CleanTree
  <2> QED
    BY <2>1, <2>2, <2>3
    DEF TypeOK, TypeInv, KernelInv, ManagerInv, Processes, Signals, Kinship
<1> QED
  BY <1>1, TypeInvHolds, PTL

\* Whatever names are typed, with delimiters or without, no name in pmanager's tree
\* contains one, so that a reply carrying it is decoded: tokenize() has cut the
\* name at both delimiters on its way there.
THEOREM NamesClean == Spec => []NamesStayClean
<1>1. TypeInv => NamesStayClean
  BY PidFacts DEF TypeInv, ManagerInv, CleanTree, NamesStayClean, tree
<1> QED
  BY <1>1, TypeInvHolds, PTL

-----------------------------------------------------------------------------
(***************************************************************************)
(* The turn.                                                               *)
(***************************************************************************)
\* Only q has the turn, by claim d.
Only(q, d) ==
  /\ \A x \in Pid :
       /\ sig[x].usr1 # NoPid => x = q /\ d = "usr1"
       /\ lib[x].unread_flag => x = q /\ d = "unread"
       /\ sig[x].term # NoPid => x = q /\ d = "term"
       /\ mem[x].sigterm_flag = 1 /\ pc[x] \notin Terminating => x = q /\ d = "sigterm"
       /\ Busy(x) => x = q /\ d = "busy"
  /\ mem[PM].kid # NoPid /\ pc[mem[PM].kid] = "zombie" => q = PM /\ d = "reap"

\* Whoever has the turn after a step had it before.
NoNewTurn ==
  /\ \A x \in Pid :
       /\ sig'[x].usr1 # NoPid => sig[x].usr1 # NoPid
       /\ lib'[x].unread_flag => lib[x].unread_flag
       /\ sig'[x].term # NoPid => sig[x].term # NoPid
       /\ mem'[x].sigterm_flag = 1 /\ pc'[x] \notin Terminating =>
            mem[x].sigterm_flag = 1 /\ pc[x] \notin Terminating
       /\ Busy(x)' => Busy(x)
  /\ mem'[PM].kid # NoPid /\ pc'[mem'[PM].kid] = "zombie" =>
       mem[PM].kid # NoPid /\ pc[mem[PM].kid] = "zombie"

\* The turn is in the hands of one process at most, as long as there is a shell.
Turn == OneTurn /\ TurnWithShell

\* What the rule of the one turn needs of the processes.
Discipline == CallsOpen /\ ManagerReached /\ OneManager /\ Relatives /\ NoInterrupt

Order == Discipline /\ TextThere

CalmInv == TypeInv /\ Turn /\ Order

-----------------------------------------------------------------------------
LEMMA Holder ==
  ASSUME OneTurn, NEW p \in Pid, NEW c \in Claims, HasTurn(p, c)
  PROVE  Only(p, c)
<1>1. \A x \in Pid, k \in Claims : HasTurn(x, k) => x = p /\ k = c
  BY DEF OneTurn
<1> QED
  BY <1>1, PidFacts DEF Only, Claims, HasTurn

LEMMA KeepTurn ==
  ASSUME Turn, NoNewTurn, pc[PM] # "dead" => pc'[PM] # "dead"
  PROVE  Turn'
<1>1. \A x \in Pid, k \in Claims : HasTurn(x, k)' => HasTurn(x, k)
  BY DEF NoNewTurn, Claims, HasTurn
<1> QED
  BY <1>1 DEF Turn, OneTurn, TurnWithShell

LEMMA PassTurn ==
  ASSUME TurnWithShell, NEW p \in Pid, NEW c \in Claims, HasTurn(p, c),
         NEW q \in Pid, NEW d \in Claims, Only(q, d)',
         pc[PM] # "dead" => pc'[PM] # "dead"
  PROVE  Turn'
<1>1. \A x \in Pid, k \in Claims : HasTurn(x, k)' => x = q /\ k = d
  BY DEF Only, Claims, HasTurn
<1> QED
  BY <1>1 DEF Turn, OneTurn, TurnWithShell

\* The turn ends with the shell, or with a process nobody waits for.
LEMMA NoTurn ==
  ASSUME Only(NoPid, "none")'
  PROVE  Turn'
<1>1. \A x \in Pid, k \in Claims : ~HasTurn(x, k)'
  BY PidFacts DEF Only, Claims, HasTurn, NoPid, Pid
<1> QED
  BY <1>1 DEF Turn, OneTurn, TurnWithShell

-----------------------------------------------------------------------------
(***************************************************************************)
(* What keeps the processes in order.                                      *)
(***************************************************************************)
\* The points of a pinfo that popen() has started.
Asking == {"start", "info_asked", "info_reply", "exit"}

\* p goes on at `point' with m, and stays what it is: the manager, a managed
\* process, a command, the pinfo of a popen().
Stays(p, point, m) ==
  /\ pc[p] \notin Gone
  /\ point \notin Gone
  /\ point \in {"exec", "boot", "popen"} => pc[p] = point
  /\ point = "start" => pc[p] = "exec"
  /\ point \in Managing <=> pc[p] \in Managing
  /\ point \in ChildPoints => pc[p] \in ChildPoints \union {"boot"}
  /\ pc[p] \in Asking =>
       \/ point \in Asking \ {"start"}
       \/ pc[p] = "start" /\ mem[p].prog # "pinfo"
  /\ p = PM => /\ m.kid \in {mem[PM].kid, NoPid}
               /\ point \in Managing \ {"readline", "cleanup"} => m.kid # NoPid

\* Its call of message.c is one it can have there.
Legal(p, point, l, m) == Stays(p, point, m) /\ OpenAt(point, l) /\ Reaches(point, l)

\* p neither announces a text nor sets a flag.
Modest(p, point, l, m) ==
  /\ l.at # "kill"
  /\ l.unread_flag => lib[p].unread_flag
  /\ l.unread_flag /\ l.at # "reset" => lib[p].at # "reset"
  /\ m.sigterm_flag = 1 /\ point \notin Terminating =>
       mem[p].sigterm_flag = 1 /\ pc[p] \notin Terminating

\* Functions have the domains and values the proofs below need.
LEMMA Shape ==
  ASSUME TypeInv
  PROVE  /\ pc \in [Pid -> Points] /\ lib \in [Pid -> SoundLib] /\ mem \in [Pid -> SoundMem]
         /\ sig \in [Pid -> SignalType] /\ parent \in [Pid -> Pid \union {InitPid}]
         /\ PM \in Pid
  BY PidFacts DEF TypeInv, KernelInv, Processes, Signals, Kinship

\* The manager is the process at a manager's point.
LEMMA Manager ==
  ASSUME Order, NEW p \in Pid
  PROVE  /\ pc[p] \in Managing => p = PM
         /\ p = PM => pc[p] \in Managing \union {"dead"}
  BY DEF Order, Discipline, OneManager

LEMMA GotoDiscipline ==
  ASSUME TypeInv, Discipline, NEW p \in Pid, NEW point, NEW l, NEW m,
         Goto(p, point, l, m), Legal(p, point, l, m),
         \A q \in Pid : ~sig'[q].int /\ (pc[q] \in Gone => sig'[q] = sig[q]),
         UNCHANGED <<parent, nextPid>>
  PROVE  Discipline'
<1>1. /\ pc \in [Pid -> Points] /\ lib \in [Pid -> SoundLib] /\ mem \in [Pid -> SoundMem]
      /\ sig \in [Pid -> SignalType] /\ PM \in Pid
  BY Shape
<1>2. /\ pc' = [pc EXCEPT ![p] = point]
      /\ lib' = [lib EXCEPT ![p] = l]
      /\ mem' = [mem EXCEPT ![p] = m]
  BY DEF Goto
<1>4. CallsOpen'
  BY <1>1, <1>2 DEF Discipline, CallsOpen, Legal, Stays
<1>5. ManagerReached'
  BY <1>1, <1>2 DEF Discipline, ManagerReached, Legal, Stays
<1>6. OneManager'
  <2>1. pc[p] \notin Gone /\ point \notin Gone /\ (point \in Managing <=> pc[p] \in Managing)
    BY DEF Legal, Stays
  <2>2. p = PM => (point \in Managing \ {"readline", "cleanup"} => m.kid # NoPid)
    BY DEF Legal, Stays
  <2> QED
    BY <1>1, <1>2, <2>1, <2>2 DEF Discipline, OneManager, Gone
<1>7. Relatives'
  <2>1. mem'[PM].kid # NoPid => mem'[PM].kid = mem[PM].kid
    BY <1>1, <1>2 DEF Legal, Stays
  <2>2. ASSUME mem[PM].kid # NoPid
        PROVE  /\ parent[mem[PM].kid] = PM
               /\ pc'[mem[PM].kid] \notin ChildPoints \union {"boot", "unborn"}
    BY <1>1, <1>2, <2>2 DEF Discipline, Relatives, Legal, Stays, Gone
  <2>3. ASSUME NEW x \in Pid, NEW q \in Pid, parent[x] = q
        PROVE  /\ pc'[q] \notin {"exec", "start", "unborn"}
               /\ pc'[q] = "popen" => pc'[x] \in {"start", "info_asked", "info_reply", "exit"} \union Gone
               /\ pc'[q] = "popen" /\ pc'[x] = "start" => mem'[x].prog = "pinfo"
    <3>1. /\ pc[q] \notin {"exec", "start", "unborn"}
          /\ pc[q] = "popen" => pc[x] \in Asking \union Gone
          /\ pc[q] = "popen" /\ pc[x] = "start" => mem[x].prog = "pinfo"
      BY <2>3 DEF Discipline, Relatives, Asking
    <3>2. /\ pc[p] \notin Gone /\ point \notin Gone
          /\ point \in {"exec", "popen"} => pc[p] = point
          /\ point = "start" => pc[p] = "exec"
          /\ pc[p] \in Asking => point \in Asking \ {"start"} \/ (pc[p] = "start" /\ mem[p].prog # "pinfo")
      BY DEF Legal, Stays
    <3> QED
      BY <1>1, <1>2, <3>1, <3>2 DEF Asking, Gone
  <2> QED
    BY <2>1, <2>2, <2>3 DEF Relatives
<1>8. NoInterrupt'
  BY DEF NoInterrupt
<1> QED
  BY <1>4, <1>5, <1>6, <1>7, <1>8 DEF Discipline

\* A modest step keeps the rest of the order, SIGTERM or not.
LEMMA GotoOrder ==
  ASSUME TypeInv, Order, NEW p \in Pid, NEW point, NEW l, NEW m,
         Goto(p, point, l, m), Legal(p, point, l, m), Modest(p, point, l, m),
         UNCHANGED sig \/ \E q : PostTerm(q, p),
         UNCHANGED <<parent, nextPid, fifo>>
  PROVE  Order'
<1>1. /\ pc \in [Pid -> Points] /\ lib \in [Pid -> SoundLib] /\ mem \in [Pid -> SoundMem]
      /\ sig \in [Pid -> SignalType] /\ PM \in Pid
  BY Shape
<1>2. lib' = [lib EXCEPT ![p] = l]
  BY DEF Goto
<1>3. \A q \in Pid : /\ sig'[q].int = sig[q].int
                     /\ sig'[q].usr1 = sig[q].usr1
                     /\ pc[q] \in Gone => sig'[q] = sig[q]
  BY <1>1 DEF PostTerm, Alive, SignalType
<1>4. Discipline'
  <2>1. \A q \in Pid : ~sig'[q].int /\ (pc[q] \in Gone => sig'[q] = sig[q])
    BY <1>3 DEF Order, Discipline, NoInterrupt
  <2> QED
    BY <2>1, GotoDiscipline DEF Order
<1>5. TextThere'
  BY <1>1, <1>2, <1>3 DEF Order, TextThere, Announcing, Modest
<1> QED
  BY <1>4, <1>5 DEF Order

\* p goes on and nothing else changes: the turn stays where it is.
LEMMA GotoKeeps ==
  ASSUME TypeInv, Turn, Order, NEW p \in Pid, NEW point, NEW l, NEW m,
         Goto(p, point, l, m), Legal(p, point, l, m), Modest(p, point, l, m),
         BusyAt(point, l, m) => Busy(p),
         UNCHANGED <<sig, parent, nextPid, fifo>>
  PROVE  Turn' /\ Order'
<1>1. Order'
  BY GotoOrder
<1>2. /\ pc \in [Pid -> Points] /\ lib \in [Pid -> SoundLib] /\ mem \in [Pid -> SoundMem]
      /\ PM \in Pid
  BY Shape
<1>3. /\ pc' = [pc EXCEPT ![p] = point]
      /\ lib' = [lib EXCEPT ![p] = l]
      /\ mem' = [mem EXCEPT ![p] = m]
  BY DEF Goto
<1>4. /\ pc[p] \notin Gone /\ point \notin Gone
      /\ m.sigterm_flag = 1 /\ point \notin Terminating =>
           mem[p].sigterm_flag = 1 /\ pc[p] \notin Terminating
      /\ l.unread_flag => lib[p].unread_flag
      /\ p = PM => m.kid \in {mem[PM].kid, NoPid}
  BY DEF Legal, Stays, Modest
<1>5. NoNewTurn
  <2>1. ASSUME NEW x \in Pid
        PROVE  /\ lib'[x].unread_flag => lib[x].unread_flag
               /\ mem'[x].sigterm_flag = 1 /\ pc'[x] \notin Terminating =>
                    mem[x].sigterm_flag = 1 /\ pc[x] \notin Terminating
               /\ Busy(x)' => Busy(x)
    BY <1>2, <1>3, <1>4 DEF Busy
  <2>2. mem'[PM].kid # NoPid /\ pc'[mem'[PM].kid] = "zombie" =>
          mem[PM].kid # NoPid /\ pc[mem[PM].kid] = "zombie"
    BY <1>2, <1>3, <1>4 DEF Gone
  <2> QED
    BY <2>1, <2>2 DEF NoNewTurn
<1>6. pc[PM] # "dead" => pc'[PM] # "dead"
  BY <1>2, <1>3, <1>4 DEF Gone
<1> QED
  BY <1>1, <1>5, <1>6, KeepTurn

\* p, which has the turn, sends SIGTERM to q and waits for it.
LEMMA GotoTerminates ==
  ASSUME TypeInv, Turn, Order, NEW p \in Pid, NEW point, NEW l, NEW m, NEW q,
         Goto(p, point, l, m), Legal(p, point, l, m), Modest(p, point, l, m),
         Busy(p), PostTerm(q, p), Exists(q) => ~BusyAt(point, l, m),
         UNCHANGED <<parent, nextPid, fifo>>
  PROVE  Turn' /\ Order'
<1>1. Order'
  BY GotoOrder
<1>2. /\ pc \in [Pid -> Points] /\ lib \in [Pid -> SoundLib] /\ mem \in [Pid -> SoundMem]
      /\ sig \in [Pid -> SignalType] /\ PM \in Pid
  BY Shape
<1>3. /\ pc' = [pc EXCEPT ![p] = point]
      /\ lib' = [lib EXCEPT ![p] = l]
      /\ mem' = [mem EXCEPT ![p] = m]
  BY DEF Goto
<1>4. /\ pc[p] \notin Gone /\ point \notin Gone
      /\ m.sigterm_flag = 1 /\ point \notin Terminating =>
           mem[p].sigterm_flag = 1 /\ pc[p] \notin Terminating
      /\ l.unread_flag => lib[p].unread_flag
      /\ p = PM => m.kid \in {mem[PM].kid, NoPid}
  BY DEF Legal, Stays, Modest
<1>5. HasTurn(p, "busy") /\ "busy" \in Claims /\ "term" \in Claims
  BY DEF HasTurn, Claims
<1>6. Only(p, "busy")
  BY <1>5, Holder DEF Turn
<1>7. pc[PM] # "dead" => pc'[PM] # "dead"
  BY <1>2, <1>3, <1>4 DEF Gone
<1>8. \A x \in Pid : sig'[x].usr1 = sig[x].usr1 /\ (x = q \/ sig'[x].term = sig[x].term)
  BY <1>2 DEF PostTerm, SignalType
<1>9. CASE Exists(q)
  <2>1. q \in Pid
    BY <1>9 DEF Exists
  <2>2. Only(q, "term")'
    BY <1>2, <1>3, <1>4, <1>6, <1>8, <1>9, <2>1 DEF Only, Busy, Gone
  <2> QED
    BY <1>1, <1>5, <1>7, <2>1, <2>2, PassTurn DEF Turn
<1>10. CASE ~Exists(q)
  <2>1. sig' = sig
    BY <1>10 DEF PostTerm
  <2> QED
    BY <2>1, GotoKeeps
<1> QED
  BY <1>9, <1>10

-----------------------------------------------------------------------------
(***************************************************************************)
(* The end of a process.                                                   *)
(***************************************************************************)
\* p has ended, having printed `output'.
Ended(p, output) ==
  /\ pc'[p] = IF parent[p] = InitPid THEN "dead" ELSE "zombie"
  /\ lib'[p] = BlankLib /\ sig'[p] = NoSignals /\ mem'[p] = BlankMem
  /\ \A x \in Pid \ {p} :
       /\ pc'[x] = pc[x] \/ (pc[x] = "zombie" /\ pc'[x] = "dead")
       /\ lib'[x] = lib[x]
       /\ sig'[x].usr1 = sig[x].usr1 /\ sig'[x].term = sig[x].term
       /\ sig'[x].int = sig[x].int
       /\ pc[x] \in Gone => sig'[x] = sig[x]
       /\ \/ mem'[x] = mem[x]
          \/ /\ x = parent[p] /\ pc[x] = "popen"
             /\ mem'[x] = [mem[x] EXCEPT !.peer = output]
  /\ \A x \in Pid : parent'[x] = parent[x] \/ (parent[x] = p /\ parent'[x] = InitPid)
  /\ \A x \in Pid : parent[x] # p => parent'[x] = parent[x]
  /\ \A x \in Pid : parent'[x] # p
  /\ nextPid' = nextPid

LEMMA ExitFacts ==
  ASSUME TypeInv, Order, NEW p \in Pid, pc[p] \notin Gone, NEW output, ExitPrinting(p, output)
  PROVE  Ended(p, output)
<1>1. /\ pc \in [Pid -> Points] /\ lib \in [Pid -> SoundLib] /\ mem \in [Pid -> SoundMem]
      /\ sig \in [Pid -> SignalType] /\ parent \in [Pid -> Pid \union {InitPid}]
  BY Shape
<1>2. InitPid # p
  BY PidFacts DEF InitPid, Pid
<1>3. /\ pc'[p] = IF parent[p] = InitPid THEN "dead" ELSE "zombie"
      /\ \A x \in Pid \ {p} : pc'[x] = pc[x] \/ (pc[x] = "zombie" /\ pc'[x] = "dead")
  BY <1>1 DEF ExitPrinting, EndProcess
<1>4. lib'[p] = BlankLib /\ \A x \in Pid \ {p} : lib'[x] = lib[x]
  BY <1>1 DEF ExitPrinting, EndProcess
<1>5. /\ sig'[p] = NoSignals
      /\ \A x \in Pid \ {p} :
           /\ sig'[x].usr1 = sig[x].usr1 /\ sig'[x].term = sig[x].term /\ sig'[x].int = sig[x].int
           /\ pc[x] \in Gone => sig'[x] = sig[x]
  <2>1. sig'[p] = NoSignals
    BY DEF ExitPrinting, EndProcess
  <2>2. ASSUME NEW x \in Pid \ {p}
        PROVE  /\ sig'[x] = sig[x] \/ sig'[x] = [sig[x] EXCEPT !.chld = TRUE]
               /\ pc[x] \in Gone => sig'[x] = sig[x]
    BY DEF ExitPrinting, EndProcess, ChildPoints, Gone
  <2>3. \A x \in Pid : sig[x] \in SignalType
    BY <1>1
  <2> QED
    BY <2>1, <2>2, <2>3 DEF SignalType
<1>6. /\ mem'[p] = BlankMem
      /\ \A x \in Pid \ {p} :
           \/ mem'[x] = mem[x]
           \/ x = parent[p] /\ pc[x] = "popen" /\ mem'[x] = [mem[x] EXCEPT !.peer = output]
  BY DEF ExitPrinting
<1>7. \A x \in Pid : parent'[x] = IF parent[x] = p THEN InitPid ELSE parent[x]
  BY DEF ExitPrinting, EndProcess
<1>8. nextPid' = nextPid
  BY DEF ExitPrinting
<1> QED
  BY <1>2, <1>3, <1>4, <1>5, <1>6, <1>7, <1>8 DEF Ended

LEMMA ExitOrder ==
  ASSUME TypeInv, Order, NEW p \in Pid, pc[p] \notin Gone, NEW output, ExitPrinting(p, output),
         UNCHANGED fifo
  PROVE  Order'
<1>1. /\ pc \in [Pid -> Points] /\ lib \in [Pid -> SoundLib] /\ mem \in [Pid -> SoundMem]
      /\ sig \in [Pid -> SignalType] /\ parent \in [Pid -> Pid \union {InitPid}] /\ PM \in Pid
      /\ PM # InitPid /\ InitPid \notin Pid
  BY Shape, PidFacts DEF PM, InitPid, Pid
<1> Ended(p, output)
  BY ExitFacts
<1>2. /\ pc'[p] \in {"dead", "zombie"}
      /\ lib'[p] = BlankLib /\ sig'[p] = NoSignals /\ mem'[p] = BlankMem
      /\ \A x \in Pid \ {p} :
           /\ pc'[x] = pc[x] \/ (pc[x] = "zombie" /\ pc'[x] = "dead")
           /\ lib'[x] = lib[x]
           /\ sig'[x].usr1 = sig[x].usr1 /\ sig'[x].int = sig[x].int
           /\ pc[x] \in Gone => sig'[x] = sig[x]
           /\ mem'[x].kid = mem[x].kid /\ mem'[x].prog = mem[x].prog
           /\ mem'[x].sigterm_flag = mem[x].sigterm_flag
      /\ \A x \in Pid : parent'[x] = parent[x] \/ parent'[x] = InitPid
      /\ \A x \in Pid : parent[x] # p => parent'[x] = parent[x]
      /\ \A x \in Pid : parent'[x] # p
      /\ nextPid' = nextPid
  <2>1. \A x \in Pid : mem[x] \in MemType
    BY <1>1 DEF SoundMem
  <2>2. \A x \in Pid \ {p} : mem'[x] = mem[x] \/ mem'[x] = [mem[x] EXCEPT !.peer = output]
    BY DEF Ended
  <2>3. ASSUME NEW x \in Pid \ {p}
        PROVE  /\ mem'[x].kid = mem[x].kid /\ mem'[x].prog = mem[x].prog
               /\ mem'[x].sigterm_flag = mem[x].sigterm_flag
    <3>1. mem[x] \in MemType /\ (mem'[x] = mem[x] \/ mem'[x] = [mem[x] EXCEPT !.peer = output])
      BY <2>1, <2>2
    <3> QED
      BY <3>1 DEF MemType
  <2>4. /\ pc'[p] = IF parent[p] = InitPid THEN "dead" ELSE "zombie"
        /\ lib'[p] = BlankLib /\ sig'[p] = NoSignals /\ mem'[p] = BlankMem
    BY DEF Ended
  <2>5. \A x \in Pid \ {p} :
          /\ pc'[x] = pc[x] \/ (pc[x] = "zombie" /\ pc'[x] = "dead")
          /\ lib'[x] = lib[x]
          /\ sig'[x].usr1 = sig[x].usr1 /\ sig'[x].int = sig[x].int
          /\ pc[x] \in Gone => sig'[x] = sig[x]
    BY DEF Ended
  <2>6. /\ \A x \in Pid : parent'[x] = parent[x] \/ parent'[x] = InitPid
        /\ \A x \in Pid : parent[x] # p => parent'[x] = parent[x]
        /\ \A x \in Pid : parent'[x] # p
        /\ nextPid' = nextPid
    BY DEF Ended
  <2> QED
    BY <2>3, <2>4, <2>5, <2>6
<1>3. CallsOpen'
  <2>1. BlankLib.at = "ret" /\ BlankMem.sigterm_flag = 0
    BY DEF BlankLib, BlankMem
  <2>2. ASSUME NEW x \in Pid
        PROVE  OpenAt(pc'[x], lib'[x])
    <3>1. CASE x = p
      BY <1>2, <2>1, <3>1 DEF OpenAt
    <3>2. CASE x # p
      <4>1. OpenAt(pc[x], lib[x]) /\ (pc[x] = "zombie" => lib[x] = BlankLib)
        BY DEF Order, Discipline, CallsOpen, Gone
      <4> QED
        BY <1>2, <2>1, <3>2, <4>1 DEF OpenAt
    <3> QED
      BY <3>1, <3>2
  <2>3. ASSUME NEW x \in Pid, pc'[x] \in Gone
        PROVE  lib'[x] = BlankLib /\ sig'[x] = NoSignals /\ mem'[x].sigterm_flag = 0
    <3>1. pc[x] \in Gone => lib[x] = BlankLib /\ sig[x] = NoSignals /\ mem[x].sigterm_flag = 0
      BY DEF Order, Discipline, CallsOpen
    <3> QED
      BY <1>2, <2>1, <2>3, <3>1 DEF Gone
  <2> QED
    BY <2>2, <2>3 DEF CallsOpen
<1>4. ManagerReached'
  <2>1. \A x \in Pid : Reaches(pc[x], lib[x])
    BY DEF Order, Discipline, ManagerReached
  <2>2. ASSUME NEW x \in Pid PROVE Reaches(pc'[x], lib'[x])
    BY <1>2, <2>1 DEF Reaches
  <2> QED
    BY <2>2 DEF ManagerReached
<1>5. OneManager'
  <2>1. OneManager
    BY DEF Order, Discipline
  <2>2. BlankMem.kid = NoPid
    BY DEF BlankMem
  <2>3. parent[PM] = InitPid /\ p < nextPid /\ InitPid < nextPid
    BY <2>1, PidFacts, <1>1 DEF OneManager, Gone, Pid, InitPid, PM, TypeInv, KernelInv, Kinship
  <2>4. p = PM => pc'[p] = "dead"
    BY <2>3 DEF Ended
  <2>5. /\ pc'[PM] \in Managing \union {"dead"}
        /\ pc'[PM] \in Managing \ {"readline", "cleanup"} => mem'[PM].kid # NoPid
        /\ \A x \in Pid \ {PM} : pc'[x] \notin Managing
    BY <1>1, <1>2, <2>1, <2>4 DEF OneManager, Managing, ManagerPoints
  <2>6. \A x \in Pid : x >= nextPid' => pc'[x] = "unborn"
    BY <1>1, <1>2, <2>1, <2>3 DEF OneManager, Gone
  <2>7. \A x \in Pid : parent'[x] < nextPid'
    BY <1>1, <1>2, <2>1, <2>3 DEF OneManager
  <2>8. parent'[PM] = InitPid
    BY <1>1, <1>2, <2>3
  <2> QED
    BY <1>2, <2>1, <2>5, <2>6, <2>7, <2>8 DEF OneManager
<1>6. Relatives'
  <2>1. Relatives
    BY DEF Order, Discipline
  <2>2. ASSUME mem'[PM].kid # NoPid
        PROVE  /\ parent'[mem'[PM].kid] = PM
               /\ pc'[mem'[PM].kid] \notin ChildPoints \union {"boot", "unborn"}
    <3>1. PM # p
      BY <1>2, <2>2 DEF BlankMem
    <3>2. mem'[PM].kid = mem[PM].kid /\ mem[PM].kid \in Pid
      BY <1>1, <1>2, <2>2, <3>1 DEF SoundMem, MemType
    <3>3. parent'[mem[PM].kid] = PM
      BY <1>2, <2>1, <2>2, <3>1, <3>2 DEF Relatives
    <3>4. pc'[mem[PM].kid] \notin ChildPoints \union {"boot", "unborn"}
      BY <1>2, <2>1, <2>2, <3>2 DEF Relatives, ChildPoints
    <3> QED
      BY <3>2, <3>3, <3>4
  <2>3. ASSUME NEW x \in Pid, NEW q \in Pid, parent'[x] = q
        PROVE  /\ pc'[q] \notin {"exec", "start", "unborn"}
               /\ pc'[q] = "popen" =>
                    pc'[x] \in {"start", "info_asked", "info_reply", "exit"} \union Gone
               /\ pc'[q] = "popen" /\ pc'[x] = "start" => mem'[x].prog = "pinfo"
    <3>1. parent[x] = q /\ q # p
      BY <1>1, <1>2, <2>3
    <3> QED
      BY <1>2, <2>1, <3>1 DEF Relatives, Gone
  <2> QED
    BY <2>2, <2>3 DEF Relatives
<1>7. NoInterrupt'
  BY <1>2 DEF Order, Discipline, NoInterrupt, NoSignals
<1>8. TextThere'
  <2>1. BlankLib.at = "ret" /\ ~BlankLib.unread_flag /\ NoSignals.usr1 = NoPid
    BY DEF BlankLib, NoSignals
  <2>2. \A x \in Pid : Announcing(x)' => Announcing(x)
    BY <1>2, <2>1 DEF Announcing
  <2> QED
    BY <2>2 DEF Order, TextThere
<1> QED
  BY <1>3, <1>4, <1>5, <1>6, <1>7, <1>8 DEF Order, Discipline

\* What is left to the others when p has ended.
LEMMA Survivors ==
  ASSUME TypeInv, Order, NEW p \in Pid, pc[p] \notin Gone, NEW output, ExitPrinting(p, output)
  PROVE  /\ ~Busy(p)' /\ mem'[p].sigterm_flag = 0 /\ ~lib'[p].unread_flag
         /\ sig'[p].usr1 = NoPid /\ sig'[p].term = NoPid
         /\ \A x \in Pid \ {p} :
              /\ Busy(x)' => Busy(x) \/ (x = parent[p] /\ pc[x] = "popen")
              /\ mem'[x].sigterm_flag = 1 /\ pc'[x] \notin Terminating =>
                   mem[x].sigterm_flag = 1 /\ pc[x] \notin Terminating
              /\ lib'[x] = lib[x]
              /\ sig'[x].usr1 = sig[x].usr1 /\ sig'[x].term = sig[x].term
         /\ p # PM => mem'[PM] = mem[PM]
<1> Ended(p, output)
  BY ExitFacts
<1>1. /\ pc \in [Pid -> Points] /\ lib \in [Pid -> SoundLib] /\ mem \in [Pid -> SoundMem]
      /\ sig \in [Pid -> SignalType] /\ PM \in Pid
  BY Shape
<1>2. /\ ~Busy(p)' /\ mem'[p].sigterm_flag = 0 /\ ~lib'[p].unread_flag
      /\ sig'[p].usr1 = NoPid /\ sig'[p].term = NoPid
  BY DEF Ended, Busy, BusyAt, BlankLib, BlankMem, NoSignals, Receiving, Sending
<1>3. ASSUME NEW x \in Pid \ {p}
      PROVE  /\ Busy(x)' => Busy(x) \/ (x = parent[p] /\ pc[x] = "popen")
             /\ mem'[x].sigterm_flag = 1 /\ pc'[x] \notin Terminating =>
                  mem[x].sigterm_flag = 1 /\ pc[x] \notin Terminating
  <2>1. /\ lib'[x] = lib[x]
        /\ pc'[x] = pc[x] \/ (pc[x] = "zombie" /\ pc'[x] = "dead")
        /\ \/ mem'[x] = mem[x]
           \/ x = parent[p] /\ pc[x] = "popen" /\ mem'[x] = [mem[x] EXCEPT !.peer = output]
    BY DEF Ended
  <2>2. mem[x] \in MemType
    BY <1>1 DEF SoundMem
  <2>3. mem'[x].sigterm_flag = mem[x].sigterm_flag
    BY <2>1, <2>2 DEF MemType
  <2>4. CASE pc'[x] = pc[x]
    BY <2>1, <2>3, <2>4 DEF Busy, BusyAt
  <2>5. CASE pc[x] = "zombie" /\ pc'[x] = "dead"
    <3>1. lib[x].at = "ret" /\ mem[x].sigterm_flag = 0
      BY <2>5 DEF Order, Discipline, CallsOpen, Gone, BlankLib
    <3> QED
      BY <2>1, <2>3, <2>5, <3>1 DEF Busy, BusyAt, Receiving, Sending
  <2> QED
    BY <2>1, <2>4, <2>5
<1>4. p # PM => mem'[PM] = mem[PM]
  BY <1>1, Manager DEF Ended, Managing, ManagerPoints
<1>5. \A x \in Pid \ {p} : /\ lib'[x] = lib[x]
                           /\ sig'[x].usr1 = sig[x].usr1 /\ sig'[x].term = sig[x].term
  BY DEF Ended
<1> QED
  BY <1>2, <1>3, <1>4, <1>5

\* A process that has the turn ends: its parent goes on.
LEMMA ExitTurn ==
  ASSUME TypeInv, Turn, Order, NEW p \in Pid, pc[p] \notin Gone, p # PM, Busy(p),
         NEW output, ExitPrinting(p, output), UNCHANGED fifo
  PROVE  Turn' /\ Order'
<1>1. Order'
  BY ExitOrder
<1>2. Ended(p, output) /\ PM \in Pid
  BY ExitFacts, Shape
<1>3. /\ ~Busy(p)' /\ mem'[p].sigterm_flag = 0 /\ ~lib'[p].unread_flag
      /\ sig'[p].usr1 = NoPid /\ sig'[p].term = NoPid
      /\ \A x \in Pid \ {p} :
           /\ Busy(x)' => Busy(x) \/ (x = parent[p] /\ pc[x] = "popen")
           /\ mem'[x].sigterm_flag = 1 /\ pc'[x] \notin Terminating =>
                mem[x].sigterm_flag = 1 /\ pc[x] \notin Terminating
           /\ lib'[x] = lib[x]
           /\ sig'[x].usr1 = sig[x].usr1 /\ sig'[x].term = sig[x].term
      /\ mem'[PM] = mem[PM]
  BY Survivors
<1>4. HasTurn(p, "busy") /\ {"busy", "reap"} \subseteq Claims
  BY DEF HasTurn, Claims
<1>5. Only(p, "busy")
  BY <1>4, Holder DEF Turn
<1>6. pc[PM] # "dead" => pc'[PM] # "dead"
  BY <1>2, Manager DEF Ended, Managing, ManagerPoints
<1>7. CASE mem[PM].kid = p
  <2>1. parent[p] = PM
    BY <1>7, PidFacts DEF Order, Discipline, Relatives, NoPid, Pid
  <2>2. pc[PM] # "popen"
    BY <1>2, Manager DEF Managing, ManagerPoints
  <2>3. Only(PM, "reap")'
    BY <1>3, <1>5, <2>1, <2>2 DEF Only
  <2> QED
    BY <1>1, <1>2, <1>4, <1>6, <2>3, PassTurn DEF Turn
<1>8. CASE mem[PM].kid # p
  <2>1. mem'[PM].kid # NoPid => pc'[mem'[PM].kid] # "zombie"
    <3>1. mem[PM].kid \in Pid \union {NoPid}
      BY <1>2, Shape DEF SoundMem, MemType
    <3>2. mem[PM].kid # NoPid => pc[mem[PM].kid] # "zombie"
      BY <1>5 DEF Only
    <3>3. \A x \in Pid \ {p} : pc'[x] = "zombie" => pc[x] = "zombie"
      BY <1>2 DEF Ended
    <3> QED
      BY <1>3, <1>8, <3>1, <3>2, <3>3
  <2>2. CASE parent[p] \in Pid
    <3>1. PICK q \in Pid : parent[p] = q
      BY <2>2
    <3>2. Only(q, "busy")'
      BY <1>3, <1>5, <2>1, <3>1 DEF Only
    <3> QED
      BY <1>1, <1>4, <1>6, <3>2, PassTurn DEF Turn
  <2>3. CASE parent[p] \notin Pid
    <3>1. Only(NoPid, "none")'
      BY <1>3, <1>5, <2>1, <2>3 DEF Only
    <3> QED
      BY <1>1, <3>1, NoTurn
  <2> QED
    BY <2>2, <2>3
<1> QED
  BY <1>7, <1>8

\* A managed process ends after its removal, when it has resumed the sender.
LEMMA ExitKeeps ==
  ASSUME TypeInv, Turn, Order, NEW p \in Pid, pc[p] \in ChildPoints,
         NEW output, ExitPrinting(p, output), UNCHANGED fifo
  PROVE  Turn' /\ Order'
<1>1. pc[p] \notin Gone /\ p # PM
  BY Manager DEF ChildPoints, Gone, Managing, ManagerPoints
<1>2. Order'
  BY <1>1, ExitOrder
<1>3. Ended(p, output) /\ PM \in Pid
  BY <1>1, ExitFacts, Shape
<1>4. /\ ~Busy(p)' /\ mem'[p].sigterm_flag = 0 /\ ~lib'[p].unread_flag
      /\ sig'[p].usr1 = NoPid /\ sig'[p].term = NoPid
      /\ \A x \in Pid \ {p} :
           /\ Busy(x)' => Busy(x) \/ (x = parent[p] /\ pc[x] = "popen")
           /\ mem'[x].sigterm_flag = 1 /\ pc'[x] \notin Terminating =>
                mem[x].sigterm_flag = 1 /\ pc[x] \notin Terminating
           /\ lib'[x] = lib[x]
           /\ sig'[x].usr1 = sig[x].usr1 /\ sig'[x].term = sig[x].term
      /\ mem'[PM] = mem[PM]
  BY <1>1, Survivors
<1>5. \A x \in Pid : ~(x = parent[p] /\ pc[x] = "popen")
  BY DEF Order, Discipline, Relatives, ChildPoints, Gone
<1>6. mem[PM].kid # NoPid => mem[PM].kid # p
  BY DEF Order, Discipline, Relatives
<1>7. mem'[PM].kid # NoPid /\ pc'[mem'[PM].kid] = "zombie" =>
        mem[PM].kid # NoPid /\ pc[mem[PM].kid] = "zombie"
  <2>1. mem[PM].kid \in Pid \union {NoPid}
    BY <1>3, Shape DEF SoundMem, MemType
  <2>2. \A x \in Pid \ {p} : pc'[x] = "zombie" => pc[x] = "zombie"
    BY <1>3 DEF Ended
  <2> QED
    BY <1>4, <1>6, <2>1, <2>2
<1>8. NoNewTurn
  <2>1. ASSUME NEW x \in Pid
        PROVE  /\ sig'[x].usr1 # NoPid => sig[x].usr1 # NoPid
               /\ lib'[x].unread_flag => lib[x].unread_flag
               /\ sig'[x].term # NoPid => sig[x].term # NoPid
               /\ mem'[x].sigterm_flag = 1 /\ pc'[x] \notin Terminating =>
                    mem[x].sigterm_flag = 1 /\ pc[x] \notin Terminating
               /\ Busy(x)' => Busy(x)
    BY <1>4, <1>5
  <2> QED
    BY <1>7, <2>1 DEF NoNewTurn
<1>9. pc[PM] # "dead" => pc'[PM] # "dead"
  BY <1>1, <1>3, Manager DEF Ended, Managing, ManagerPoints
<1> QED
  BY <1>2, <1>8, <1>9, KeepTurn

\* pmanager, which has the turn, ends: nobody has it any more.
LEMMA ManagerEnds ==
  ASSUME TypeInv, Turn, Order, pc[PM] \notin Gone, NEW c \in Claims, Only(PM, c),
         NEW output, ExitPrinting(PM, output), UNCHANGED fifo
  PROVE  Turn' /\ Order'
<1>1. PM \in Pid
  BY Shape
<1>2. Order'
  BY <1>1, ExitOrder
<1>3. /\ ~Busy(PM)' /\ mem'[PM].sigterm_flag = 0 /\ ~lib'[PM].unread_flag
      /\ sig'[PM].usr1 = NoPid /\ sig'[PM].term = NoPid
      /\ \A x \in Pid \ {PM} :
           /\ Busy(x)' => Busy(x) \/ (x = parent[PM] /\ pc[x] = "popen")
           /\ mem'[x].sigterm_flag = 1 /\ pc'[x] \notin Terminating =>
                mem[x].sigterm_flag = 1 /\ pc[x] \notin Terminating
           /\ lib'[x] = lib[x]
           /\ sig'[x].usr1 = sig[x].usr1 /\ sig'[x].term = sig[x].term
  BY <1>1, Survivors
<1>4. parent[PM] = InitPid /\ InitPid \notin Pid
  BY PidFacts DEF Order, Discipline, OneManager, InitPid, Pid
<1>5. mem'[PM].kid = NoPid
  BY <1>1, ExitFacts DEF Ended, BlankMem
<1>6. Only(NoPid, "none")'
  BY <1>1, <1>3, <1>4, <1>5 DEF Only
<1> QED
  BY <1>2, <1>6, NoTurn

-----------------------------------------------------------------------------
(***************************************************************************)
(* A new process.                                                          *)
(***************************************************************************)
\* p forks a process that starts at `kidPoint', or is the pinfo of a popen().
ForkLegal(p, point, l, m, kidPoint, kidLib, kidMem) ==
  /\ pc[p] \notin Gone \union {"exec", "boot", "popen"}
  /\ pc[p] \in Asking => pc[p] = "start" /\ mem[p].prog # "pinfo"
  /\ point \notin Gone \union {"exec", "boot", "start"}
  /\ point = "popen" => pc[p] = "start" /\ kidPoint = "start" /\ kidMem.prog = "pinfo"
  /\ OpenAt(point, l) /\ Reaches(point, l)
  /\ l.at # "kill" /\ ~l.unread_flag
  /\ point \in Managing <=> pc[p] \in Managing
  /\ point \in ChildPoints => pc[p] \in ChildPoints
  /\ p = PM => /\ kidPoint = "exec" /\ m.kid = nextPid
               /\ point \notin {"readline", "cleanup"}
  /\ kidPoint \in {"exec", "start", "boot", "loop"}
  /\ kidLib.at = "ret" /\ ~kidLib.unread_flag

LEMMA ForkFacts ==
  ASSUME TypeInv, Order, NEW p \in Pid, pc[p] \notin Gone, NEW point, NEW l, NEW m,
         NEW kidPoint, NEW kidLib, NEW kidMem,
         Fork(p, point, l, m, kidPoint, kidLib, kidMem)
  PROVE  /\ nextPid \in Pid /\ nextPid # p /\ nextPid # PM /\ pc[nextPid] = "unborn"
         /\ p < nextPid /\ nextPid' = nextPid + 1 /\ nextPid \in Nat
         /\ pc'[p] = point /\ pc'[nextPid] = kidPoint
         /\ lib'[p] = l /\ lib'[nextPid] = kidLib
         /\ mem'[p] = m /\ mem'[nextPid] = kidMem
         /\ parent'[nextPid] = p
         /\ \A x \in Pid \ {nextPid} : parent'[x] = parent[x]
         /\ \A x \in Pid \ {p, nextPid} :
              pc'[x] = pc[x] /\ lib'[x] = lib[x] /\ mem'[x] = mem[x]
<1>1. /\ pc \in [Pid -> Points] /\ lib \in [Pid -> SoundLib] /\ mem \in [Pid -> SoundMem]
      /\ parent \in [Pid -> Pid \union {InitPid}]
  BY Shape
<1>2. nextPid \in Pid /\ nextPid \in Nat
  BY PidFacts DEF Fork, TypeInv, KernelInv, Kinship, Pid
<1>3. /\ nextPid # PM /\ pc[nextPid] = "unborn"
      /\ p < nextPid
  BY <1>2, PidFacts DEF Order, Discipline, OneManager, Gone, Pid, PM
<1>4. nextPid # p
  BY <1>3 DEF Gone
<1>5. /\ pc'  = [pc EXCEPT ![p] = point, ![nextPid] = kidPoint]
      /\ lib' = [lib EXCEPT ![p] = l, ![nextPid] = kidLib]
      /\ mem' = [mem EXCEPT ![p] = m, ![nextPid] = kidMem]
      /\ parent' = [parent EXCEPT ![nextPid] = p]
      /\ nextPid' = nextPid + 1
  BY DEF Fork
<1> QED
  BY <1>1, <1>2, <1>3, <1>4, <1>5

LEMMA ForkOrder ==
  ASSUME TypeInv, Order, NEW p \in Pid, NEW point, NEW l, NEW m,
         NEW kidPoint, NEW kidLib, NEW kidMem,
         Fork(p, point, l, m, kidPoint, kidLib, kidMem),
         ForkLegal(p, point, l, m, kidPoint, kidLib, kidMem),
         UNCHANGED <<sig, fifo>>
  PROVE  Order'
<1> DEFINE k == nextPid
<1>1. /\ k \in Pid /\ k # p /\ k # PM /\ pc[k] = "unborn"
      /\ p < k /\ nextPid' = k + 1 /\ k \in Nat
      /\ pc'[p] = point /\ pc'[k] = kidPoint
      /\ lib'[p] = l /\ lib'[k] = kidLib
      /\ mem'[p] = m /\ mem'[k] = kidMem
      /\ parent'[k] = p
      /\ \A x \in Pid \ {k} : parent'[x] = parent[x]
      /\ \A x \in Pid \ {p, k} : pc'[x] = pc[x] /\ lib'[x] = lib[x] /\ mem'[x] = mem[x]
  BY ForkFacts DEF ForkLegal
<1>2. /\ mem[PM].kid \in Pid \union {NoPid} /\ PM \in Pid /\ PM \in Nat /\ Pid \subseteq Nat
  BY Shape, PidFacts DEF SoundMem, MemType
<1>3. CallsOpen'
  <2>1. OpenAt(point, l) /\ OpenAt(kidPoint, kidLib) /\ point \notin Gone /\ kidPoint \notin Gone
    BY DEF ForkLegal, OpenAt, Gone
  <2> QED
    BY <1>1, <2>1 DEF Order, Discipline, CallsOpen
<1>4. ManagerReached'
  <2>1. Reaches(point, l) /\ Reaches(kidPoint, kidLib)
    BY DEF ForkLegal, Reaches
  <2> QED
    BY <1>1, <2>1 DEF Order, Discipline, ManagerReached
<1>5. OneManager'
  <2>1. OneManager
    BY DEF Order, Discipline
  <2>2. /\ point \in Managing <=> pc[p] \in Managing
        /\ kidPoint \notin Managing /\ point \notin Gone
        /\ p = PM => m.kid = k
    BY DEF ForkLegal, Managing, ManagerPoints
  <2>3. k # NoPid
    BY <1>1 DEF NoPid
  <2>4. p = PM => pc[p] \in Managing
    BY Manager DEF ForkLegal, Gone
  <2>5. /\ pc'[PM] \in Managing \union {"dead"}
        /\ pc'[PM] \in Managing \ {"readline", "cleanup"} => mem'[PM].kid # NoPid
        /\ \A x \in Pid \ {PM} : pc'[x] \notin Managing
    BY <1>1, <1>2, <2>1, <2>2, <2>3, <2>4 DEF OneManager
  <2>6. nextPid' > PM /\ \A x \in Pid : x >= nextPid' => pc'[x] = "unborn"
    BY <1>1, <1>2, <2>1 DEF OneManager
  <2>7. \A x \in Pid : parent'[x] < nextPid'
    <3>1. \A x \in Pid : parent[x] \in Nat
      BY StateFacts DEF TypeInv
    <3> QED
      BY <1>1, <1>2, <2>1, <3>1 DEF OneManager
  <2>8. parent'[PM] = InitPid
    BY <1>1, <1>2, <2>1 DEF OneManager
  <2> QED
    BY <2>5, <2>6, <2>7, <2>8 DEF OneManager
<1>6. Relatives'
  <2>1. Relatives
    BY DEF Order, Discipline
  <2>2. ASSUME mem'[PM].kid # NoPid
        PROVE  /\ parent'[mem'[PM].kid] = PM
               /\ pc'[mem'[PM].kid] \notin ChildPoints \union {"boot", "unborn"}
    <3>1. CASE p = PM
      <4>1. m.kid = k /\ kidPoint = "exec"
        BY <3>1 DEF ForkLegal
      <4> QED
        BY <1>1, <3>1, <4>1 DEF ChildPoints
    <3>2. CASE p # PM
      <4>1. mem'[PM].kid = mem[PM].kid
        BY <1>1, <1>2, <3>2
      <4>2. /\ parent[mem[PM].kid] = PM
            /\ pc[mem[PM].kid] \notin ChildPoints \union {"boot", "unborn"}
        BY <2>1, <2>2, <4>1 DEF Relatives
      <4>3. /\ point \in ChildPoints => pc[p] \in ChildPoints
            /\ point \notin {"boot", "unborn"}
        BY DEF ForkLegal, Gone
      <4> QED
        BY <1>1, <1>2, <2>2, <4>1, <4>2, <4>3
    <3> QED
      BY <3>1, <3>2
  <2>3. ASSUME NEW x \in Pid, NEW q \in Pid, parent'[x] = q
        PROVE  /\ pc'[q] \notin {"exec", "start", "unborn"}
               /\ pc'[q] = "popen" =>
                    pc'[x] \in {"start", "info_asked", "info_reply", "exit"} \union Gone
               /\ pc'[q] = "popen" /\ pc'[x] = "start" => mem'[x].prog = "pinfo"
    <3>1. /\ point \notin {"exec", "start", "unborn"}
          /\ point = "popen" => pc[p] = "start" /\ kidPoint = "start" /\ kidMem.prog = "pinfo"
          /\ pc[p] \in Asking => pc[p] = "start" /\ mem[p].prog # "pinfo"
          /\ pc[p] \notin Gone
      BY DEF ForkLegal, Gone
    <3>2. CASE x = k
      BY <1>1, <2>3, <3>1, <3>2
    <3>3. CASE x # k
      <4>1. /\ parent[x] = q
            /\ q # k
        <5>1. parent[x] = q
          BY <1>1, <2>3, <3>3
        <5>2. parent[x] < k
          BY DEF Order, Discipline, OneManager
        <5> QED
          BY <1>1, <1>2, <5>1, <5>2
      <4>2. /\ pc[q] \notin {"exec", "start", "unborn"}
            /\ pc[q] = "popen" => pc[x] \in Asking \union Gone
            /\ pc[q] = "popen" /\ pc[x] = "start" => mem[x].prog = "pinfo"
        BY <2>1, <4>1 DEF Relatives, Asking
      <4>3. CASE q = p
        BY <1>1, <3>1, <4>2, <4>3
      <4>4. CASE q # p
        <5>1. pc'[q] = pc[q]
          BY <1>1, <4>1, <4>4
        <5>2. CASE x = p
          BY <1>1, <3>1, <4>2, <5>1, <5>2 DEF Asking
        <5>3. CASE x # p
          BY <1>1, <3>3, <4>2, <5>1, <5>3 DEF Asking
        <5> QED
          BY <5>2, <5>3
      <4> QED
        BY <4>3, <4>4
    <3> QED
      BY <3>2, <3>3
  <2> QED
    BY <2>2, <2>3 DEF Relatives
<1>7. NoInterrupt'
  BY DEF Order, Discipline, NoInterrupt
<1>8. TextThere'
  <2>1. sig[k] = NoSignals /\ NoSignals.usr1 = NoPid
    BY <1>1 DEF Order, Discipline, CallsOpen, Gone, NoSignals
  <2>2. l.at # "kill" /\ ~l.unread_flag /\ kidLib.at = "ret" /\ ~kidLib.unread_flag
    BY DEF ForkLegal
  <2>3. \A x \in Pid : Announcing(x)' => Announcing(x)
    BY <1>1, <2>1, <2>2 DEF Announcing
  <2> QED
    BY <2>3 DEF Order, TextThere
<1> QED
  BY <1>3, <1>4, <1>5, <1>6, <1>7, <1>8 DEF Order, Discipline

\* Either p goes on or the new process does.
LEMMA ForkTurn ==
  ASSUME TypeInv, Turn, Order, NEW p \in Pid, NEW point, NEW l, NEW m,
         NEW kidPoint, NEW kidLib, NEW kidMem,
         Fork(p, point, l, m, kidPoint, kidLib, kidMem),
         ForkLegal(p, point, l, m, kidPoint, kidLib, kidMem),
         Busy(p), m.sigterm_flag = 0, kidMem.sigterm_flag = 0,
         BusyAt(point, l, m) => ~BusyAt(kidPoint, kidLib, kidMem),
         UNCHANGED <<sig, fifo>>
  PROVE  Turn' /\ Order'
<1>0. PICK k \in Pid : k = nextPid
  BY ForkFacts DEF ForkLegal
<1>1. Order'
  BY ForkOrder
<1>2. /\ k \in Pid /\ k # p /\ k # PM /\ pc[k] = "unborn"
      /\ pc'[p] = point /\ pc'[k] = kidPoint
      /\ lib'[p] = l /\ lib'[k] = kidLib
      /\ mem'[p] = m /\ mem'[k] = kidMem
      /\ \A x \in Pid \ {p, k} : pc'[x] = pc[x] /\ lib'[x] = lib[x] /\ mem'[x] = mem[x]
  BY <1>0, ForkFacts DEF ForkLegal
<1>3. /\ ~l.unread_flag /\ ~kidLib.unread_flag
      /\ p = PM => kidPoint = "exec" /\ m.kid = k
      /\ pc[p] \notin Gone /\ point \notin Gone /\ kidPoint \notin Gone
  BY <1>0 DEF ForkLegal, Gone
<1>4. HasTurn(p, "busy") /\ "busy" \in Claims
  BY DEF HasTurn, Claims
<1>5. Only(p, "busy")
  BY <1>4, Holder DEF Turn
<1>6. PM \in Pid /\ mem[PM].kid \in Pid \union {NoPid}
  BY Shape DEF SoundMem, MemType
<1>7. pc[PM] # "dead" => pc'[PM] # "dead"
  BY <1>2, <1>3, <1>6 DEF Gone
<1>8. mem'[PM].kid # NoPid => pc'[mem'[PM].kid] # "zombie"
  <2>1. mem[PM].kid # NoPid => pc[mem[PM].kid] # "zombie"
    BY <1>5 DEF Only
  <2>2. \A x \in Pid : pc'[x] = "zombie" => pc[x] = "zombie"
    BY <1>2, <1>3 DEF Gone
  <2>3. CASE p = PM
    BY <1>2, <1>3, <2>3
  <2>4. CASE p # PM
    BY <1>2, <1>6, <2>1, <2>2, <2>4
  <2> QED
    BY <2>3, <2>4
<1>9. \A x \in Pid :
        /\ sig'[x].usr1 = NoPid /\ sig'[x].term = NoPid /\ ~lib'[x].unread_flag
        /\ ~(mem'[x].sigterm_flag = 1 /\ pc'[x] \notin Terminating)
        /\ x \notin {p, k} => ~Busy(x)'
  BY <1>2, <1>3, <1>5 DEF Only, Busy
<1>10. CASE BusyAt(point, l, m)
  <2>1. ~Busy(k)'
    BY <1>2, <1>10 DEF Busy
  <2>2. Only(p, "busy")'
    BY <1>8, <1>9, <2>1 DEF Only
  <2> QED
    BY <1>1, <1>4, <1>7, <2>2, PassTurn DEF Turn
<1>11. CASE ~BusyAt(point, l, m)
  <2>1. ~Busy(p)'
    BY <1>2, <1>11 DEF Busy
  <2>2. Only(k, "busy")'
    BY <1>8, <1>9, <2>1 DEF Only
  <2> QED
    BY <1>1, <1>4, <1>7, <2>2, PassTurn DEF Turn
<1> QED
  BY <1>10, <1>11

-----------------------------------------------------------------------------
(***************************************************************************)
(* The steps of a program.                                                 *)
(***************************************************************************)
LEMMA CallFacts ==
  ASSUME TypeInv, NEW p \in Pid, NEW to, NEW type, NEW content
  PROVE  /\ message_send(p, to, type, content).at = "write"
         /\ message_send(p, to, type, content).pid = to
         /\ message_send(p, to, type, content).unread_flag = lib[p].unread_flag
         /\ message_wait(p, to).at = "check"
         /\ message_wait(p, to).unread_flag = lib[p].unread_flag
         /\ message_read(p).at = "read"
         /\ message_read(p).unread_flag = lib[p].unread_flag
         /\ [lib[p] EXCEPT !.msg = NULL].at = lib[p].at
         /\ [lib[p] EXCEPT !.msg = NULL].status = lib[p].status
         /\ [lib[p] EXCEPT !.msg = NULL].unread_flag = lib[p].unread_flag
<1>1. lib[p] \in LibType
  BY Shape DEF SoundLib
<1> QED
  BY <1>1 DEF message_send, message_wait, message_read, LibType

\* The three ways to go on: p sends a message, waits for one, or does neither.
LEMMA Sends ==
  ASSUME TypeInv, Turn, Order, NEW p \in Pid, NEW point \in Sending \union Answering, NEW m,
         NEW to, NEW type, NEW content,
         Goto(p, point, message_send(p, to, type, content), m),
         lib[p].at = "ret", Busy(p),
         Stays(p, point, m), point \in {"term_sent", "clone_sent"} => to = PM,
         m.sigterm_flag = 1 /\ point \notin Terminating =>
           mem[p].sigterm_flag = 1 /\ pc[p] \notin Terminating,
         UNCHANGED <<sig, parent, nextPid, fifo>>
  PROVE  Turn' /\ Order'
<1> DEFINE l == message_send(p, to, type, content)
<1>1. l.at = "write" /\ l.pid = to /\ l.unread_flag = lib[p].unread_flag
  BY CallFacts
<1> HIDE DEF l
<1>2. Legal(p, point, l, m)
  BY <1>1 DEF Legal, OpenAt, Reaches
<1>3. Modest(p, point, l, m)
  BY <1>1 DEF Modest
<1> QED
  BY <1>2, <1>3, GotoKeeps DEF l

LEMMA Waits ==
  ASSUME TypeInv, Turn, Order, NEW p \in Pid, NEW point \in Receiving, NEW m, NEW from,
         Goto(p, point, message_wait(p, from), m),
         lib[p].at = "ret", Stays(p, point, m),
         m.sigterm_flag = 1 /\ point \notin Terminating =>
           mem[p].sigterm_flag = 1 /\ pc[p] \notin Terminating,
         UNCHANGED <<sig, parent, nextPid, fifo>>
  PROVE  Turn' /\ Order'
<1> DEFINE l == message_wait(p, from)
<1>1. l.at = "check" /\ l.unread_flag = lib[p].unread_flag
  BY CallFacts
<1> HIDE DEF l
<1>2. Legal(p, point, l, m)
  BY <1>1 DEF Legal, OpenAt, Reaches
<1>3. Modest(p, point, l, m)
  BY <1>1 DEF Modest
<1>4. ~BusyAt(point, l, m)
  BY <1>1 DEF BusyAt
<1> QED
  BY <1>2, <1>3, <1>4, GotoKeeps DEF l

LEMMA GoesOn ==
  ASSUME TypeInv, Turn, Order, NEW p \in Pid, NEW point, NEW l, NEW m,
         Goto(p, point, l, m), l.at = "ret", lib[p].at = "ret",
         l.unread_flag => lib[p].unread_flag,
         Stays(p, point, m), Reaches(point, l), BusyAt(point, l, m) => Busy(p),
         m.sigterm_flag = 1 /\ point \notin Terminating =>
           mem[p].sigterm_flag = 1 /\ pc[p] \notin Terminating,
         UNCHANGED <<sig, parent, nextPid, fifo>>
  PROVE  Turn' /\ Order'
<1>1. Modest(p, point, l, m)
  BY DEF Modest
<1>2. Legal(p, point, l, m)
  BY DEF Legal, OpenAt
<1> QED
  BY <1>1, <1>2, GotoKeeps

\* Changing the point alone.
LEMMA GotoPoint ==
  ASSUME TypeInv, NEW p \in Pid, NEW point, pc' = [pc EXCEPT ![p] = point], UNCHANGED <<lib, mem>>
  PROVE  Goto(p, point, lib[p], mem[p])
  BY Shape DEF Goto

\* A program that can go on by itself has the turn.
LEMMA Runnable ==
  ASSUME NEW p \in Pid, lib[p].at = "ret",
         pc[p] \in Receiving \union {"start", "exec", "readline", "cleanup"}
  PROVE  Busy(p)
  BY DEF Busy, BusyAt

-----------------------------------------------------------------------------
(***************************************************************************)
(* The managed processes.                                                  *)
(***************************************************************************)
\* At a child's point p is not the manager, and not a pinfo.
LEMMA ChildStays ==
  ASSUME TypeInv, Order, NEW p \in Pid, pc[p] \in ChildPoints,
         NEW point \in ChildPoints, NEW m
  PROVE  Stays(p, point, m)
<1>1. p # PM /\ pc[p] \notin Managing
  BY Manager DEF ChildPoints, Managing, ManagerPoints
<1> QED
  BY <1>1 DEF Stays, ChildPoints, Gone, Managing, ManagerPoints, Asking

\* p, ready at `point', has no flag set if it is busy there.
LEMMA BusyAlone ==
  ASSUME Turn, NEW p \in Pid, Busy(p)
  PROVE  /\ Only(p, "busy")
         /\ ~lib[p].unread_flag
         /\ pc[p] \notin Terminating => mem[p].sigterm_flag # 1
<1>1. HasTurn(p, "busy") /\ "busy" \in Claims
  BY DEF HasTurn, Claims
<1>2. Only(p, "busy")
  BY <1>1, Holder DEF Turn
<1> QED
  BY <1>2 DEF Only

LEMMA SleepTurn ==
  ASSUME CalmInv, NEW p \in Pid, RegisterHandlers(p) \/ Sleep(p)
  PROVE  Turn' /\ Order'
<1> USE DEF CalmInv
<1>1. CASE RegisterHandlers(p)
  <2>1. Goto(p, "loop", lib[p], mem[p]) /\ pc[p] = "boot" /\ lib[p].at = "ret"
    BY <1>1, GotoPoint DEF RegisterHandlers, Ready
  <2>2. p # PM /\ pc[p] \notin Managing
    BY <2>1, Manager DEF Managing, ManagerPoints
  <2>3. Stays(p, "loop", mem[p])
    BY <2>1, <2>2 DEF Stays, ChildPoints, Gone, Managing, ManagerPoints, Asking
  <2>4. Reaches("loop", lib[p]) /\ ~BusyAt("loop", lib[p], mem[p]) /\ pc[p] \notin Terminating
    BY <2>1 DEF Reaches, BusyAt, Receiving, Sending, Terminating
  <2> QED
    BY <1>1, <2>1, <2>3, <2>4, GoesOn DEF RegisterHandlers
<1>2. CASE Sleep(p)
  <2>1. Goto(p, "asleep", lib[p], mem[p]) /\ pc[p] = "loop" /\ lib[p].at = "ret"
    BY <1>2, GotoPoint DEF Sleep, Ready
  <2>2. Stays(p, "asleep", mem[p])
    BY <2>1, ChildStays DEF ChildPoints
  <2>3. Reaches("asleep", lib[p]) /\ ~BusyAt("asleep", lib[p], mem[p]) /\ pc[p] \notin Terminating
    BY <2>1 DEF Reaches, BusyAt, Receiving, Sending, Terminating
  <2> QED
    BY <1>2, <2>1, <2>2, <2>3, GoesOn DEF Sleep
<1> QED
  BY <1>1, <1>2

LEMMA FlagTurn ==
  ASSUME CalmInv, NEW p \in Pid, CheckSigtermFlag(p)
  PROVE  Turn' /\ Order'
<1> USE DEF CalmInv
<1>1. /\ pc[p] = "flag" /\ lib[p].at = "ret" /\ UNCHANGED <<sig, parent, nextPid, fifo>>
      /\ p # PM
  BY Manager DEF CheckSigtermFlag, Ready, Managing, ManagerPoints
<1>2. CASE mem[p].sigterm_flag = 1
  <2> DEFINE l == message_send(p, PM, MSG_REMOVE, <<Pad>>)
  <2>1. Goto(p, "term_sent", l, mem[p])
    BY <1>2 DEF CheckSigtermFlag
  <2>2. l.at = "write" /\ l.pid = PM /\ l.unread_flag = lib[p].unread_flag
    BY CallFacts
  <2> HIDE DEF l
  <2>3. Legal(p, "term_sent", l, mem[p])
    BY <1>1, <2>2, ChildStays DEF ChildPoints, Legal, OpenAt, Reaches, Sending
  <2>4. Modest(p, "term_sent", l, mem[p])
    BY <1>1, <2>2 DEF Modest, Terminating
  <2>5. Order'
    BY <1>1, <2>1, <2>3, <2>4, GotoOrder
  <2>6. HasTurn(p, "sigterm") /\ "sigterm" \in Claims /\ "busy" \in Claims
    BY <1>1, <1>2 DEF HasTurn, Claims, Terminating
  <2>7. Only(p, "sigterm")
    BY <2>6, Holder DEF Turn
  <2>8. Only(p, "busy")'
    BY <1>1, <2>1, <2>2, <2>7, Shape DEF Goto, Only, Busy, Terminating
  <2>9. pc'[PM] = pc[PM]
    BY <1>1, <2>1, Shape DEF Goto
  <2> QED
    BY <2>5, <2>6, <2>8, <2>9, PassTurn DEF Turn
<1>3. CASE mem[p].sigterm_flag # 1
  <2>1. Goto(p, "unread", lib[p], mem[p])
    BY <1>3 DEF CheckSigtermFlag
  <2>2. Stays(p, "unread", mem[p])
    BY <1>1, ChildStays DEF ChildPoints
  <2>3. Reaches("unread", lib[p]) /\ ~BusyAt("unread", lib[p], mem[p]) /\ pc[p] \notin Terminating
    BY <1>1 DEF Reaches, BusyAt, Receiving, Sending, Terminating
  <2> QED
    BY <1>1, <2>1, <2>2, <2>3, GoesOn
<1> QED
  BY <1>2, <1>3

LEMMA MailTurn ==
  ASSUME CalmInv, NEW p \in Pid, CheckUnreadFlag(p) \/ GotMessage(p)
  PROVE  Turn' /\ Order'
<1> USE DEF CalmInv
<1>1. CASE CheckUnreadFlag(p)
  <2>1. /\ pc[p] = "unread" /\ lib[p].at = "ret" /\ UNCHANGED <<sig, parent, nextPid, fifo>>
        /\ pc[p] \notin Terminating
    BY <1>1 DEF CheckUnreadFlag, Ready, Terminating
  <2>2. CASE lib[p].unread_flag
    <3> DEFINE l == message_read(p)
    <3>1. Goto(p, "got", l, mem[p])
      BY <1>1, <2>2 DEF CheckUnreadFlag
    <3>2. l.at = "read" /\ l.unread_flag = lib[p].unread_flag
      BY CallFacts
    <3> HIDE DEF l
    <3>3. Legal(p, "got", l, mem[p])
      BY <2>1, <2>2, <3>2, ChildStays DEF ChildPoints, Legal, OpenAt, Reaches, Receiving
    <3>4. Modest(p, "got", l, mem[p]) /\ ~BusyAt("got", l, mem[p])
      BY <2>1, <3>2 DEF Modest, Terminating, BusyAt
    <3> QED
      BY <2>1, <3>1, <3>3, <3>4, GotoKeeps
  <2>3. CASE ~lib[p].unread_flag
    <3>1. Goto(p, "loop", lib[p], mem[p])
      BY <1>1, <2>3 DEF CheckUnreadFlag
    <3>2. Stays(p, "loop", mem[p])
      BY <2>1, ChildStays DEF ChildPoints
    <3>3. Reaches("loop", lib[p]) /\ ~BusyAt("loop", lib[p], mem[p])
      BY <2>1 DEF Reaches, BusyAt, Receiving, Sending
    <3> QED
      BY <2>1, <3>1, <3>2, <3>3, GoesOn
  <2> QED
    BY <2>2, <2>3
<1>2. CASE GotMessage(p)
  <2>1. /\ pc[p] = "got" /\ lib[p].at = "ret" /\ UNCHANGED fifo /\ Busy(p) /\ mem[p] \in MemType
        /\ pc[p] \in ChildPoints \ Terminating
    BY <1>2, Runnable, Shape DEF GotMessage, Ready, Receiving, SoundMem, Terminating, ChildPoints
  <2>2. CASE lib[p].msg = NULL
    <3>1. ExitPrinting(p, EndOfFile)
      BY <1>2, <2>2 DEF GotMessage, Crash, Exit
    <3> QED
      BY <2>1, <3>1, ExitKeeps
  <2>3. CASE lib[p].msg # NULL /\ lib[p].msg.type = MSG_SPAWN
    <3> DEFINE m == [mem[p] EXCEPT !.peer = lib[p].msg.sender]
    <3>1. /\ Goto(p, "clone_asked", message_send(p, PM, MSG_INFO, NextName(p)), m)
          /\ UNCHANGED <<sig, parent, nextPid>>
      BY <1>2, <2>3 DEF GotMessage
    <3>2. m.sigterm_flag = mem[p].sigterm_flag
      BY <2>1 DEF MemType
    <3> HIDE DEF m
    <3>3. Stays(p, "clone_asked", m) /\ "clone_asked" \in Sending \union Answering
      BY <2>1, ChildStays DEF ChildPoints, Sending
    <3> QED
      BY <2>1, <3>1, <3>2, <3>3, Sends
  <2>4. CASE lib[p].msg # NULL /\ lib[p].msg.type # MSG_SPAWN
    <3> DEFINE l == [lib[p] EXCEPT !.msg = NULL]
    <3>1. Goto(p, "loop", l, mem[p]) /\ UNCHANGED <<sig, parent, nextPid>>
      BY <1>2, <2>4 DEF GotMessage
    <3>2. l.at = "ret" /\ l.unread_flag = lib[p].unread_flag
      BY <2>1, CallFacts
    <3> HIDE DEF l
    <3>3. Stays(p, "loop", mem[p])
      BY <2>1, ChildStays DEF ChildPoints
    <3>4. Reaches("loop", l)
      BY DEF Reaches
    <3> QED
      BY <2>1, <3>1, <3>2, <3>3, <3>4, GoesOn
  <2> QED
    BY <2>2, <2>3, <2>4
<1> QED
  BY <1>1, <1>2

LEMMA TerminateTurn ==
  ASSUME CalmInv, NEW p \in Pid,
         AwaitRemoval(p) \/ GotRemoval(p) \/ ExitChild(p) \/ ResetSigtermFlag(p)
  PROVE  Turn' /\ Order'
<1> USE DEF CalmInv
<1>1. CASE AwaitRemoval(p)
  <2>1. /\ pc[p] = "term_sent" /\ lib[p].at = "ret" /\ UNCHANGED <<sig, parent, nextPid, fifo>>
    BY <1>1 DEF AwaitRemoval, Ready
  <2>2. lib[p].status = 0
    BY <2>1 DEF Order, Discipline, ManagerReached, Reaches
  <2>3. Goto(p, "term_reply", message_wait(p, PM), mem[p])
    BY <1>1, <2>2 DEF AwaitRemoval
  <2>4. Stays(p, "term_reply", mem[p]) /\ "term_reply" \in Receiving \intersect Terminating
    BY <2>1, ChildStays DEF ChildPoints, Receiving, Terminating
  <2> QED
    BY <2>1, <2>3, <2>4, Waits
<1>2. CASE GotRemoval(p)
  <2>1. /\ pc[p] = "term_reply" /\ lib[p].at = "ret" /\ UNCHANGED fifo /\ Busy(p)
        /\ pc[p] \in ChildPoints
    BY <1>2, Runnable DEF GotRemoval, Ready, Receiving, ChildPoints
  <2>2. CASE lib[p].msg = NULL
    <3>1. ExitPrinting(p, EndOfFile)
      BY <1>2, <2>2 DEF GotRemoval, Crash, Exit
    <3> QED
      BY <2>1, <3>1, ExitKeeps
  <2>3. CASE lib[p].msg # NULL
    <3>1. PICK point \in {"term_done", "term_failed"} :
            Goto(p, point, message_send(p, mem[p].sigterm_sender, MSG_SUCCESS, <<Pad>>), mem[p])
      BY <1>2, <2>3 DEF GotRemoval, resume_process
    <3>2. UNCHANGED <<sig, parent, nextPid>>
      BY <1>2, <2>3 DEF GotRemoval
    <3>3. /\ Stays(p, point, mem[p]) /\ point \in (Sending \union Answering) \intersect Terminating
          /\ point \notin {"term_sent", "clone_sent"}
      BY <2>1, ChildStays DEF ChildPoints, Answering, Terminating
    <3> QED
      BY <2>1, <3>1, <3>2, <3>3, Sends
  <2> QED
    BY <2>2, <2>3
<1>3. CASE ExitChild(p)
  BY <1>3, ExitKeeps DEF ExitChild, Exit, Ready, ChildPoints
<1>4. CASE ResetSigtermFlag(p)
  <2> DEFINE m == [mem[p] EXCEPT !.sigterm_flag = 0]
  <2>1. /\ pc[p] = "term_failed" /\ lib[p].at = "ret" /\ UNCHANGED <<sig, parent, nextPid, fifo>>
        /\ Goto(p, "unread", lib[p], m)
    BY <1>4 DEF ResetSigtermFlag, Ready
  <2>2. m.sigterm_flag = 0
    BY Shape DEF SoundMem, MemType
  <2> HIDE DEF m
  <2>3. Stays(p, "unread", m)
    BY <2>1, ChildStays DEF ChildPoints
  <2>4. Reaches("unread", lib[p]) /\ ~BusyAt("unread", lib[p], m)
    BY <2>1 DEF Reaches, BusyAt, Receiving, Sending
  <2> QED
    BY <2>1, <2>2, <2>3, <2>4, GoesOn
<1> QED
  BY <1>1, <1>2, <1>3, <1>4

LEMMA CloneReturnsFacts ==
  ASSUME TypeInv, NEW p \in Pid
  PROVE  /\ CloneReturns(p) \in MemType
         /\ CloneReturns(p).sigterm_flag = mem[p].sigterm_flag
<1>1. mem[p] \in MemType
  BY Shape DEF SoundMem
<1> QED
  BY <1>1 DEF MemType, CloneReturns

\* child_clone() resumes the sender and returns.
LEMMA ResumeTurn ==
  ASSUME CalmInv, NEW p \in Pid, pc[p] \in ChildPoints \ Terminating, lib[p].at = "ret", Busy(p),
         NEW m, m.sigterm_flag = mem[p].sigterm_flag,
         Goto(p, "loop", resume_process(p, mem[p].peer), m),
         UNCHANGED <<sig, parent, nextPid, fifo>>
  PROVE  Turn' /\ Order'
<1>1. Stays(p, "loop", m) /\ "loop" \in Sending \union Answering
  BY ChildStays DEF ChildPoints, Answering, CalmInv
<1> QED
  BY <1>1, Sends DEF CalmInv, resume_process

LEMMA CloneTurn ==
  ASSUME CalmInv, NEW p \in Pid, child_clone(p)
  PROVE  Turn' /\ Order'
<1> USE DEF CalmInv
<1>1. /\ pc[p] = "clone_reply" /\ lib[p].at = "ret" /\ UNCHANGED fifo /\ Busy(p)
      /\ pc[p] \in ChildPoints \ Terminating /\ pc[p] \notin Gone
      /\ p # PM
  BY Runnable, Manager DEF child_clone, Ready, Receiving, ChildPoints, Terminating, Gone, Managing, ManagerPoints
<1>2. CloneReturns(p) \in MemType /\ CloneReturns(p).sigterm_flag = mem[p].sigterm_flag
  BY CloneReturnsFacts
<1>3. ~lib[p].unread_flag /\ mem[p].sigterm_flag # 1 /\ mem[p] \in MemType
  BY <1>1, BusyAlone, Shape DEF SoundMem
<1>4. CASE lib[p].msg = NULL
  <2>1. ExitPrinting(p, EndOfFile)
    BY <1>4 DEF child_clone, Crash, Exit
  <2> QED
    BY <1>1, <2>1, ExitKeeps
<1>5. CASE lib[p].msg # NULL /\ lib[p].msg.type = MSG_INFO
  <2>1. Goto(p, "loop", resume_process(p, mem[p].peer), CloneReturns(p))
        /\ UNCHANGED <<sig, parent, nextPid>>
    BY <1>5 DEF child_clone
  <2> QED
    BY <1>1, <1>2, <2>1, ResumeTurn
<1>6. CASE ForkClone(p) /\ UNCHANGED sig
  <2> DEFINE l == message_send(p, PM, MSG_ADD, proc_node_tostr(nextPid, p, NextName(p)))
             m == [mem[p] EXCEPT !.kid = nextPid]
             kidLib == [lib[p] EXCEPT !.msg = NULL]
             kidMem == [CloneReturns(p) EXCEPT !.name = NextName(p), !.clones_count = 0]
  <2>1. Fork(p, "clone_sent", l, m, "loop", kidLib, kidMem)
    BY <1>6 DEF ForkClone
  <2>2. l.at = "write" /\ l.pid = PM /\ l.unread_flag = lib[p].unread_flag
    BY CallFacts
  <2>3. kidLib.at = "ret" /\ kidLib.unread_flag = lib[p].unread_flag
    BY <1>1, CallFacts
  <2>4. m.sigterm_flag = 0 /\ kidMem.sigterm_flag = 0
    BY <1>2, <1>3 DEF MemType
  <2> HIDE DEF l, m, kidLib, kidMem
  <2>5. ForkLegal(p, "clone_sent", l, m, "loop", kidLib, kidMem)
    BY <1>1, <1>3, <2>2, <2>3
    DEF ForkLegal, OpenAt, Reaches, Gone, Asking, Sending, ChildPoints, Managing, ManagerPoints
  <2>6. ~BusyAt("loop", kidLib, kidMem)
    BY <2>3 DEF BusyAt, Receiving, Sending
  <2> QED
    BY <1>1, <1>6, <2>1, <2>4, <2>5, <2>6, ForkTurn
<1>7. CASE /\ Goto(p, "loop", [lib[p] EXCEPT !.msg = NULL], CloneReturns(p))
           /\ UNCHANGED <<sig, parent, nextPid>>
  <2> DEFINE l == [lib[p] EXCEPT !.msg = NULL]
             m == CloneReturns(p)
  <2>1. l.at = "ret" /\ l.unread_flag = lib[p].unread_flag
    BY <1>1, CallFacts
  <2> HIDE DEF l
  <2>2. Stays(p, "loop", m)
    BY <1>1, ChildStays DEF ChildPoints
  <2>3. Reaches("loop", l)
    BY DEF Reaches
  <2>4. Goto(p, "loop", l, m)
    BY <1>7 DEF l
  <2> QED
    BY <1>1, <1>2, <1>7, <2>1, <2>2, <2>3, <2>4, GoesOn
<1> QED
  BY <1>4, <1>5, <1>6, <1>7 DEF child_clone

LEMMA CloningTurn ==
  ASSUME CalmInv, NEW p \in Pid, ~CloneRefused(p),
         AwaitDuplicateCheck(p) \/ send_proc_to_pmanager(p) \/ CloneAdded(p)
  PROVE  Turn' /\ Order'
<1> USE DEF CalmInv
<1>1. CloneReturns(p) \in MemType /\ CloneReturns(p).sigterm_flag = mem[p].sigterm_flag
  BY CloneReturnsFacts
<1>2. CASE AwaitDuplicateCheck(p)
  <2>1. /\ pc[p] = "clone_asked" /\ lib[p].at = "ret" /\ UNCHANGED <<sig, parent, nextPid, fifo>>
        /\ pc[p] \in ChildPoints \ Terminating
    BY <1>2 DEF AwaitDuplicateCheck, Ready, ChildPoints, Terminating
  <2>2. CASE lib[p].status = 0
    <3>1. Goto(p, "clone_reply", message_wait(p, PM), mem[p])
      BY <1>2, <2>2 DEF AwaitDuplicateCheck
    <3>2. Stays(p, "clone_reply", mem[p]) /\ "clone_reply" \in Receiving
      BY <2>1, ChildStays DEF ChildPoints, Receiving
    <3> QED
      BY <2>1, <3>1, <3>2, Waits
  <2>3. CASE lib[p].status # 0
    <3>1. Busy(p)
      BY <2>1, <2>3 DEF Busy, BusyAt, Sending
    <3>2. Goto(p, "loop", resume_process(p, mem[p].peer), CloneReturns(p))
      BY <1>2, <2>3 DEF AwaitDuplicateCheck
    <3> QED
      BY <1>1, <2>1, <3>1, <3>2, ResumeTurn
  <2> QED
    BY <2>2, <2>3
<1>3. CASE send_proc_to_pmanager(p)
  <2>1. /\ pc[p] = "clone_sent" /\ lib[p].at = "ret" /\ UNCHANGED <<parent, nextPid, fifo>>
        /\ pc[p] \notin Terminating
    BY <1>3 DEF send_proc_to_pmanager, Ready, Terminating
  <2>2. lib[p].status = 0
    BY <2>1 DEF Order, Discipline, ManagerReached, Reaches
  <2>3. Goto(p, "clone_added", message_wait(p, PM), mem[p]) /\ UNCHANGED sig
    BY <1>3, <2>2 DEF send_proc_to_pmanager
  <2>4. Stays(p, "clone_added", mem[p]) /\ "clone_added" \in Receiving
    BY <2>1, ChildStays DEF ChildPoints, Receiving
  <2> QED
    BY <2>1, <2>3, <2>4, Waits
<1>4. CASE CloneAdded(p)
  <2>1. /\ pc[p] = "clone_added" /\ lib[p].at = "ret" /\ UNCHANGED <<parent, nextPid, fifo>>
        /\ pc[p] \in ChildPoints \ Terminating /\ Busy(p)
    BY <1>4, Runnable DEF CloneAdded, Ready, ChildPoints, Terminating, Receiving
  <2> DEFINE m == [CloneReturns(p) EXCEPT !.clones_count = @ + 1]
  <2>2. Goto(p, "loop", resume_process(p, mem[p].peer), m) /\ UNCHANGED sig
    BY <1>4 DEF CloneAdded, CloneRefused
  <2>3. m.sigterm_flag = mem[p].sigterm_flag
    BY <1>1 DEF MemType
  <2> HIDE DEF m
  <2> QED
    BY <2>1, <2>2, <2>3, ResumeTurn
<1> QED
  BY <1>2, <1>3, <1>4

LEMMA ChildTurn ==
  ASSUME CalmInv, NEW p \in Pid, ~CloneRefused(p), ChildStep(p)
  PROVE  Turn' /\ Order'
BY SleepTurn, FlagTurn, MailTurn, TerminateTurn, CloneTurn, CloningTurn DEF ChildStep

-----------------------------------------------------------------------------
(***************************************************************************)
(* The commands.                                                           *)
(***************************************************************************)
LEMMA CommandStays ==
  ASSUME TypeInv, Order, NEW p \in Pid, pc[p] \in CommandPoints,
         NEW point \in CommandPoints \ {"start", "boot", "popen"}, NEW m,
         pc[p] \in Asking => point \in Asking \/ (pc[p] = "start" /\ mem[p].prog # "pinfo")
  PROVE  Stays(p, point, m) /\ p # PM /\ pc[p] \notin Gone \union Terminating
<1>1. p # PM /\ pc[p] \notin Managing /\ pc[p] \notin Gone \union Terminating
  BY Manager DEF CommandPoints, Managing, ManagerPoints, Gone, Terminating
<1>2. point \notin Gone \union {"exec", "boot", "popen", "start"} \union ChildPoints \union Managing
  BY DEF CommandPoints, Managing, ManagerPoints, Gone, ChildPoints
<1>3. pc[p] \in Asking => point \in Asking \ {"start"} \/ (pc[p] = "start" /\ mem[p].prog # "pinfo")
  OBVIOUS
<1> QED
  BY <1>1, <1>2, <1>3 DEF Stays

LEMMA FinishTurn ==
  ASSUME CalmInv, NEW p \in Pid, pc[p] \in CommandPoints, lib[p].at = "ret", Busy(p), Finish(p),
         UNCHANGED <<sig, parent, nextPid, fifo>>
  PROVE  Turn' /\ Order'
<1>1. Stays(p, "exit", mem[p]) /\ pc[p] \notin Terminating
  BY CommandStays DEF CalmInv, CommandPoints, Asking
<1>2. BlankLib.at = "ret" /\ ~BlankLib.unread_flag /\ Reaches("exit", BlankLib)
  BY DEF BlankLib, Reaches
<1>3. Goto(p, "exit", BlankLib, mem[p])
  BY DEF Finish
<1> QED
  BY <1>1, <1>2, <1>3, GoesOn DEF CalmInv

\* A command waits for a message.
LEMMA CommandWaits ==
  ASSUME CalmInv, NEW p \in Pid, pc[p] \in CommandPoints \ Asking, lib[p].at = "ret",
         NEW point \in {"exit", "pnew_reply", "pnew_added", "list_item"}, NEW from,
         Goto(p, point, message_wait(p, from), mem[p]),
         UNCHANGED <<sig, parent, nextPid, fifo>>
  PROVE  Turn' /\ Order'
<1>1. point \in CommandPoints \ {"start", "boot", "popen"} /\ point \in Receiving
  BY DEF CommandPoints, Receiving
<1>2. Stays(p, point, mem[p]) /\ pc[p] \notin Terminating
  BY <1>1, CommandStays DEF CalmInv
<1> QED
  BY <1>1, <1>2, Waits DEF CalmInv

LEMMA AskTurn ==
  ASSUME CalmInv, NEW p \in Pid, pc[p] = "start", lib[p].at = "ret",
         NEW point \in {"pnew_asked", "info_asked", "list_asked"},
         mem[p].prog = "pinfo" => point = "info_asked",
         NEW to, NEW type, NEW content,
         Ask(p, point, to, type, content), UNCHANGED <<sig, fifo>>
  PROVE  Turn' /\ Order'
<1> DEFINE m == [mem[p] EXCEPT !.peer = to]
<1>1. Goto(p, point, message_send(p, to, type, content), m) /\ UNCHANGED <<parent, nextPid>>
  BY DEF Ask
<1>2. mem[p] \in MemType
  BY Shape DEF SoundMem, CalmInv
<1>3. m.sigterm_flag = mem[p].sigterm_flag
  BY <1>2 DEF MemType
<1> HIDE DEF m
<1>4. /\ point \in CommandPoints \ {"start", "boot", "popen"} /\ point \in Sending \union Answering
      /\ point \notin {"term_sent", "clone_sent"} /\ pc[p] \in CommandPoints
      /\ mem[p].prog = "pinfo" => point \in Asking
  BY DEF CommandPoints, Sending, Asking
<1>5. Stays(p, point, m) /\ pc[p] \notin Terminating
  BY <1>4, CommandStays DEF CalmInv
<1>6. Busy(p)
  BY Runnable
<1> QED
  BY <1>1, <1>3, <1>4, <1>5, <1>6, Sends DEF CalmInv

LEMMA PopenTurn ==
  ASSUME CalmInv, NEW p \in Pid, pc[p] = "start", lib[p].at = "ret", mem[p].prog # "pinfo",
         popen(p), UNCHANGED <<sig, fifo>>
  PROVE  Turn' /\ Order'
<1> USE DEF CalmInv
<1>1. Busy(p) /\ pc[p] \in CommandPoints
  BY Runnable DEF CommandPoints
<1>2. CASE Finish(p) /\ UNCHANGED <<parent, nextPid>>
  BY <1>1, <1>2, FinishTurn
<1>3. CASE Fork(p, "popen", lib[p], [mem[p] EXCEPT !.peer = Pending],
                "start", BlankLib, NewCommand("pinfo", mem[p].name, parent[p]))
  <2> DEFINE m == [mem[p] EXCEPT !.peer = Pending]
             kidMem == NewCommand("pinfo", mem[p].name, parent[p])
  <2>1. /\ ~lib[p].unread_flag /\ mem[p].sigterm_flag # 1 /\ mem[p] \in MemType
        /\ p # PM /\ pc[p] \notin Managing
    BY <1>1, BusyAlone, Manager, Shape DEF Terminating, Managing, ManagerPoints, SoundMem
  <2>2. m.sigterm_flag = 0 /\ m.peer = Pending
    BY <2>1 DEF MemType
  <2>3. kidMem.sigterm_flag = 0 /\ kidMem.prog = "pinfo"
    BY DEF NewCommand, BlankMem
  <2>4. Fork(p, "popen", lib[p], m, "start", BlankLib, kidMem)
    BY <1>3
  <2> HIDE DEF m, kidMem
  <2>5. BlankLib.at = "ret" /\ ~BlankLib.unread_flag
    BY DEF BlankLib
  <2>6. ForkLegal(p, "popen", lib[p], m, "start", BlankLib, kidMem)
    BY <2>1, <2>3, <2>5
    DEF ForkLegal, OpenAt, Reaches, Gone, Asking, ChildPoints, Managing, ManagerPoints
  <2>7. ~BusyAt("popen", lib[p], m)
    BY <2>2 DEF BusyAt, Receiving, Sending
  <2> QED
    BY <1>1, <2>2, <2>3, <2>4, <2>6, <2>7, ForkTurn
<1> QED
  BY <1>2, <1>3 DEF popen

LEMMA StartTurn ==
  ASSUME CalmInv, NEW p \in Pid, Start(p)
  PROVE  Turn' /\ Order'
<1>1. /\ pc[p] = "start" /\ lib[p].at = "ret" /\ UNCHANGED <<sig, fifo>>
      /\ pc[p] \in CommandPoints /\ Busy(p)
  BY Runnable DEF Start, pnew_main, pinfo_main, prmall_main, plist_main, ptree_main, pclose_main,
     pspawn_main, phelp_main, Begin, Ready, CommandPoints
<1>2. CASE Finish(p) /\ UNCHANGED <<parent, nextPid>>
  BY <1>1, <1>2, FinishTurn
<1>3. CASE popen(p) /\ mem[p].prog # "pinfo"
  BY <1>1, <1>3, PopenTurn
<1>4. CASE \E to, type, content : \E point \in {"pnew_asked", "info_asked", "list_asked"} :
             /\ Ask(p, point, to, type, content)
             /\ mem[p].prog = "pinfo" => point = "info_asked"
  BY <1>1, <1>4, AskTurn
<1>5. CASE pnew_main(p)
  BY <1>2, <1>4, <1>5 DEF pnew_main, Begin
<1>6. CASE pinfo_main(p)
  BY <1>2, <1>4, <1>6 DEF pinfo_main, Begin
<1>7. CASE prmall_main(p)
  BY <1>2, <1>4, <1>7 DEF prmall_main, Begin
<1>8. CASE plist_main(p)
  BY <1>2, <1>4, <1>8 DEF plist_main, Begin
<1>9. CASE ptree_main(p)
  BY <1>2, <1>4, <1>9 DEF ptree_main, Begin
<1>10. CASE pclose_main(p) \/ pspawn_main(p)
  BY <1>2, <1>3, <1>10 DEF pclose_main, pspawn_main, Begin
<1>11. CASE phelp_main(p)
  BY <1>2, <1>11 DEF phelp_main
<1> QED
  BY <1>5, <1>6, <1>7, <1>8, <1>9, <1>10, <1>11 DEF Start

\* The calls that may have failed: the command waits, or finishes.
LEMMA AwaitTurn ==
  ASSUME CalmInv, NEW p \in Pid,
         AwaitNameCheck(p) \/ AwaitListItem(p) \/ AwaitSpawn(p) \/ AwaitInfo(p)
  PROVE  Turn' /\ Order'
<1> USE DEF CalmInv
<1>1. /\ pc[p] \in {"pnew_asked", "list_asked", "spawn_sent", "info_asked"}
      /\ lib[p].at = "ret" /\ UNCHANGED <<sig, parent, nextPid, fifo>>
  BY DEF AwaitNameCheck, AwaitListItem, AwaitSpawn, AwaitInfo, Ready
<1>2. pc[p] \in CommandPoints /\ (lib[p].status # 0 => Busy(p)) /\ pc[p] \notin Terminating
  BY <1>1 DEF CommandPoints, Busy, BusyAt, Sending, Terminating
<1>3. CASE AwaitInfo(p)
  <2>1. pc[p] = "info_asked"
    BY <1>3 DEF AwaitInfo, Ready
  <2>2. Stays(p, "info_reply", mem[p]) /\ "info_reply" \in Receiving
    BY <1>2, <2>1, CommandStays DEF CommandPoints, Asking, Receiving
  <2>3. CASE lib[p].status = 0
    <3>1. Goto(p, "info_reply", message_wait(p, mem[p].peer), mem[p])
      BY <1>3, <2>3 DEF AwaitInfo
    <3> QED
      BY <1>1, <1>2, <2>2, <3>1, Waits
  <2>4. CASE lib[p].status # 0
    <3> DEFINE l == [lib[p] EXCEPT !.msg = NULL]
    <3>1. Goto(p, "info_reply", l, mem[p])
      BY <1>3, <2>4 DEF AwaitInfo
    <3>2. l.at = "ret" /\ l.unread_flag = lib[p].unread_flag
      BY <1>1, CallFacts
    <3> HIDE DEF l
    <3>3. Reaches("info_reply", l)
      BY DEF Reaches
    <3> QED
      BY <1>1, <1>2, <2>2, <2>4, <3>1, <3>2, <3>3, GoesOn
  <2> QED
    BY <2>3, <2>4
<1>4. CASE lib[p].status # 0 /\ ~AwaitInfo(p)
  BY <1>1, <1>2, <1>4, FinishTurn DEF AwaitNameCheck, AwaitListItem, AwaitSpawn
<1>5. CASE lib[p].status = 0 /\ ~AwaitInfo(p)
  <2>1. /\ pc[p] \in CommandPoints \ Asking
        /\ \E from : \E point \in {"exit", "pnew_reply", "pnew_added", "list_item"} :
             Goto(p, point, message_wait(p, from), mem[p])
    BY <1>5 DEF AwaitNameCheck, AwaitListItem, AwaitSpawn, Ready, CommandPoints, Asking
  <2> QED
    BY <1>1, <2>1, CommandWaits
<1> QED
  BY <1>3, <1>4, <1>5

\* A command that has the turn ends.
LEMMA LeaveTurn ==
  ASSUME CalmInv, NEW p \in Pid, pc[p] \in CommandPoints, Busy(p),
         NEW output, ExitPrinting(p, output), UNCHANGED fifo
  PROVE  Turn' /\ Order'
<1>1. p # PM /\ pc[p] \notin Gone
  BY Manager DEF CalmInv, CommandPoints, Managing, ManagerPoints, Gone
<1> QED
  BY <1>1, ExitTurn DEF CalmInv

LEMMA PnewTurn ==
  ASSUME CalmInv, NEW p \in Pid, pnew(p)
  PROVE  Turn' /\ Order'
<1> USE DEF CalmInv
<1>1. /\ pc[p] = "pnew_reply" /\ lib[p].at = "ret" /\ Busy(p) /\ pc[p] \in CommandPoints
      /\ p # PM /\ pc[p] \notin Managing /\ mem[p] \in MemType
  BY Runnable, Manager, Shape
  DEF pnew, Ready, Receiving, CommandPoints, Managing, ManagerPoints, SoundMem
<1>2. ~lib[p].unread_flag /\ mem[p].sigterm_flag # 1
  BY <1>1, BusyAlone DEF Terminating
<1>3. CASE Crash(p) /\ UNCHANGED fifo
  BY <1>1, <1>3, LeaveTurn DEF Crash, Exit
<1>4. CASE Finish(p) /\ UNCHANGED <<sig, parent, nextPid, fifo>>
  BY <1>1, <1>4, FinishTurn
<1>5. CASE ForkProcess(p) /\ UNCHANGED <<sig, fifo>>
  <2> DEFINE l == message_send(p, parent[p], MSG_ADD, proc_node_tostr(nextPid, parent[p], mem[p].name))
             m == [mem[p] EXCEPT !.kid = nextPid]
             kidLib == [lib[p] EXCEPT !.msg = NULL]
             kidMem == NewCommand("child", mem[p].name, NoPid)
  <2>1. Fork(p, "pnew_sent", l, m, "boot", kidLib, kidMem)
    BY <1>5 DEF ForkProcess
  <2>2. l.at = "write" /\ l.unread_flag = lib[p].unread_flag
    BY CallFacts
  <2>3. kidLib.at = "ret" /\ kidLib.unread_flag = lib[p].unread_flag
    BY <1>1, CallFacts
  <2>4. m.sigterm_flag = 0
    BY <1>1, <1>2 DEF MemType
  <2>5. kidMem.sigterm_flag = 0
    BY DEF NewCommand, BlankMem
  <2> HIDE DEF l, m, kidLib, kidMem
  <2>6. ForkLegal(p, "pnew_sent", l, m, "boot", kidLib, kidMem)
    BY <1>1, <1>2, <2>2, <2>3
    DEF ForkLegal, OpenAt, Reaches, Gone, Asking, Sending, ChildPoints, Managing, ManagerPoints
  <2>7. ~BusyAt("boot", kidLib, kidMem)
    BY <2>3 DEF BusyAt, Receiving, Sending
  <2> QED
    BY <1>1, <1>5, <2>1, <2>4, <2>5, <2>6, <2>7, ForkTurn
<1> QED
  BY <1>3, <1>4, <1>5 DEF pnew

\* The new process is asked to end, and pnew waits for it.
LEMMA AbortTurn ==
  ASSUME CalmInv, NEW p \in Pid, pc[p] \in {"pnew_sent", "pnew_added"}, lib[p].at = "ret", Busy(p),
         abort_fork(p), UNCHANGED <<parent, nextPid, fifo>>
  PROVE  Turn' /\ Order'
<1> USE DEF CalmInv
<1>1. Stays(p, "exit", mem[p]) /\ pc[p] \notin Terminating
  BY CommandStays DEF CommandPoints, Asking
<1>2. PostTerm(mem[p].kid, p)
  BY DEF abort_fork
<1>3. CASE Exists(mem[p].kid)
  <2> DEFINE l == message_wait(p, mem[p].kid)
  <2>1. Goto(p, "exit", l, mem[p])
    BY <1>3 DEF abort_fork
  <2>2. l.at = "check" /\ l.unread_flag = lib[p].unread_flag
    BY CallFacts
  <2> HIDE DEF l
  <2>3. Legal(p, "exit", l, mem[p]) /\ Modest(p, "exit", l, mem[p]) /\ ~BusyAt("exit", l, mem[p])
    BY <1>1, <2>2 DEF Legal, OpenAt, Reaches, Receiving, Modest, BusyAt
  <2> QED
    BY <1>2, <2>1, <2>3, GotoTerminates
<1>4. CASE ~Exists(mem[p].kid)
  <2>1. Finish(p)
    BY <1>4 DEF abort_fork
  <2>2. sig' = sig
    BY <1>2, <1>4 DEF PostTerm
  <2> QED
    BY <2>1, <2>2, FinishTurn DEF CommandPoints
<1> QED
  BY <1>3, <1>4

LEMMA AddTurn ==
  ASSUME CalmInv, NEW p \in Pid, AwaitAdd(p) \/ GotAdd(p)
  PROVE  Turn' /\ Order'
<1>1. CASE AwaitAdd(p)
  <2>1. /\ pc[p] = "pnew_sent" /\ lib[p].at = "ret" /\ UNCHANGED <<parent, nextPid, fifo>>
        /\ pc[p] \in CommandPoints \ Asking
    BY <1>1 DEF AwaitAdd, Ready, CommandPoints, Asking
  <2>2. CASE lib[p].status = 0
    <3>1. Goto(p, "pnew_added", message_wait(p, parent[p]), mem[p]) /\ UNCHANGED sig
      BY <1>1, <2>2 DEF AwaitAdd
    <3> QED
      BY <2>1, <3>1, CommandWaits
  <2>3. CASE lib[p].status # 0
    <3>1. Busy(p)
      BY <2>1, <2>3 DEF Busy, BusyAt, Sending
    <3>2. abort_fork(p)
      BY <1>1, <2>3 DEF AwaitAdd
    <3> QED
      BY <2>1, <3>1, <3>2, AbortTurn
  <2> QED
    BY <2>2, <2>3
<1>2. CASE GotAdd(p)
  <2>1. /\ pc[p] = "pnew_added" /\ lib[p].at = "ret" /\ UNCHANGED <<parent, nextPid, fifo>>
        /\ pc[p] \in CommandPoints /\ Busy(p)
    BY <1>2, Runnable DEF GotAdd, Ready, CommandPoints, Receiving
  <2>2. abort_fork(p) \/ (Finish(p) /\ UNCHANGED sig)
    BY <1>2 DEF GotAdd
  <2> QED
    BY <2>1, <2>2, AbortTurn, FinishTurn
<1> QED
  BY <1>1, <1>2

LEMMA ListTurn ==
  ASSUME CalmInv, NEW p \in Pid, GotListItem(p)
  PROVE  Turn' /\ Order'
<1> USE DEF CalmInv
<1>1. /\ pc[p] = "list_item" /\ lib[p].at = "ret" /\ Busy(p) /\ pc[p] \in CommandPoints
      /\ UNCHANGED fifo /\ mem[p] \in MemType
  BY Runnable, Shape DEF GotListItem, Ready, Receiving, CommandPoints, SoundMem
<1>2. \A m : \A point \in {"list_asked", "rm_next", "exit"} : Stays(p, point, m) /\ pc[p] \notin Terminating
  BY <1>1, CommandStays DEF CommandPoints, Asking
<1>3. CASE Finish(p) /\ UNCHANGED <<sig, parent, nextPid>>
  BY <1>1, <1>3, FinishTurn
<1>4. CASE Crash(p)
  BY <1>1, <1>4, LeaveTurn DEF Crash, Exit
<1>5. CASE /\ \E next : Goto(p, "list_asked", message_send(p, parent[p], MSG_SUCCESS, <<Pad>>),
                             [mem[p] EXCEPT !.procs = next])
           /\ UNCHANGED <<sig, parent, nextPid>>
  <2>1. PICK next : Goto(p, "list_asked", message_send(p, parent[p], MSG_SUCCESS, <<Pad>>),
                         [mem[p] EXCEPT !.procs = next])
    BY <1>5
  <2> DEFINE m == [mem[p] EXCEPT !.procs = next]
  <2>2. m.sigterm_flag = mem[p].sigterm_flag
    BY <1>1 DEF MemType
  <2>3. Goto(p, "list_asked", message_send(p, parent[p], MSG_SUCCESS, <<Pad>>), m)
    BY <2>1
  <2> HIDE DEF m
  <2>4. Stays(p, "list_asked", m) /\ pc[p] \notin Terminating
    BY <1>2
  <2>5. "list_asked" \in Sending \union Answering
    BY DEF Sending
  <2> QED
    BY <1>1, <1>5, <2>2, <2>3, <2>4, <2>5, Sends
<1>6. CASE /\ \E point \in {"rm_next", "exit"} : Goto(p, point, [lib[p] EXCEPT !.msg = NULL], mem[p])
           /\ UNCHANGED <<sig, parent, nextPid>>
  <2>1. PICK point \in {"rm_next", "exit"} : Goto(p, point, [lib[p] EXCEPT !.msg = NULL], mem[p])
    BY <1>6
  <2> DEFINE l == [lib[p] EXCEPT !.msg = NULL]
  <2>2. l.at = "ret" /\ l.unread_flag = lib[p].unread_flag
    BY <1>1, CallFacts
  <2>3. Goto(p, point, l, mem[p])
    BY <2>1
  <2> HIDE DEF l
  <2>4. Stays(p, point, mem[p]) /\ pc[p] \notin Terminating /\ Reaches(point, l)
    BY <1>2 DEF Reaches
  <2> QED
    BY <1>1, <1>6, <2>2, <2>3, <2>4, GoesOn
<1> QED
  BY <1>3, <1>4, <1>5, <1>6 DEF GotListItem, ListItem

LEMMA VictimTurn ==
  ASSUME CalmInv, NEW p \in Pid, kill_proc_tree(p)
  PROVE  Turn' /\ Order'
<1> USE DEF CalmInv
<1>1. /\ pc[p] = "rm_next" /\ lib[p].at = "ret" /\ Busy(p) /\ pc[p] \in CommandPoints
      /\ UNCHANGED <<parent, nextPid, fifo>> /\ mem[p] \in MemType
  BY Runnable, Shape DEF kill_proc_tree, Ready, Receiving, CommandPoints, SoundMem
<1>2. \A m : Stays(p, "rm_next", m) /\ pc[p] \notin Terminating
  BY <1>1, CommandStays DEF CommandPoints, Asking
<1>3. CASE Finish(p) /\ UNCHANGED sig
  BY <1>1, <1>3, FinishTurn
<1>4. ASSUME NEW rest, NEW q, SparePmanager(p, rest) \/ SignalVictim(p, q, rest)
      PROVE  Turn' /\ Order'
  <2> DEFINE m == [mem[p] EXCEPT !.procs = rest]
             l == message_wait(p, q)
  <2>1. m.sigterm_flag = mem[p].sigterm_flag
    BY <1>1 DEF MemType
  <2>2. l.at = "check" /\ l.unread_flag = lib[p].unread_flag
    BY CallFacts
  <2>3. SparePmanager(p, rest) => Goto(p, "rm_next", lib[p], m) /\ UNCHANGED sig
    BY DEF SparePmanager
  <2>4. SignalVictim(p, q, rest) =>
          PostTerm(q, p) /\ Goto(p, "rm_next", IF Exists(q) THEN l ELSE lib[p], m)
    BY DEF SignalVictim
  <2> HIDE DEF m, l
  <2>5. Stays(p, "rm_next", m) /\ pc[p] \notin Terminating
    BY <1>2
  <2>6. CASE SparePmanager(p, rest)
    <3>1. Reaches("rm_next", lib[p])
      BY DEF Reaches
    <3> QED
      BY <1>1, <2>1, <2>3, <2>5, <2>6, <3>1, GoesOn
  <2>7. CASE SignalVictim(p, q, rest) /\ Exists(q)
    <3>1. Legal(p, "rm_next", l, m) /\ Modest(p, "rm_next", l, m) /\ ~BusyAt("rm_next", l, m)
      BY <1>1, <2>1, <2>2, <2>5 DEF Legal, OpenAt, Reaches, Receiving, Modest, BusyAt
    <3> QED
      BY <1>1, <2>4, <2>7, <3>1, GotoTerminates
  <2>8. CASE SignalVictim(p, q, rest) /\ ~Exists(q)
    <3>1. Goto(p, "rm_next", lib[p], m) /\ sig' = sig /\ Reaches("rm_next", lib[p])
      BY <2>4, <2>8 DEF PostTerm, Reaches
    <3> QED
      BY <1>1, <2>1, <2>5, <3>1, GoesOn
  <2> QED
    BY <1>4, <2>6, <2>7, <2>8
<1> QED
  BY <1>3, <1>4 DEF kill_proc_tree

\* pclose and pspawn, with the pid pinfo has printed.
LEMMA PrintedTurn ==
  ASSUME CalmInv, NEW p \in Pid, pclose(p) \/ pspawn(p)
  PROVE  Turn' /\ Order'
<1> USE DEF CalmInv
<1>1. /\ pc[p] = "popen" /\ lib[p].at = "ret" /\ Busy(p) /\ pc[p] \in CommandPoints
      /\ UNCHANGED <<parent, nextPid, fifo>>
  BY DEF pclose, pspawn, Ready, Busy, BusyAt, CommandPoints
<1>2. \A point \in {"exit", "spawn_sent"} : Stays(p, point, mem[p]) /\ pc[p] \notin Terminating
  BY <1>1, CommandStays DEF CommandPoints, Asking
<1>3. CASE Finish(p) /\ UNCHANGED sig
  BY <1>1, <1>3, FinishTurn
<1>4. CASE /\ PostTerm(mem[p].peer, p)
           /\ Goto(p, "exit", message_wait(p, mem[p].peer), mem[p])
  <2> DEFINE l == message_wait(p, mem[p].peer)
  <2>1. l.at = "check" /\ l.unread_flag = lib[p].unread_flag
    BY CallFacts
  <2>2. Goto(p, "exit", l, mem[p])
    BY <1>4
  <2> HIDE DEF l
  <2>3. Legal(p, "exit", l, mem[p]) /\ Modest(p, "exit", l, mem[p]) /\ ~BusyAt("exit", l, mem[p])
    BY <1>1, <1>2, <2>1 DEF Legal, OpenAt, Reaches, Receiving, Modest, BusyAt
  <2> QED
    BY <1>1, <1>4, <2>2, <2>3, GotoTerminates
<1>5. CASE /\ Goto(p, "spawn_sent", message_send(p, mem[p].peer, MSG_SPAWN, <<Pad>>), mem[p])
           /\ UNCHANGED sig
  <2>1. "spawn_sent" \in Sending \union Answering
    BY DEF Sending
  <2> QED
    BY <1>1, <1>2, <1>5, <2>1, Sends
<1> QED
  BY <1>3, <1>4, <1>5 DEF pclose, pspawn

LEMMA CommandTurn ==
  ASSUME CalmInv, NEW p \in Pid, CommandStep(p)
  PROVE  Turn' /\ Order'
<1>1. CASE ExitCommand(p) \/ PrintInfo(p)
  <2>1. pc[p] \in CommandPoints /\ Busy(p) /\ UNCHANGED fifo
    BY <1>1, Runnable DEF ExitCommand, PrintInfo, Ready, CommandPoints, Receiving
  <2>2. \E output : ExitPrinting(p, output)
    BY <1>1 DEF ExitCommand, PrintInfo, Exit
  <2> QED
    BY <2>1, <2>2, LeaveTurn
<1> QED
  BY <1>1, StartTurn, AwaitTurn, PnewTurn, AddTurn, ListTurn, VictimTurn, PrintedTurn DEF CommandStep

-----------------------------------------------------------------------------
(***************************************************************************)
(* The calls of message.c.                                                 *)
(***************************************************************************)
LEMMA StaysPut ==
  ASSUME TypeInv, Order, NEW p \in Pid, pc[p] \notin Gone \union {"start"}
  PROVE  Stays(p, pc[p], mem[p])
<1>1. p = PM => (pc[p] \in Managing \ {"readline", "cleanup"} => mem[p].kid # NoPid)
  BY DEF Order, Discipline, OneManager
<1> QED
  BY <1>1 DEF Stays

\* A step in a call: only the memory of message.c changes, and p stays where it is.
LEMMA CallGoto ==
  ASSUME TypeInv, Order, NEW p \in Pid, NEW l, lib' = [lib EXCEPT ![p] = l], UNCHANGED <<pc, mem>>,
         pc[p] \in Sending \union Answering \union Receiving,
         OpenAt(pc[p], l), Reaches(pc[p], l)
  PROVE  Goto(p, pc[p], l, mem[p]) /\ Legal(p, pc[p], l, mem[p])
<1>1. pc[p] \notin Gone \union {"start"}
  BY DEF Gone, Sending, Answering, Receiving
<1>2. pc' = [pc EXCEPT ![p] = pc[p]] /\ mem' = [mem EXCEPT ![p] = mem[p]]
  BY Shape
<1> QED
  BY <1>1, <1>2, StaysPut DEF Goto, Legal

LEMMA WriteTurn ==
  ASSUME CalmInv, NEW p \in Pid, WriteText(p)
  PROVE  Turn' /\ Order'
<1> USE DEF CalmInv
<1> DEFINE l == [lib[p] EXCEPT !.at = "kill", !.text = <<>>]
<1>1. /\ lib[p].at = "write" /\ lib' = [lib EXCEPT ![p] = l]
      /\ UNCHANGED <<pc, mem, sig, parent, nextPid>>
      /\ lib[p] \in LibType /\ lib \in [Pid -> SoundLib] /\ PM \in Pid
  BY Shape DEF WriteText, SoundLib
<1>2. /\ l.at = "kill" /\ l.pid = lib[p].pid /\ l.unread_flag = lib[p].unread_flag
  BY <1>1 DEF LibType
<1> HIDE DEF l
<1>3. /\ pc[p] \in Sending \union Answering
      /\ pc[p] \in {"term_sent", "clone_sent"} => lib[p].pid = PM
  BY <1>1 DEF Order, Discipline, CallsOpen, OpenAt, ManagerReached, Reaches
<1>4. Goto(p, pc[p], l, mem[p]) /\ Legal(p, pc[p], l, mem[p])
  BY <1>1, <1>2, <1>3, CallGoto DEF OpenAt, Reaches
<1>5. Discipline'
  BY <1>1, <1>4, GotoDiscipline DEF Order, Discipline, NoInterrupt
<1>6. fifo' # <<>>
  BY DEF WriteText, TypeInv, KernelInv
<1>7. Busy(p) /\ "busy" \in Claims
  BY <1>1 DEF Busy, BusyAt, Claims
<1>8. Only(p, "busy") /\ HasTurn(p, "busy")
  BY <1>7, BusyAlone DEF HasTurn
<1>9. Only(p, "busy")'
  BY <1>1, <1>2, <1>8 DEF Only, Busy
<1>10. Turn'
  BY <1>1, <1>7, <1>8, <1>9, PassTurn DEF Turn
<1> QED
  BY <1>5, <1>6, <1>10 DEF Order, TextThere

LEMMA NotifyTurn ==
  ASSUME CalmInv, NEW p \in Pid, NotifyReceiver(p)
  PROVE  Turn' /\ Order'
<1> USE DEF CalmInv
<1> DEFINE l == [lib[p] EXCEPT !.at = "ret", !.pid = NoPid,
                               !.status = IF Exists(lib[p].pid) THEN 0 ELSE -1]
<1>1. /\ lib[p].at = "kill" /\ lib' = [lib EXCEPT ![p] = l]
      /\ UNCHANGED <<pc, mem, parent, nextPid, fifo>>
      /\ PostUsr1(lib[p].pid, p)
      /\ lib[p] \in LibType /\ lib \in [Pid -> SoundLib] /\ PM \in Pid
      /\ sig \in [Pid -> SignalType]
  BY Shape DEF NotifyReceiver, SoundLib
<1>2. /\ l.at = "ret" /\ l.unread_flag = lib[p].unread_flag
      /\ l.status = IF Exists(lib[p].pid) THEN 0 ELSE -1
  BY <1>1 DEF LibType
<1> HIDE DEF l
<1>3. /\ pc[p] \in Sending \union Answering
      /\ pc[p] \in {"term_sent", "clone_sent"} => lib[p].pid = PM
  BY <1>1 DEF Order, Discipline, CallsOpen, OpenAt, ManagerReached, Reaches
<1>4. Busy(p) /\ {"busy", "usr1"} \subseteq Claims
  BY <1>1 DEF Busy, BusyAt, Claims
<1>5. Only(p, "busy") /\ HasTurn(p, "busy")
  BY <1>4, BusyAlone DEF HasTurn
<1>6. Exists(PM)
  <2>1. pc[PM] # "dead"
    BY <1>4, <1>5 DEF Turn, TurnWithShell
  <2> QED
    BY <1>1, <2>1, Manager DEF Exists, Managing, ManagerPoints
<1>7. Goto(p, pc[p], l, mem[p]) /\ Legal(p, pc[p], l, mem[p])
  BY <1>1, <1>2, <1>3, <1>6, CallGoto DEF OpenAt, Reaches
<1>8. \A q \in Pid : /\ sig'[q].int = sig[q].int /\ sig'[q].term = sig[q].term
                     /\ pc[q] \in Gone => sig'[q] = sig[q]
                     /\ q # lib[p].pid => sig'[q] = sig[q]
  BY <1>1 DEF PostUsr1, Alive, SignalType
<1>9. Discipline'
  BY <1>1, <1>7, <1>8, GotoDiscipline DEF Order, Discipline, NoInterrupt
<1>10. TextThere'
  BY <1>1 DEF Order, TextThere, Announcing
<1>11. Busy(p)' => ~Exists(lib[p].pid)
  BY <1>1, <1>2, <1>3 DEF Busy, BusyAt, Sending, Answering, Receiving
<1>12. \A x \in Pid : /\ x # p => ~Busy(x)'
                      /\ ~lib'[x].unread_flag /\ sig'[x].term = NoPid
                      /\ ~(mem'[x].sigterm_flag = 1 /\ pc'[x] \notin Terminating)
                      /\ sig[x].usr1 = NoPid
  BY <1>1, <1>2, <1>5, <1>8 DEF Only, Busy
<1>13. mem'[PM].kid # NoPid => pc'[mem'[PM].kid] # "zombie"
  BY <1>1, <1>5 DEF Only
<1>14. CASE Exists(lib[p].pid)
  <2>1. PICK r \in Pid : r = lib[p].pid
    BY <1>14 DEF Exists
  <2>2. Only(r, "usr1")'
    BY <1>8, <1>11, <1>12, <1>13, <1>14, <2>1 DEF Only
  <2> QED
    BY <1>1, <1>4, <1>5, <1>9, <1>10, <2>2, PassTurn DEF Turn, Order
<1>15. CASE ~Exists(lib[p].pid)
  <2>1. sig' = sig
    BY <1>1, <1>15 DEF PostUsr1
  <2>2. Only(p, "busy")'
    BY <1>12, <1>13, <2>1 DEF Only
  <2> QED
    BY <1>1, <1>4, <1>5, <1>9, <1>10, <2>2, PassTurn DEF Turn, Order
<1> QED
  BY <1>14, <1>15

LEMMA CheckTurn ==
  ASSUME CalmInv, NEW p \in Pid, CheckFlags(p) \/ Suspend(p)
  PROVE  Turn' /\ Order'
<1> USE DEF CalmInv
<1>1. PICK at \in {"read", "suspend", "asleep"} :
        /\ lib' = [lib EXCEPT ![p] = [lib[p] EXCEPT !.at = at]]
        /\ at = "read" => lib[p].unread_flag
  BY DEF CheckFlags, Suspend, Announced
<1> DEFINE l == [lib[p] EXCEPT !.at = at]
<1>2. /\ lib[p].at \in {"check", "suspend"} /\ lib' = [lib EXCEPT ![p] = l]
      /\ UNCHANGED <<pc, mem, sig, parent, nextPid, fifo>>
      /\ lib[p] \in LibType
  BY <1>1, Shape DEF CheckFlags, Suspend, SoundLib
<1>3. l.at = at /\ l.unread_flag = lib[p].unread_flag
  BY <1>2 DEF LibType
<1> HIDE DEF l
<1>4. pc[p] \in Receiving /\ pc[p] \notin {"term_sent", "clone_sent"}
  BY <1>2 DEF Order, Discipline, CallsOpen, OpenAt, Receiving
<1>5. OpenAt(pc[p], l) /\ Reaches(pc[p], l)
  BY <1>1, <1>3, <1>4 DEF OpenAt, Reaches
<1>6. Goto(p, pc[p], l, mem[p]) /\ Legal(p, pc[p], l, mem[p])
  BY <1>2, <1>4, <1>5, CallGoto
<1>7. Modest(p, pc[p], l, mem[p]) /\ ~BusyAt(pc[p], l, mem[p])
  BY <1>2, <1>3 DEF Modest, BusyAt
<1> QED
  BY <1>2, <1>6, <1>7, GotoKeeps

\* Who reads has been told of a text, and nobody else has the turn.
LEMMA Reader ==
  ASSUME CalmInv, NEW p \in Pid, lib[p].at \in {"read", "reset"}
  PROVE  /\ lib[p].unread_flag /\ pc[p] \in Receiving
         /\ Only(p, "unread") /\ HasTurn(p, "unread") /\ "unread" \in Claims
         /\ lib[p].at = "read" => fifo # <<>>
<1>1. lib[p].unread_flag /\ pc[p] \in Receiving
  BY DEF CalmInv, Order, Discipline, CallsOpen, OpenAt
<1>2. HasTurn(p, "unread") /\ "unread" \in Claims
  BY <1>1 DEF HasTurn, Claims
<1>3. Only(p, "unread")
  BY <1>2, Holder DEF CalmInv, Turn
<1>4. lib[p].at = "read" => fifo # <<>>
  BY <1>1 DEF CalmInv, Order, TextThere, Announcing
<1> QED
  BY <1>1, <1>2, <1>3, <1>4

LEMMA ReadTurn ==
  ASSUME CalmInv, NEW p \in Pid, ReadText(p)
  PROVE  Turn' /\ Order'
<1> USE DEF CalmInv
<1>1. /\ lib[p].at = "read" /\ UNCHANGED <<pc, mem, sig, parent, nextPid>>
      /\ ReadToEnd(p) \/ ReadAtom(p)
      /\ lib[p] \in LibType /\ lib \in [Pid -> SoundLib] /\ PM \in Pid
      /\ fifo \in Seq(LetterType) /\ fifo # <<>>
  BY Reader, Shape DEF ReadText, SoundLib, TypeInv, KernelInv
<1>2. /\ lib[p].unread_flag /\ pc[p] \in Receiving /\ pc[p] \notin {"term_sent", "clone_sent"}
      /\ Only(p, "unread")
  BY <1>1, Reader DEF Receiving
<1>3. PICK l : /\ lib' = [lib EXCEPT ![p] = l]
               /\ l.at \in {"read", "reset"} /\ l.unread_flag
               /\ l.at = "reset" \/ fifo' # <<>>
  <2>1. CASE ReadToEnd(p)
    <3> DEFINE text == lib[p].text \o Head(fifo).text
               l == [lib[p] EXCEPT !.at = "reset", !.text = text, !.msg = MessageOf(text)]
    <3>1. lib' = [lib EXCEPT ![p] = l]
      BY <2>1 DEF ReadToEnd
    <3>2. l.at = "reset" /\ l.unread_flag
      BY <1>1, <1>2 DEF LibType
    <3> QED
      BY <3>1, <3>2
  <2>2. CASE ReadAtom(p)
    <3> DEFINE l == [lib[p] EXCEPT !.text = Append(@, Head(Head(fifo).text))]
    <3>1. lib' = [lib EXCEPT ![p] = l]
      BY <2>2 DEF ReadAtom
    <3>2. l.at = "read" /\ l.unread_flag
      BY <1>1, <1>2 DEF LibType
    <3>3. fifo' # <<>>
      <4> DEFINE letter == Letter(Head(fifo).to, Tail(Head(fifo).text))
                 S == LetterType \union {letter}
                 rest == Tail(fifo)
      <4>1. fifo' = <<letter>> \o rest
        BY <2>2 DEF ReadAtom
      <4>2. rest \in Seq(LetterType)
        BY <1>1
      <4> HIDE DEF letter, rest
      <4>3. rest \in Seq(S) /\ <<letter>> \in Seq(S)
        BY <4>2
      <4> QED
        BY <4>1, <4>3, ConcatProperties
    <3> QED
      BY <3>1, <3>2, <3>3
  <2> QED
    BY <1>1, <2>1, <2>2
<1>4. Goto(p, pc[p], l, mem[p]) /\ Legal(p, pc[p], l, mem[p])
  BY <1>1, <1>2, <1>3, CallGoto DEF OpenAt, Reaches
<1>5. Discipline'
  BY <1>1, <1>4, GotoDiscipline DEF Order, Discipline, NoInterrupt
<1>6. TextThere'
  <2>1. CASE l.at # "reset"
    BY <1>3, <2>1 DEF TextThere
  <2>2. CASE l.at = "reset"
    <3>1. ASSUME NEW x \in Pid PROVE ~Announcing(x)'
      <4>1. sig'[x].usr1 = NoPid
        BY <1>1, <1>2 DEF Only
      <4>2. CASE x = p
        BY <1>1, <1>3, <2>2, <4>1, <4>2 DEF Announcing
      <4>3. CASE x # p
        <5>1. lib'[x] = lib[x] /\ ~lib[x].unread_flag /\ ~Busy(x)
          BY <1>1, <1>2, <1>3, <4>3 DEF Only
        <5> QED
          BY <4>1, <5>1 DEF Announcing, Busy, BusyAt
      <4> QED
        BY <4>2, <4>3
    <3> QED
      BY <3>1 DEF TextThere
  <2> QED
    BY <2>1, <2>2
<1>7. NoNewTurn
  BY <1>1, <1>2, <1>3 DEF NoNewTurn, Busy, BusyAt
<1> QED
  BY <1>1, <1>5, <1>6, <1>7, KeepTurn DEF Order

LEMMA ResetTurn ==
  ASSUME CalmInv, NEW p \in Pid, ResetFlags(p)
  PROVE  Turn' /\ Order'
<1> USE DEF CalmInv
<1> DEFINE l == [lib[p] EXCEPT !.at = "ret", !.pid = NoPid, !.text = <<>>,
                               !.unread_flag = FALSE, !.message_sender = NoPid]
<1>1. /\ lib[p].at = "reset" /\ UNCHANGED <<pc, mem, sig, parent, nextPid, fifo>>
      /\ lib' = [lib EXCEPT ![p] = l]
      /\ lib[p] \in LibType /\ lib \in [Pid -> SoundLib] /\ PM \in Pid
  BY Shape DEF ResetFlags, SoundLib
<1>2. l.at = "ret" /\ ~l.unread_flag
  BY <1>1 DEF LibType
<1> HIDE DEF l
<1>3. /\ pc[p] \in Receiving /\ pc[p] \notin {"term_sent", "clone_sent"}
      /\ Only(p, "unread") /\ HasTurn(p, "unread") /\ {"unread", "busy"} \subseteq Claims
  BY <1>1, Reader DEF Receiving, Claims
<1>4. Goto(p, pc[p], l, mem[p]) /\ Legal(p, pc[p], l, mem[p])
  BY <1>1, <1>2, <1>3, CallGoto DEF OpenAt, Reaches
<1>5. Modest(p, pc[p], l, mem[p])
  BY <1>2 DEF Modest
<1>6. Order'
  BY <1>1, <1>4, <1>5, GotoOrder
<1>7. Only(p, "busy")'
  BY <1>1, <1>2, <1>3 DEF Only, Busy
<1> QED
  BY <1>1, <1>3, <1>6, <1>7, PassTurn DEF Turn

LEMMA MessageTurn ==
  ASSUME CalmInv, NEW p \in Pid, MessageStep(p)
  PROVE  Turn' /\ Order'
BY WriteTurn, NotifyTurn, CheckTurn, ReadTurn, ResetTurn DEF MessageStep

-----------------------------------------------------------------------------
(***************************************************************************)
(* pmanager and its user.                                                  *)
(***************************************************************************)
LEMMA ManagerStays ==
  ASSUME TypeInv, Order, pc[PM] \in Managing, NEW point \in Managing, NEW m,
         m.kid \in {mem[PM].kid, NoPid},
         point \in Managing \ {"readline", "cleanup"} => m.kid # NoPid
  PROVE  Stays(PM, point, m) /\ pc[PM] \notin Gone \union Terminating
<1>1. point \notin Gone \union {"exec", "boot", "popen", "start"} \union ChildPoints
  BY DEF Managing, ManagerPoints, Gone, ChildPoints
<1>2. pc[PM] \notin Gone \union Asking \union Terminating
  BY DEF Managing, ManagerPoints, Gone, Asking, Terminating
<1> QED
  BY <1>1, <1>2 DEF Stays

\* pmanager has a command while it serves messages.
LEMMA Serving ==
  ASSUME Order, pc[PM] \in Managing \ {"readline", "cleanup"}
  PROVE  mem[PM].kid # NoPid
  BY DEF Order, Discipline, OneManager

LEMMA ExecCommandTurn ==
  ASSUME CalmInv, pc[PM] \in {"readline", "cleanup"}, lib[PM].at = "ret",
         NEW m \in MemType, m.sigterm_flag = mem[PM].sigterm_flag, NEW prog, NEW name, NEW to,
         exec_command(PM, m, prog, name, to), UNCHANGED <<sig, fifo>>
  PROVE  Turn' /\ Order'
<1> USE DEF CalmInv
<1> DEFINE m1 == [m EXCEPT !.kid = nextPid]
           kidMem == [NewCommand(prog, name, to) EXCEPT !.exiting = m.exiting, !.masked = m.masked]
<1>1. Fork(PM, "poll", lib[PM], m1, "exec", lib[PM], kidMem)
  BY DEF exec_command
<1>2. PM \in Pid /\ mem[PM] \in MemType
  BY Shape DEF SoundMem
<1>3. Busy(PM)
  BY <1>2, Runnable
<1>4. ~lib[PM].unread_flag /\ mem[PM].sigterm_flag # 1
  BY <1>2, <1>3, BusyAlone DEF Terminating
<1>5. m1.sigterm_flag = 0 /\ m1.kid = nextPid
  BY <1>2, <1>4 DEF MemType
<1>6. kidMem.sigterm_flag = 0
  BY DEF NewCommand, BlankMem
<1> HIDE DEF m1, kidMem
<1>7. ForkLegal(PM, "poll", lib[PM], m1, "exec", lib[PM], kidMem)
  BY <1>4, <1>5
  DEF ForkLegal, OpenAt, Reaches, Gone, Asking, ChildPoints, Managing, ManagerPoints
<1>8. ~BusyAt("poll", lib[PM], m1)
  BY DEF BusyAt, Receiving, Sending
<1> QED
  BY <1>1, <1>2, <1>3, <1>5, <1>6, <1>7, <1>8, ForkTurn

\* Nothing happens to the processes.
LEMMA SameTurn ==
  ASSUME Turn, Order, UNCHANGED <<pc, lib, mem, sig, parent, nextPid, fifo>>
  PROVE  Turn' /\ Order'
<1>1. NoNewTurn
  BY DEF NoNewTurn, Busy
<1>2. Turn'
  BY <1>1, KeepTurn
<1>3. CallsOpen' /\ ManagerReached'
  BY DEF Order, Discipline, CallsOpen, ManagerReached
<1>4. OneManager' /\ Relatives'
  BY DEF Order, Discipline, OneManager, Relatives
<1>5. NoInterrupt' /\ TextThere'
  BY DEF Order, Discipline, NoInterrupt, TextThere, Announcing
<1> QED
  BY <1>2, <1>3, <1>4, <1>5 DEF Order, Discipline

LEMMA UserTurn ==
  ASSUME CalmInv, ReadLine \/ EndOfInput
  PROVE  Turn' /\ Order'
<1> USE DEF CalmInv
<1>1. /\ pc[PM] = "readline" /\ lib[PM].at = "ret" /\ UNCHANGED <<sig, fifo>>
      /\ PM \in Pid /\ mem[PM] \in MemType
  BY Shape DEF ReadLine, EndOfInput, Ready, SoundMem
<1>2. CASE Goto(PM, "cleanup", lib[PM], mem[PM]) /\ UNCHANGED <<parent, nextPid>>
  <2>1. Stays(PM, "cleanup", mem[PM]) /\ pc[PM] \notin Terminating
    BY <1>1, ManagerStays DEF Managing, ManagerPoints
  <2>2. Busy(PM) /\ Reaches("cleanup", lib[PM])
    BY <1>1, Runnable DEF Reaches
  <2> QED
    BY <1>1, <1>2, <2>1, <2>2, GoesOn
<1>3. CASE UNCHANGED <<pc, lib, mem, parent, nextPid>>
  BY <1>1, <1>3, SameTurn
<1>4. CASE \E prog, name, to : exec_command(PM, mem[PM], prog, name, to)
  BY <1>1, <1>4, ExecCommandTurn
<1> QED
  BY <1>2, <1>3, <1>4 DEF ReadLine, EndOfInput

LEMMA ExecTurn ==
  ASSUME CalmInv, NEW p \in Pid, ~CopyCleansUp(p), execvp(p)
  PROVE  Turn' /\ Order'
<1> USE DEF CalmInv
<1> DEFINE m == [mem[p] EXCEPT !.exiting = FALSE]
<1>1. /\ pc[p] = "exec" /\ lib[p].at = "ret" /\ UNCHANGED <<sig, parent, nextPid, fifo>>
      /\ Busy(p) /\ mem[p] \in MemType
  BY Runnable, Shape DEF execvp, Ready, SoundMem
<1>2. Goto(p, "start", BlankLib, m)
  BY <1>1, Shape DEF execvp, CopyCleansUp, Goto
<1>3. m.sigterm_flag = mem[p].sigterm_flag
  BY <1>1 DEF MemType
<1> HIDE DEF m
<1>4. p # PM
  BY <1>1, Manager DEF Managing, ManagerPoints
<1>5. Stays(p, "start", m) /\ pc[p] \notin Terminating
  BY <1>1, <1>4
  DEF Stays, Gone, Managing, ManagerPoints, ChildPoints, Asking, Terminating
<1>6. BlankLib.at = "ret" /\ ~BlankLib.unread_flag /\ Reaches("start", BlankLib)
  BY DEF BlankLib, Reaches
<1> QED
  BY <1>1, <1>2, <1>3, <1>5, <1>6, GoesOn

LEMMA PollTurn ==
  ASSUME CalmInv, NEW p \in Pid, Poll(p)
  PROVE  Turn' /\ Order'
<1> USE DEF CalmInv
<1>1. /\ pc[p] = "poll" /\ lib[p].at = "ret" /\ UNCHANGED <<sig, parent, nextPid, fifo>>
      /\ p = PM
  BY Manager DEF Poll, Ready, Managing, ManagerPoints
<1>2. \A point \in {"handle", "towait"} : Stays(p, point, mem[p]) /\ pc[p] \notin Terminating
  <2>1. mem[PM].kid # NoPid
    BY <1>1, Serving DEF Managing, ManagerPoints
  <2> QED
    BY <1>1, <2>1, ManagerStays DEF Managing, ManagerPoints
<1>3. CASE lib[p].unread_flag
  <2> DEFINE l == message_read(p)
  <2>1. Goto(p, "handle", l, mem[p])
    BY <1>3 DEF Poll
  <2>2. l.at = "read" /\ l.unread_flag = lib[p].unread_flag
    BY CallFacts
  <2> HIDE DEF l
  <2>3. Legal(p, "handle", l, mem[p])
    BY <1>2, <1>3, <2>2 DEF Legal, OpenAt, Reaches, Receiving
  <2>4. Modest(p, "handle", l, mem[p]) /\ ~BusyAt("handle", l, mem[p])
    BY <1>1, <1>2, <2>2 DEF Modest, BusyAt
  <2> QED
    BY <1>1, <2>1, <2>3, <2>4, GotoKeeps
<1>4. CASE ~lib[p].unread_flag
  <2>1. Goto(p, "towait", lib[p], mem[p])
    BY <1>4 DEF Poll
  <2>2. Reaches("towait", lib[p]) /\ ~BusyAt("towait", lib[p], mem[p])
    BY <1>1 DEF Reaches, BusyAt, Receiving, Sending
  <2> QED
    BY <1>1, <1>2, <2>1, <2>2, GoesOn
<1> QED
  BY <1>3, <1>4

\* The command is reaped: the turn comes from it to the prompt.
LEMMA ReapTurn ==
  ASSUME CalmInv, pc[PM] \in {"towait", "waitpid"}, lib[PM].at = "ret",
         pc[mem[PM].kid] = "zombie",
         pc' = [pc EXCEPT ![mem[PM].kid] = "dead", ![PM] = "readline"],
         mem' = [mem EXCEPT ![PM].kid = NoPid],
         UNCHANGED <<lib, sig, parent, nextPid, fifo>>
  PROVE  Turn' /\ Order'
<1> USE DEF CalmInv
<1>1. mem[PM].kid # NoPid
  BY Serving DEF Managing, ManagerPoints
<1>2. PICK k \in Pid : k = mem[PM].kid
  BY <1>1, Shape DEF SoundMem, MemType
<1>3. /\ PM \in Pid /\ k # PM /\ mem[PM] \in MemType
      /\ mem \in [Pid -> SoundMem] /\ pc \in [Pid -> Points]
  BY <1>2, Shape DEF SoundMem
<1>4. /\ pc'[PM] = "readline" /\ pc'[k] = "dead" /\ pc[k] = "zombie"
      /\ \A x \in Pid \ {k, PM} : pc'[x] = pc[x]
      /\ \A x \in Pid : mem'[x] = IF x = PM THEN [mem[PM] EXCEPT !.kid = NoPid] ELSE mem[x]
  BY <1>2, <1>3
<1>5. mem'[PM].kid = NoPid /\ mem'[PM].sigterm_flag = mem[PM].sigterm_flag
  BY <1>3, <1>4 DEF MemType
<1>6. HasTurn(PM, "reap") /\ {"reap", "busy"} \subseteq Claims
  BY <1>1, <1>2, <1>4 DEF HasTurn, Claims
<1>7. Only(PM, "reap")
  BY <1>3, <1>6, Holder DEF Turn
<1>8. lib[k] = BlankLib /\ sig[k] = NoSignals /\ mem[k].sigterm_flag = 0
  BY <1>4 DEF Order, Discipline, CallsOpen, Gone
<1>9. Only(PM, "busy")'
  <2>1. ASSUME NEW x \in Pid \ {PM} PROVE ~Busy(x)'
    <3>1. ~Busy(x)
      BY <1>7, <2>1 DEF Only
    <3>2. CASE x = k
      <4>1. lib'[x].at = "ret" /\ pc'[x] = "dead"
        BY <1>4, <1>8, <3>2 DEF BlankLib
      <4> QED
        BY <4>1 DEF Busy, BusyAt, Receiving, Sending
    <3>3. CASE x # k
      <4>1. pc'[x] = pc[x] /\ lib'[x] = lib[x] /\ mem'[x] = mem[x]
        BY <1>4, <2>1, <3>3
      <4> QED
        BY <3>1, <4>1 DEF Busy
    <3> QED
      BY <3>2, <3>3
  <2>2. ASSUME NEW x \in Pid
        PROVE  ~(mem'[x].sigterm_flag = 1 /\ pc'[x] \notin Terminating)
    <3>1. ~(mem[x].sigterm_flag = 1 /\ pc[x] \notin Terminating)
      BY <1>7, <2>2 DEF Only
    <3>2. mem'[x].sigterm_flag = mem[x].sigterm_flag
      BY <1>3, <1>4, <1>5, <2>2
    <3>3. CASE x = PM
      BY <3>1, <3>2, <3>3 DEF Terminating
    <3>4. CASE x = k
      BY <1>8, <3>2, <3>4
    <3>5. CASE x \notin {k, PM}
      BY <1>4, <2>2, <3>1, <3>2, <3>5
    <3> QED
      BY <3>3, <3>4, <3>5
  <2> QED
    BY <1>5, <1>7, <2>1, <2>2 DEF Only
<1>10. Turn'
  BY <1>3, <1>4, <1>6, <1>9, PassTurn DEF Turn
<1>11. CallsOpen'
  <2>1. \A x \in Pid : OpenAt(pc[x], lib[x])
    BY DEF Order, Discipline, CallsOpen
  <2>2. ASSUME NEW x \in Pid PROVE OpenAt(pc'[x], lib[x])
    <3>1. CASE x \in {k, PM}
      <4>1. lib[x].at = "ret"
        BY <1>8, <3>1 DEF BlankLib
      <4> QED
        BY <4>1 DEF OpenAt
    <3>2. CASE x \notin {k, PM}
      BY <1>4, <2>1, <2>2, <3>2
    <3> QED
      BY <3>1, <3>2
  <2>3. \A x \in Pid : pc'[x] \in Gone =>
          lib[x] = BlankLib /\ sig[x] = NoSignals /\ mem'[x].sigterm_flag = 0
    BY <1>4, <1>8 DEF Order, Discipline, CallsOpen, Gone
  <2> QED
    BY <2>2, <2>3 DEF CallsOpen
<1>12. ManagerReached'
  BY <1>4 DEF Order, Discipline, ManagerReached, Reaches
<1>13. OneManager'
  BY <1>3, <1>4, <1>5 DEF Order, Discipline, OneManager, Managing, ManagerPoints
<1>14. Relatives'
  <2>1. ASSUME NEW x \in Pid, NEW q \in Pid, parent[x] = q
        PROVE  /\ pc'[q] \notin {"exec", "start", "unborn"}
               /\ pc'[q] = "popen" =>
                    pc'[x] \in {"start", "info_asked", "info_reply", "exit"} \union Gone
               /\ pc'[q] = "popen" /\ pc'[x] = "start" => mem'[x].prog = "pinfo"
    <3>1. /\ pc[q] \notin {"exec", "start", "unborn"}
          /\ pc[q] = "popen" => pc[x] \in {"start", "info_asked", "info_reply", "exit"} \union Gone
          /\ pc[q] = "popen" /\ pc[x] = "start" => mem[x].prog = "pinfo"
      BY <2>1 DEF Order, Discipline, Relatives
    <3>2. x = PM => pc'[q] # "popen"
      <4>1. parent[PM] \notin Pid
        BY PidFacts DEF Order, Discipline, OneManager, InitPid, Pid
      <4> QED
        BY <2>1, <4>1
    <3> QED
      BY <1>4, <3>1, <3>2 DEF Gone
  <2> QED
    BY <1>5, <2>1 DEF Relatives
<1>15. NoInterrupt' /\ TextThere'
  BY DEF Order, Discipline, NoInterrupt, TextThere, Announcing
<1> QED
  BY <1>10, <1>11, <1>12, <1>13, <1>14, <1>15 DEF Order, Discipline

LEMMA WaitpidTurn ==
  ASSUME CalmInv, NEW p \in Pid, WaitCommand(p)
  PROVE  Turn' /\ Order'
<1> USE DEF CalmInv
<1>1. /\ pc[p] \in {"towait", "waitpid"} /\ lib[p].at = "ret" /\ UNCHANGED fifo
      /\ p = PM /\ pc[PM] \notin Gone
  BY Manager DEF WaitCommand, Ready, Managing, ManagerPoints, Gone
<1>2. mem[PM].kid # NoPid
  BY <1>1, Serving DEF Managing, ManagerPoints
<1>3. CASE pc[mem[p].kid] # "zombie"
  <2>1. /\ pc' = [pc EXCEPT ![p] = "waitpid"]
        /\ UNCHANGED <<lib, mem, sig, parent, nextPid>>
    BY <1>3 DEF WaitCommand
  <2>2. Goto(p, "waitpid", lib[p], mem[p])
    BY <2>1, GotoPoint
  <2>3. Stays(p, "waitpid", mem[p]) /\ pc[p] \notin Terminating
    BY <1>1, <1>2, ManagerStays DEF Managing, ManagerPoints
  <2>4. Reaches("waitpid", lib[p]) /\ ~BusyAt("waitpid", lib[p], mem[p])
    BY <1>1 DEF Reaches, BusyAt, Receiving, Sending
  <2> QED
    BY <1>1, <2>1, <2>2, <2>3, <2>4, GoesOn
<1>4. CASE pc[mem[p].kid] = "zombie" /\ mem[p].exiting
  <2>1. ExitPrinting(PM, EndOfFile)
    BY <1>1, <1>4 DEF WaitCommand, EndManager, Exit
  <2>2. HasTurn(PM, "reap") /\ "reap" \in Claims
    BY <1>1, <1>2, <1>4 DEF HasTurn, Claims
  <2>3. Only(PM, "reap")
    BY <1>1, <2>2, Holder DEF Turn
  <2> QED
    BY <1>1, <2>1, <2>2, <2>3, ManagerEnds
<1>5. CASE pc[mem[p].kid] = "zombie" /\ ~mem[p].exiting
  BY <1>1, <1>5, ReapTurn DEF WaitCommand
<1> QED
  BY <1>3, <1>4, <1>5

LEMMA CleanupTurn ==
  ASSUME CalmInv, NEW p \in Pid, cleanup(p)
  PROVE  Turn' /\ Order'
<1> USE DEF CalmInv
<1>1. /\ pc[p] = "cleanup" /\ lib[p].at = "ret" /\ UNCHANGED fifo
      /\ p = PM /\ pc[PM] \notin Gone /\ Busy(PM) /\ mem[PM] \in MemType
  BY Manager, Runnable, Shape DEF cleanup, Ready, Managing, ManagerPoints, Gone, SoundMem
<1>2. CASE /\ exec_command(p, [mem[p] EXCEPT !.exiting = TRUE], "prmall", pmanager, NoPid)
           /\ UNCHANGED sig
  <2> DEFINE m == [mem[PM] EXCEPT !.exiting = TRUE]
  <2>1. m \in MemType /\ m.sigterm_flag = mem[PM].sigterm_flag
    BY <1>1 DEF MemType
  <2>2. exec_command(PM, m, "prmall", pmanager, NoPid)
    BY <1>1, <1>2
  <2> HIDE DEF m
  <2> QED
    BY <1>1, <1>2, <2>1, <2>2, ExecCommandTurn
<1>3. CASE EndManager(p)
  <2>1. ExitPrinting(PM, EndOfFile)
    BY <1>1, <1>3 DEF EndManager, Exit
  <2>2. Only(PM, "busy") /\ "busy" \in Claims
    BY <1>1, BusyAlone DEF Claims
  <2> QED
    BY <1>1, <2>1, <2>2, ManagerEnds
<1> QED
  BY <1>2, <1>3 DEF cleanup

\* pmanager answers, or sends a node.
LEMMA AnswerTurn ==
  ASSUME CalmInv, pc[PM] \in {"handle", "list_ack"}, lib[PM].at = "ret",
         NEW point \in {"towait", "list_sent"}, NEW to, NEW type, NEW content,
         NEW m, m.kid = mem[PM].kid, m.sigterm_flag = mem[PM].sigterm_flag,
         Goto(PM, point, message_send(PM, to, type, content), m),
         UNCHANGED <<sig, parent, nextPid, fifo>>
  PROVE  Turn' /\ Order'
<1> USE DEF CalmInv
<1>1. mem[PM].kid # NoPid
  BY Serving DEF Managing, ManagerPoints
<1>2. Stays(PM, point, m) /\ pc[PM] \notin Terminating
  BY <1>1, ManagerStays DEF Managing, ManagerPoints
<1>3. PM \in Pid /\ point \in Sending \union Answering /\ point \notin {"term_sent", "clone_sent"}
  BY Shape DEF Answering
<1>4. Busy(PM)
  BY <1>3, Runnable DEF Receiving
<1> QED
  BY <1>2, <1>3, <1>4, Sends

LEMMA HandleTurn ==
  ASSUME CalmInv, NEW p \in Pid, message_handler(p) \/ GotAck(p)
  PROVE  Turn' /\ Order'
<1> USE DEF CalmInv
<1>1. /\ pc[p] \in {"handle", "list_ack"} /\ lib[p].at = "ret" /\ p = PM /\ mem[PM] \in MemType
      /\ PM \in Pid
  BY Manager, Shape DEF message_handler, GotAck, Ready, Managing, ManagerPoints, SoundMem
<1>2. CASE /\ \E to, type, content : Goto(PM, "towait", message_send(PM, to, type, content), mem[PM])
           /\ UNCHANGED <<sig, parent, nextPid, fifo>>
  BY <1>1, <1>2, AnswerTurn
<1>3. ASSUME NEW to, NEW procs, SendNode(PM, to, procs)
      PROVE  Turn' /\ Order'
  <2> DEFINE m == [mem[PM] EXCEPT !.peer = to, !.procs = Tail(procs)]
  <2>1. m.kid = mem[PM].kid /\ m.sigterm_flag = mem[PM].sigterm_flag
    BY <1>1 DEF MemType
  <2>2. /\ \E type, content : Goto(PM, "list_sent", message_send(PM, to, type, content), m)
        /\ UNCHANGED <<sig, parent, nextPid, fifo>>
    BY <1>3 DEF SendNode
  <2> HIDE DEF m
  <2> QED
    BY <1>1, <2>1, <2>2, AnswerTurn
<1>4. CASE GotAck(p) /\ mem[p].procs = <<>>
  <2> DEFINE m == [mem[PM] EXCEPT !.peer = NoPid]
  <2>1. m.kid = mem[PM].kid /\ m.sigterm_flag = mem[PM].sigterm_flag
    BY <1>1 DEF MemType
  <2>2. /\ \E to, type, content : Goto(PM, "towait", message_send(PM, to, type, content), m)
        /\ UNCHANGED <<sig, parent, nextPid, fifo>>
    BY <1>1, <1>4 DEF GotAck
  <2> HIDE DEF m
  <2> QED
    BY <1>1, <2>1, <2>2, AnswerTurn
<1>5. CASE GotAck(p) /\ mem[p].procs # <<>>
  BY <1>1, <1>3, <1>5 DEF GotAck
<1>6. CASE message_handler(p) /\ lib[p].msg = NULL
  <2>1. /\ Goto(p, "towait", lib[p], mem[p]) /\ UNCHANGED <<sig, parent, nextPid, fifo>>
    BY <1>6 DEF message_handler
  <2>2. mem[PM].kid # NoPid
    BY <1>1, Serving DEF Managing, ManagerPoints
  <2>3. Stays(PM, "towait", mem[PM]) /\ pc[PM] \notin Terminating
    BY <1>1, <2>2, ManagerStays DEF Managing, ManagerPoints
  <2>4. Reaches("towait", lib[p]) /\ ~BusyAt("towait", lib[p], mem[p])
    BY <1>1 DEF Reaches, BusyAt, Receiving, Sending
  <2> QED
    BY <1>1, <2>1, <2>3, <2>4, GoesOn
<1>7. CASE message_handler(p) /\ lib[p].msg # NULL
  <2>1. \/ msg_add_handler(PM, lib[p].msg) \/ msg_info_handler(PM, lib[p].msg)
        \/ msg_remove_handler(PM, lib[p].msg) \/ msg_list_handler(PM, lib[p].msg)
        \/ Answer(PM, lib[p].msg.sender, MSG_ERROR, <<Pad>>)
    BY <1>1, <1>7 DEF message_handler
  <2>2. \/ \E to, type, content : Answer(PM, to, type, content)
        \/ \E to, procs : SendNode(PM, to, procs)
    BY <2>1 DEF msg_add_handler, msg_info_handler, msg_remove_handler, msg_list_handler
  <2>3. CASE \E to, type, content : Answer(PM, to, type, content)
    BY <1>2, <2>3 DEF Answer
  <2> QED
    BY <1>3, <2>2, <2>3
<1> QED
  BY <1>4, <1>5, <1>6, <1>7

LEMMA AckTurn ==
  ASSUME CalmInv, NEW p \in Pid, AwaitAck(p)
  PROVE  Turn' /\ Order'
<1> USE DEF CalmInv
<1>1. /\ pc[p] = "list_sent" /\ lib[p].at = "ret" /\ p = PM
      /\ Goto(p, "list_ack", message_wait(p, mem[p].peer), mem[p])
      /\ UNCHANGED <<sig, parent, nextPid, fifo>>
  BY Manager DEF AwaitAck, Ready, Managing, ManagerPoints
<1>2. mem[PM].kid # NoPid
  BY <1>1, Serving DEF Managing, ManagerPoints
<1>3. Stays(PM, "list_ack", mem[PM]) /\ pc[PM] \notin Terminating /\ "list_ack" \in Receiving
  BY <1>1, <1>2, ManagerStays DEF Managing, ManagerPoints, Receiving
<1> QED
  BY <1>1, <1>3, Waits

LEMMA ManagerTurn ==
  ASSUME CalmInv, NEW p \in Pid, ~CopyCleansUp(p), ManagerStep(p)
  PROVE  Turn' /\ Order'
BY ExecTurn, PollTurn, WaitpidTurn, CleanupTurn, HandleTurn, AckTurn DEF ManagerStep

-----------------------------------------------------------------------------
(***************************************************************************)
(* The signals.                                                            *)
(***************************************************************************)
\* Where a handler can find a process that was not about to go on: it stays where
\* it is, or a blocking call ends.
LEMMA HandlerPoint ==
  ASSUME CalmInv, NEW p \in Pid, pc[p] \notin Gone, ~Busy(p) \/ pc[p] \in ChildPoints,
         NEW point \in AfterSignal(p)
  PROVE  /\ pc[p] \notin {"exec", "start", "readline", "cleanup"}
         /\ \/ point = pc[p]
            \/ pc[p] = "asleep" /\ point = "flag"
            \/ pc[p] = "waitpid" /\ point = "poll"
<1>1. CASE pc[p] \in ChildPoints
  BY <1>1 DEF AfterSignal, ChildPoints
<1>2. CASE ~Busy(p)
  <2>1. ASSUME pc[p] \in {"exec", "start", "readline", "cleanup"} PROVE FALSE
    <3>1. lib[p].at \in CallPoints
      BY Shape DEF CalmInv, SoundLib, LibType
    <3>2. lib[p].at = "ret"
      BY <2>1, <3>1
      DEF CalmInv, Order, Discipline, CallsOpen, OpenAt, CallPoints, Sending, Answering, Receiving
    <3> QED
      BY <1>2, <2>1, <3>2, Runnable
  <2> QED
    BY <2>1 DEF AfterSignal
<1> QED
  BY <1>1, <1>2

LEMMA HandlerRuns ==
  ASSUME CalmInv, NEW p \in Pid, pc[p] \notin Gone, ~Busy(p) \/ pc[p] \in ChildPoints,
         NEW point \in AfterSignal(p), NEW l, NEW m,
         l.at = WokenAt(lib[p].at), l.pid = lib[p].pid, l.status = lib[p].status,
         lib[p].unread_flag => l.unread_flag,
         m.kid = mem[p].kid, m.peer = mem[p].peer
  PROVE  /\ Legal(p, point, l, m)
         /\ BusyAt(point, l, m) => Busy(p)
         /\ pc[p] \in Terminating <=> point \in Terminating
<1> USE DEF CalmInv
<1>1. /\ pc[p] \notin {"exec", "start", "readline", "cleanup"}
      /\ \/ point = pc[p]
         \/ pc[p] = "asleep" /\ point = "flag"
         \/ pc[p] = "waitpid" /\ point = "poll"
  BY HandlerPoint
<1>2. OpenAt(pc[p], lib[p]) /\ Reaches(pc[p], lib[p])
  BY DEF Order, Discipline, CallsOpen, ManagerReached
<1>3. /\ l.at = lib[p].at \/ (lib[p].at = "asleep" /\ l.at = "check")
      /\ lib[p].at \in CallPoints
  BY Shape DEF WokenAt, SoundLib, LibType
<1>4. Stays(p, point, m)
  <2>1. p = PM => (point \in Managing \ {"readline", "cleanup"} => m.kid # NoPid)
    BY <1>1 DEF Order, Discipline, OneManager, Managing, ManagerPoints
  <2> QED
    BY <1>1, <2>1 DEF Stays, Gone, Managing, ManagerPoints, ChildPoints, Asking
<1>5. OpenAt(point, l)
  <2>1. CASE point = pc[p]
    BY <1>2, <1>3, <2>1 DEF OpenAt
  <2>2. CASE pc[p] \in {"asleep", "waitpid"}
    <3>1. lib[p].at = "ret"
      BY <1>2, <1>3, <2>2 DEF OpenAt, CallPoints, Sending, Answering, Receiving
    <3> QED
      BY <1>3, <3>1 DEF OpenAt
  <2> QED
    BY <1>1, <2>1, <2>2
<1>6. Reaches(point, l)
  BY <1>1, <1>2, <1>3 DEF Reaches
<1>7. BusyAt(point, l, m) => Busy(p)
  BY <1>1, <1>3 DEF BusyAt, Busy, Receiving, Sending
<1>8. pc[p] \in Terminating <=> point \in Terminating
  BY <1>1 DEF Terminating
<1> QED
  BY <1>4, <1>5, <1>6, <1>7, <1>8 DEF Legal

\* The handler of SIGUSR1 sets the flag.
LEMMA Usr1Turn ==
  ASSUME CalmInv, NEW p \in Pid, set_unread_flag(p)
  PROVE  Turn' /\ Order'
<1> USE DEF CalmInv
<1>1. /\ pc[p] \notin Gone /\ sig[p].usr1 # NoPid
      /\ sig' = [sig EXCEPT ![p].usr1 = NoPid]
      /\ UNCHANGED <<mem, parent, nextPid, fifo>>
  BY DEF set_unread_flag, Alive
<1>2. /\ pc \in [Pid -> Points] /\ lib \in [Pid -> SoundLib] /\ mem \in [Pid -> SoundMem]
      /\ sig \in [Pid -> SignalType] /\ PM \in Pid /\ lib[p] \in LibType
  BY Shape DEF SoundLib
<1> DEFINE l == [lib[p] EXCEPT !.unread_flag = TRUE, !.message_sender = sig[p].usr1,
                               !.at = WokenAt(@)]
<1>3. lib' = [lib EXCEPT ![p] = l]
  BY <1>2 DEF set_unread_flag
<1>4. PICK point \in AfterSignal(p) : pc' = [pc EXCEPT ![p] = point]
  BY DEF set_unread_flag
<1>5. l.at = WokenAt(lib[p].at) /\ l.pid = lib[p].pid /\ l.status = lib[p].status /\ l.unread_flag
  BY <1>2 DEF LibType
<1> HIDE DEF l
<1>6. HasTurn(p, "usr1") /\ {"usr1", "unread"} \subseteq Claims
  BY <1>1 DEF HasTurn, Claims
<1>7. Only(p, "usr1")
  BY <1>6, Holder DEF Turn
<1>8. ~Busy(p)
  BY <1>7 DEF Only
<1>9. /\ Legal(p, point, l, mem[p])
      /\ ~BusyAt(point, l, mem[p])
      /\ pc[p] \in Terminating <=> point \in Terminating
  BY <1>1, <1>5, <1>8, HandlerRuns
<1>10. Goto(p, point, l, mem[p])
  BY <1>1, <1>2, <1>3, <1>4 DEF Goto
<1>11. \A x \in Pid : /\ sig'[x].usr1 = IF x = p THEN NoPid ELSE sig[x].usr1
                      /\ sig'[x].term = sig[x].term
                      /\ sig'[x].int = sig[x].int
                      /\ x # p => sig'[x] = sig[x]
  BY <1>1, <1>2 DEF SignalType
<1>12. Discipline'
  <2>1. \A q \in Pid : ~sig'[q].int /\ (pc[q] \in Gone => sig'[q] = sig[q])
    BY <1>1, <1>11 DEF Order, Discipline, NoInterrupt
  <2> QED
    BY <1>1, <1>9, <1>10, <2>1, GotoDiscipline DEF Order
<1>13. TextThere'
  <2>1. fifo # <<>>
    BY <1>1 DEF Order, TextThere, Announcing
  <2> QED
    BY <1>1, <2>1 DEF TextThere
<1>14. point \notin Gone
  BY <1>9 DEF Legal, Stays
<1>15. Only(p, "unread")'
  <2>1. ASSUME NEW x \in Pid
        PROVE  /\ sig'[x].usr1 = NoPid
               /\ lib'[x].unread_flag => x = p
               /\ sig'[x].term = NoPid
               /\ ~(mem'[x].sigterm_flag = 1 /\ pc'[x] \notin Terminating)
               /\ ~Busy(x)'
    <3>1. sig'[x].usr1 = NoPid /\ sig'[x].term = NoPid
      BY <1>7, <1>11, <2>1 DEF Only
    <3>2. lib'[x].unread_flag => x = p
      BY <1>2, <1>3, <1>7, <2>1 DEF Only
    <3>3. ~(mem'[x].sigterm_flag = 1 /\ pc'[x] \notin Terminating)
      BY <1>1, <1>2, <1>4, <1>7, <1>9, <2>1 DEF Only
    <3>4. ~Busy(x)'
      BY <1>1, <1>2, <1>3, <1>4, <1>7, <1>9, <2>1 DEF Only, Busy
    <3> QED
      BY <3>1, <3>2, <3>3, <3>4
  <2>2. ~(mem'[PM].kid # NoPid /\ pc'[mem'[PM].kid] = "zombie")
    BY <1>1, <1>2, <1>4, <1>7, <1>14 DEF Only, Gone
  <2> QED
    BY <2>1, <2>2 DEF Only
<1>16. pc[PM] # "dead" => pc'[PM] # "dead"
  BY <1>2, <1>4, <1>14 DEF Gone
<1> QED
  BY <1>6, <1>12, <1>13, <1>15, <1>16, PassTurn DEF Turn, Order

\* The handler of SIGTERM sets its flag.
LEMMA TermTurn ==
  ASSUME CalmInv, NEW p \in Pid, sigterm_handler(p)
  PROVE  Turn' /\ Order'
<1> USE DEF CalmInv
<1>1. /\ pc[p] \in ChildPoints /\ pc[p] \notin Gone /\ sig[p].term # NoPid
      /\ sig' = [sig EXCEPT ![p].term = NoPid]
      /\ UNCHANGED <<parent, nextPid, fifo>>
  BY DEF sigterm_handler, ChildPoints, Gone
<1>2. /\ pc \in [Pid -> Points] /\ lib \in [Pid -> SoundLib] /\ mem \in [Pid -> SoundMem]
      /\ sig \in [Pid -> SignalType] /\ PM \in Pid /\ lib[p] \in LibType /\ mem[p] \in MemType
      /\ p # PM
  BY <1>1, Shape, Manager DEF SoundLib, SoundMem, Managing, ManagerPoints, ChildPoints
<1> DEFINE l == [lib[p] EXCEPT !.at = WokenAt(@)]
           m == [mem[p] EXCEPT !.sigterm_flag = 1, !.sigterm_sender = sig[p].term,
                               !.overwrote = mem[p].sigterm_flag = 1]
<1>3. lib' = [lib EXCEPT ![p] = l] /\ mem' = [mem EXCEPT ![p] = m]
  BY <1>2 DEF sigterm_handler
<1>4. PICK point \in AfterSignal(p) : pc' = [pc EXCEPT ![p] = point]
  BY DEF sigterm_handler
<1>5. /\ l.at = WokenAt(lib[p].at) /\ l.pid = lib[p].pid /\ l.status = lib[p].status
      /\ l.unread_flag = lib[p].unread_flag
      /\ m.kid = mem[p].kid /\ m.peer = mem[p].peer
  BY <1>2 DEF LibType, MemType
<1> HIDE DEF l, m
<1>6. HasTurn(p, "term") /\ {"term", "sigterm"} \subseteq Claims
  BY <1>1 DEF HasTurn, Claims
<1>7. Only(p, "term")
  BY <1>6, Holder DEF Turn
<1>8. ~Busy(p)
  BY <1>7 DEF Only
<1>9. /\ Legal(p, point, l, m)
      /\ ~BusyAt(point, l, m)
      /\ pc[p] \in Terminating <=> point \in Terminating
  BY <1>1, <1>5, <1>8, HandlerRuns
<1>10. Goto(p, point, l, m)
  BY <1>2, <1>3, <1>4 DEF Goto
<1>11. \A x \in Pid : /\ sig'[x].term = IF x = p THEN NoPid ELSE sig[x].term
                      /\ sig'[x].usr1 = sig[x].usr1
                      /\ sig'[x].int = sig[x].int
                      /\ x # p => sig'[x] = sig[x]
  BY <1>1, <1>2 DEF SignalType
<1>12. Discipline'
  <2>1. \A q \in Pid : ~sig'[q].int /\ (pc[q] \in Gone => sig'[q] = sig[q])
    BY <1>1, <1>11 DEF Order, Discipline, NoInterrupt
  <2> QED
    BY <1>1, <1>9, <1>10, <2>1, GotoDiscipline DEF Order
<1>13. TextThere'
  <2>1. l.at # "kill"
    BY <1>5, <1>8 DEF Busy, BusyAt, WokenAt
  <2>2. ~l.unread_flag
    BY <1>5, <1>7 DEF Only
  <2>3. \A x \in Pid : Announcing(x)' => Announcing(x)
    BY <1>2, <1>3, <1>11, <2>1, <2>2 DEF Announcing
  <2> QED
    BY <1>1, <2>3 DEF TextThere, Order
<1>14. point \notin Gone
  BY <1>9 DEF Legal, Stays
<1>15. Only(p, "sigterm")'
  <2>1. ASSUME NEW x \in Pid
        PROVE  /\ sig'[x].usr1 = NoPid
               /\ ~lib'[x].unread_flag
               /\ sig'[x].term = NoPid
               /\ mem'[x].sigterm_flag = 1 /\ pc'[x] \notin Terminating => x = p
               /\ ~Busy(x)'
    <3>1. sig'[x].usr1 = NoPid /\ sig'[x].term = NoPid
      BY <1>7, <1>11, <2>1 DEF Only
    <3>2. ~lib'[x].unread_flag
      BY <1>2, <1>3, <1>5, <1>7, <2>1 DEF Only
    <3>3. mem'[x].sigterm_flag = 1 /\ pc'[x] \notin Terminating => x = p
      BY <1>2, <1>3, <1>4, <1>7, <2>1 DEF Only
    <3>4. ~Busy(x)'
      BY <1>2, <1>3, <1>4, <1>7, <1>9, <2>1 DEF Only, Busy
    <3> QED
      BY <3>1, <3>2, <3>3, <3>4
  <2>2. ~(mem'[PM].kid # NoPid /\ pc'[mem'[PM].kid] = "zombie")
    BY <1>2, <1>3, <1>4, <1>7, <1>14 DEF Only, Gone
  <2> QED
    BY <2>1, <2>2 DEF Only
<1>16. pc[PM] # "dead" => pc'[PM] # "dead"
  BY <1>2, <1>4, <1>14 DEF Gone
<1> QED
  BY <1>6, <1>12, <1>13, <1>15, <1>16, PassTurn DEF Turn, Order

\* SIGTERM kills a process that has no handler yet; nobody waits for it.
LEMMA BootTurn ==
  ASSUME CalmInv, NEW p \in Pid, KilledAtBoot(p)
  PROVE  Turn' /\ Order'
<1> USE DEF CalmInv
<1>1. /\ pc[p] = "boot" /\ sig[p].term # NoPid
      /\ pc' = [pc EXCEPT ![p] = "killed"]
      /\ lib' = [lib EXCEPT ![p] = BlankLib]
      /\ mem' = [mem EXCEPT ![p] = BlankMem]
      /\ sig' = [sig EXCEPT ![p] = NoSignals]
      /\ UNCHANGED <<parent, nextPid, fifo>>
  BY DEF KilledAtBoot
<1>2. /\ pc \in [Pid -> Points] /\ lib \in [Pid -> SoundLib] /\ mem \in [Pid -> SoundMem]
      /\ sig \in [Pid -> SignalType] /\ PM \in Pid /\ p # PM
  BY <1>1, Shape, Manager DEF Managing, ManagerPoints
<1>3. /\ pc'[p] = "killed" /\ lib'[p] = BlankLib /\ mem'[p] = BlankMem /\ sig'[p] = NoSignals
      /\ \A x \in Pid \ {p} : /\ pc'[x] = pc[x] /\ lib'[x] = lib[x]
                              /\ mem'[x] = mem[x] /\ sig'[x] = sig[x]
  BY <1>1, <1>2
<1>4. HasTurn(p, "term") /\ "term" \in Claims
  BY <1>1 DEF HasTurn, Claims
<1>5. Only(p, "term")
  BY <1>4, Holder DEF Turn
<1>6. Only(NoPid, "none")'
  <2>1. ASSUME NEW x \in Pid
        PROVE  /\ sig'[x].usr1 = NoPid
               /\ ~lib'[x].unread_flag
               /\ sig'[x].term = NoPid
               /\ ~(mem'[x].sigterm_flag = 1 /\ pc'[x] \notin Terminating)
               /\ ~Busy(x)'
    <3>1. CASE x = p
      <4>1. /\ sig'[x].usr1 = NoPid /\ sig'[x].term = NoPid /\ ~lib'[x].unread_flag
            /\ mem'[x].sigterm_flag = 0 /\ lib'[x].at = "ret" /\ pc'[x] = "killed"
        BY <1>3, <3>1 DEF NoSignals, BlankLib, BlankMem
      <4> QED
        BY <4>1 DEF Busy, BusyAt, Receiving, Sending
    <3>2. CASE x # p
      BY <1>3, <1>5, <2>1, <3>2 DEF Only, Busy
    <3> QED
      BY <3>1, <3>2
  <2>2. ~(mem'[PM].kid # NoPid /\ pc'[mem'[PM].kid] = "zombie")
    BY <1>2, <1>1, <1>3, <1>5 DEF Only
  <2> QED
    BY <2>1, <2>2 DEF Only
<1>7. CallsOpen'
  <2>1. ASSUME NEW x \in Pid
        PROVE  /\ OpenAt(pc'[x], lib'[x])
               /\ pc'[x] \in Gone => lib'[x] = BlankLib /\ sig'[x] = NoSignals
                                     /\ mem'[x].sigterm_flag = 0
    <3>1. CASE x = p
      <4>1. lib'[x].at = "ret" /\ mem'[x].sigterm_flag = 0
        BY <1>3, <3>1 DEF BlankLib, BlankMem
      <4> QED
        BY <1>3, <3>1, <4>1 DEF OpenAt
    <3>2. CASE x # p
      BY <1>3, <2>1, <3>2 DEF Order, Discipline, CallsOpen
    <3> QED
      BY <3>1, <3>2
  <2> QED
    BY <2>1 DEF CallsOpen
<1>8. ManagerReached'
  BY <1>3 DEF Order, Discipline, ManagerReached, Reaches
<1>9. OneManager'
  BY <1>1, <1>2, <1>3 DEF Order, Discipline, OneManager, Managing, ManagerPoints
<1>10. Relatives'
  <2>1. ASSUME NEW x \in Pid, NEW q \in Pid, parent[x] = q
        PROVE  /\ pc'[q] \notin {"exec", "start", "unborn"}
               /\ pc'[q] = "popen" =>
                    pc'[x] \in {"start", "info_asked", "info_reply", "exit"} \union Gone
               /\ pc'[q] = "popen" /\ pc'[x] = "start" => mem'[x].prog = "pinfo"
    BY <1>3, <2>1 DEF Order, Discipline, Relatives, Gone
  <2>2. mem'[PM].kid # NoPid =>
          /\ parent[mem'[PM].kid] = PM
          /\ pc'[mem'[PM].kid] \notin ChildPoints \union {"boot", "unborn"}
    BY <1>1, <1>2, <1>3 DEF Order, Discipline, Relatives, ChildPoints
  <2> QED
    BY <1>1, <2>1, <2>2 DEF Relatives
<1>11. NoInterrupt' /\ TextThere'
  <2>1. ASSUME NEW x \in Pid PROVE ~sig'[x].int /\ (Announcing(x)' => Announcing(x))
    BY <1>3, <2>1 DEF Order, Discipline, NoInterrupt, Announcing, NoSignals, BlankLib
  <2> QED
    BY <1>1, <2>1 DEF NoInterrupt, TextThere, Order
<1> QED
  BY <1>6, <1>7, <1>8, <1>9, <1>10, <1>11, NoTurn DEF Order, Discipline

\* The handler of SIGCHLD reaps a clone and leaves the turn alone.
LEMMA ChldTurn ==
  ASSUME CalmInv, NEW p \in Pid, remove_zombie(p)
  PROVE  Turn' /\ Order'
<1> USE DEF CalmInv
<1>1. /\ pc[p] \in ChildPoints /\ pc[p] \notin Gone
      /\ sig' = [sig EXCEPT ![p].chld = FALSE]
      /\ UNCHANGED <<mem, parent, nextPid, fifo>>
  BY DEF remove_zombie, ChildPoints, Gone
<1>2. /\ pc \in [Pid -> Points] /\ lib \in [Pid -> SoundLib] /\ mem \in [Pid -> SoundMem]
      /\ sig \in [Pid -> SignalType] /\ PM \in Pid /\ lib[p] \in LibType
      /\ p # PM /\ pc[PM] # "zombie"
  BY <1>1, Shape, Manager DEF SoundLib, Managing, ManagerPoints, ChildPoints
<1> DEFINE l == [lib[p] EXCEPT !.at = WokenAt(@)]
<1>3. lib' = [lib EXCEPT ![p] = l]
  BY <1>2 DEF remove_zombie
<1>4. PICK q \in Zombies(p), point \in AfterSignal(p) :
        pc' = [pc EXCEPT ![q] = "dead", ![p] = point]
  BY DEF remove_zombie
<1>5. /\ l.at = WokenAt(lib[p].at) /\ l.pid = lib[p].pid /\ l.status = lib[p].status
      /\ l.unread_flag = lib[p].unread_flag
  BY <1>2 DEF LibType
<1> HIDE DEF l
<1>6. q \in Pid /\ q # p /\ q # PM /\ pc[q] = "zombie"
  BY <1>1, <1>2 DEF Zombies, Gone
<1>7. /\ Legal(p, point, l, mem[p])
      /\ BusyAt(point, l, mem[p]) => Busy(p)
      /\ pc[p] \in Terminating <=> point \in Terminating
  BY <1>1, <1>5, HandlerRuns
<1>8. /\ Stays(p, point, mem[p]) /\ OpenAt(point, l) /\ Reaches(point, l) /\ point \notin Gone
      /\ point \in ChildPoints
  <2>1. point \in ChildPoints
    BY <1>1, HandlerPoint DEF ChildPoints
  <2> QED
    BY <1>7, <2>1 DEF Legal, Stays
<1>9. \A x \in Pid : /\ sig'[x].usr1 = sig[x].usr1
                     /\ sig'[x].term = sig[x].term
                     /\ sig'[x].int = sig[x].int
                     /\ x # p => sig'[x] = sig[x]
  BY <1>1, <1>2 DEF SignalType
<1>10. /\ pc'[p] = point /\ lib'[p] = l /\ pc'[q] = "dead" /\ lib'[q] = lib[q]
       /\ \A x \in Pid \ {p, q} : pc'[x] = pc[x] /\ lib'[x] = lib[x]
       /\ mem' = mem
  BY <1>1, <1>2, <1>3, <1>4, <1>6
<1>11. lib[q] = BlankLib /\ sig[q] = NoSignals /\ mem[q].sigterm_flag = 0
  BY <1>6 DEF Order, Discipline, CallsOpen, Gone
<1>12. NoNewTurn
  <2>1. ASSUME NEW x \in Pid
        PROVE  /\ lib'[x].unread_flag => lib[x].unread_flag
               /\ mem'[x].sigterm_flag = 1 /\ pc'[x] \notin Terminating =>
                    mem[x].sigterm_flag = 1 /\ pc[x] \notin Terminating
               /\ Busy(x)' => Busy(x)
    <3>1. CASE x = p
      BY <1>5, <1>7, <1>10, <3>1 DEF Busy
    <3>2. CASE x = q
      <4>1. lib'[x].at = "ret" /\ pc'[x] = "dead" /\ ~lib'[x].unread_flag
        BY <1>10, <1>11, <3>2 DEF BlankLib
      <4> QED
        BY <1>10, <1>11, <3>2, <4>1 DEF Busy, BusyAt, Receiving, Sending
    <3>3. CASE x \notin {p, q}
      BY <1>10, <2>1, <3>3 DEF Busy
    <3> QED
      BY <3>1, <3>2, <3>3
  <2>2. mem'[PM].kid # NoPid /\ pc'[mem'[PM].kid] = "zombie" =>
          mem[PM].kid # NoPid /\ pc[mem[PM].kid] = "zombie"
    <3>1. SUFFICES ASSUME mem[PM].kid # NoPid, pc'[mem[PM].kid] = "zombie"
                   PROVE  pc[mem[PM].kid] = "zombie"
      BY <1>10
    <3>2. PICK k \in Pid : k = mem[PM].kid
      BY <1>2, <3>1 DEF SoundMem, MemType
    <3> QED
      BY <1>8, <1>10, <3>1, <3>2 DEF Gone
  <2> QED
    BY <1>9, <2>1, <2>2 DEF NoNewTurn
<1>13. Turn'
  BY <1>2, <1>6, <1>10, <1>12, KeepTurn
<1>14. CallsOpen'
  <2>1. ASSUME NEW x \in Pid
        PROVE  /\ OpenAt(pc'[x], lib'[x])
               /\ pc'[x] \in Gone => lib'[x] = BlankLib /\ sig'[x] = NoSignals
                                     /\ mem'[x].sigterm_flag = 0
    <3>1. CASE x = p
      BY <1>8, <1>10, <3>1
    <3>2. CASE x = q
      <4>1. lib'[x].at = "ret"
        BY <1>10, <1>11, <3>2 DEF BlankLib
      <4> QED
        BY <1>6, <1>9, <1>10, <1>11, <3>2, <4>1 DEF OpenAt
    <3>3. CASE x \notin {p, q}
      BY <1>9, <1>10, <2>1, <3>3 DEF Order, Discipline, CallsOpen
    <3> QED
      BY <3>1, <3>2, <3>3
  <2> QED
    BY <2>1 DEF CallsOpen
<1>15. ManagerReached'
  <2>1. ASSUME NEW x \in Pid PROVE Reaches(pc'[x], lib'[x])
    <3>1. CASE x = q
      BY <1>10, <3>1 DEF Reaches
    <3>2. CASE x # q
      BY <1>8, <1>10, <2>1, <3>2 DEF Order, Discipline, ManagerReached
    <3> QED
      BY <3>1, <3>2
  <2> QED
    BY <2>1 DEF ManagerReached
<1>16. OneManager'
  <2>1. pc'[PM] = pc[PM] /\ mem'[PM] = mem[PM]
    BY <1>2, <1>6, <1>10
  <2>2. \A x \in Pid \ {PM} : pc'[x] \notin Managing
    BY <1>1, <1>8, <1>10 DEF Order, Discipline, OneManager, Managing, ManagerPoints, ChildPoints
  <2>3. \A x \in Pid : x >= nextPid => pc'[x] = "unborn"
    BY <1>1, <1>6, <1>10 DEF Order, Discipline, OneManager, Gone
  <2> QED
    BY <1>1, <2>1, <2>2, <2>3 DEF Order, Discipline, OneManager
<1>17. Relatives'
  <2>1. ASSUME NEW x \in Pid, NEW y \in Pid, parent[x] = y
        PROVE  /\ pc'[y] \notin {"exec", "start", "unborn"}
               /\ pc'[y] = "popen" =>
                    pc'[x] \in {"start", "info_asked", "info_reply", "exit"} \union Gone
               /\ pc'[y] = "popen" /\ pc'[x] = "start" => mem'[x].prog = "pinfo"
    <3>1. /\ pc[y] \notin {"exec", "start", "unborn"}
          /\ pc[y] = "popen" => pc[x] \in {"start", "info_asked", "info_reply", "exit"} \union Gone
          /\ pc[y] = "popen" /\ pc[x] = "start" => mem[x].prog = "pinfo"
      BY <2>1 DEF Order, Discipline, Relatives
    <3>2. pc'[y] \in ChildPoints \union {"dead"} \/ pc'[y] = pc[y]
      BY <1>8, <1>10
    <3>3. pc[p] \notin {"start", "info_asked", "info_reply", "exit"} \union Gone
      BY <1>1 DEF ChildPoints, Gone
    <3> QED
      BY <1>10, <3>1, <3>2, <3>3 DEF ChildPoints, Gone
  <2>2. mem[PM].kid # NoPid =>
          /\ parent[mem[PM].kid] = PM
          /\ pc'[mem[PM].kid] \notin ChildPoints \union {"boot", "unborn"}
    <3>1. SUFFICES ASSUME mem[PM].kid # NoPid
                   PROVE  /\ parent[mem[PM].kid] = PM
                          /\ pc'[mem[PM].kid] \notin ChildPoints \union {"boot", "unborn"}
      OBVIOUS
    <3>2. PICK k \in Pid : k = mem[PM].kid
      BY <1>2, <3>1 DEF SoundMem, MemType
    <3>3. parent[k] = PM /\ pc[k] \notin ChildPoints \union {"boot", "unborn"}
      BY <3>1, <3>2 DEF Order, Discipline, Relatives
    <3>4. k # p
      BY <1>1, <3>3
    <3> QED
      BY <1>10, <3>2, <3>3, <3>4 DEF ChildPoints
  <2> QED
    BY <1>1, <1>10, <2>1, <2>2 DEF Relatives
<1>18. NoInterrupt' /\ TextThere'
  <2>1. ASSUME NEW x \in Pid PROVE ~sig'[x].int /\ (Announcing(x)' => Announcing(x))
    <3>1. ~sig'[x].int
      BY <1>9, <2>1 DEF Order, Discipline, NoInterrupt
    <3>2. Announcing(x)' => Announcing(x)
      BY <1>5, <1>9, <1>10, <2>1 DEF Announcing, WokenAt
    <3> QED
      BY <3>1, <3>2
  <2> QED
    BY <1>1, <2>1 DEF NoInterrupt, TextThere, Order
<1> QED
  BY <1>13, <1>14, <1>15, <1>16, <1>17, <1>18 DEF Order, Discipline

\* pmanager is told to end: it runs cleanup(), or ends at once.
LEMMA EndTurn ==
  ASSUME CalmInv, NEW p \in Pid, terminate(p)
  PROVE  Turn' /\ Order'
<1> USE DEF CalmInv
<1>1. ~sig[p].int /\ pc[p] \in ManagerPoints
  BY DEF Order, Discipline, NoInterrupt, terminate
<1>2. sig[p].term # NoPid
  BY <1>1 DEF terminate, Deliverable
<1>3. HasTurn(p, "term") /\ {"term", "busy"} \subseteq Claims
  BY <1>2 DEF HasTurn, Claims
<1>4. Only(p, "term")
  BY <1>3, Holder DEF Turn
<1>5. /\ pc \in [Pid -> Points] /\ lib \in [Pid -> SoundLib] /\ mem \in [Pid -> SoundMem]
      /\ sig \in [Pid -> SignalType] /\ PM \in Pid
  BY Shape
<1>6. p = PM /\ pc[PM] \notin Gone
  <2>1. pc[p] # "exec"
    <3>1. ASSUME pc[p] = "exec" PROVE lib[p].at = "ret"
      <4>1. lib[p].at \in CallPoints
        BY <1>5 DEF SoundLib, LibType
      <4> QED
        BY <3>1, <4>1
        DEF Order, Discipline, CallsOpen, OpenAt, CallPoints, Sending, Answering, Receiving
    <3>2. ~Busy(p)
      BY <1>4 DEF Only
    <3> QED
      BY <3>1, <3>2, Runnable
  <2>2. pc[p] \in Managing
    BY <1>1, <2>1 DEF Managing
  <2> QED
    BY <1>1, <2>2, Manager DEF ManagerPoints, Gone
<1>7. lib[PM] \in LibType /\ mem[PM] \in MemType
  BY <1>5 DEF SoundLib, SoundMem
<1>8. CASE Exit(p) /\ UNCHANGED fifo
  BY <1>3, <1>4, <1>6, <1>8, ManagerEnds DEF Exit
<1>9. ASSUME NEW s,
             /\ sig' = [sig EXCEPT ![p].term = NoPid]
             /\ Goto(p, "cleanup",
                  [lib[p] EXCEPT !.at = "ret", !.pid = NoPid, !.text = <<>>, !.msg = NULL],
                  [ExitingManager(p) EXCEPT !.masked = @ \union {s}])
             /\ UNCHANGED <<parent, nextPid, fifo>>
      PROVE  Turn' /\ Order'
  <2> DEFINE l == [lib[PM] EXCEPT !.at = "ret", !.pid = NoPid, !.text = <<>>, !.msg = NULL]
             m == [ExitingManager(PM) EXCEPT !.masked = @ \union {s}]
  <2>1. /\ l.at = "ret" /\ l.unread_flag = lib[PM].unread_flag
        /\ m.sigterm_flag = 0 /\ m.kid = NoPid
    BY <1>7 DEF LibType, ExitingManager, NewCommand, BlankMem
  <2>2. Goto(PM, "cleanup", l, m)
    BY <1>6, <1>9
  <2> HIDE DEF l, m
  <2>3. Stays(PM, "cleanup", m)
    <3>1. pc[PM] \in Managing
      BY <1>6, Manager DEF Gone
    <3> QED
      BY <2>1, <3>1 DEF Stays, Managing, ManagerPoints, ChildPoints, Gone, Asking
  <2>4. Legal(PM, "cleanup", l, m)
    BY <2>1, <2>3 DEF Legal, OpenAt, Reaches
  <2>5. \A x \in Pid : /\ sig'[x].term = IF x = PM THEN NoPid ELSE sig[x].term
                       /\ sig'[x].usr1 = sig[x].usr1
                       /\ sig'[x].int = sig[x].int
                       /\ x # PM => sig'[x] = sig[x]
    BY <1>5, <1>6, <1>9 DEF SignalType
  <2>6. Discipline'
    <3>1. \A q \in Pid : ~sig'[q].int /\ (pc[q] \in Gone => sig'[q] = sig[q])
      BY <1>6, <2>5 DEF Order, Discipline, NoInterrupt
    <3> QED
      BY <1>5, <1>9, <2>2, <2>4, <3>1, GotoDiscipline DEF Order
  <2>7. /\ pc' = [pc EXCEPT ![PM] = "cleanup"]
        /\ lib' = [lib EXCEPT ![PM] = l]
        /\ mem' = [mem EXCEPT ![PM] = m]
    BY <2>2 DEF Goto
  <2>8. TextThere'
    <3>1. \A x \in Pid : Announcing(x)' => Announcing(x)
      BY <1>4, <1>5, <2>1, <2>5, <2>7 DEF Announcing, Only
    <3> QED
      BY <1>9, <3>1 DEF TextThere, Order
  <2>9. Only(PM, "busy")'
    <3>1. ASSUME NEW x \in Pid
          PROVE  /\ sig'[x].usr1 = NoPid
                 /\ ~lib'[x].unread_flag
                 /\ sig'[x].term = NoPid
                 /\ ~(mem'[x].sigterm_flag = 1 /\ pc'[x] \notin Terminating)
                 /\ Busy(x)' => x = PM
      <4>1. sig'[x].usr1 = NoPid /\ sig'[x].term = NoPid
        BY <1>4, <1>6, <2>5, <3>1 DEF Only
      <4>2. ~lib'[x].unread_flag
        BY <1>4, <1>5, <2>1, <2>7, <3>1 DEF Only
      <4>3. mem'[x].sigterm_flag # 1 \/ pc'[x] \in Terminating
        <5>1. CASE x = PM
          BY <1>5, <2>1, <2>7, <5>1
        <5>2. CASE x # PM
          BY <1>4, <1>5, <1>6, <2>7, <3>1, <5>2 DEF Only
        <5> QED
          BY <5>1, <5>2
      <4>4. Busy(x)' => x = PM
        BY <1>4, <1>5, <2>7, <3>1 DEF Only, Busy
      <4> QED
        BY <4>1, <4>2, <4>3, <4>4
    <3>2. ~(mem'[PM].kid # NoPid /\ pc'[mem'[PM].kid] = "zombie")
      BY <1>4, <1>5, <1>6, <2>1, <2>7 DEF Only
    <3> QED
      BY <3>1, <3>2 DEF Only
  <2>10. pc'[PM] # "dead"
    BY <1>5, <2>7
  <2> QED
    BY <1>3, <1>5, <1>6, <2>6, <2>8, <2>9, <2>10, PassTurn DEF Turn, Order
<1>10. PICK s \in Deliverable(p) :
         \/ /\ sig' = IF s = "int" THEN [sig EXCEPT ![p].int = FALSE] ELSE [sig EXCEPT ![p].term = NoPid]
            /\ Goto(p, "cleanup",
                  [lib[p] EXCEPT !.at = "ret", !.pid = NoPid, !.text = <<>>, !.msg = NULL],
                  [ExitingManager(p) EXCEPT !.masked = @ \union {s}])
            /\ UNCHANGED <<parent, nextPid>>
         \/ Exit(p)
  BY DEF terminate
<1>11. s # "int"
  BY <1>1 DEF Deliverable
<1> QED
  BY <1>8, <1>9, <1>10, <1>11 DEF terminate

LEMMA SignalTurn ==
  ASSUME CalmInv, NEW p \in Pid, SignalStep(p)
  PROVE  Turn' /\ Order'
<1>1. ~DieOfInterrupt(p)
  BY DEF CalmInv, Order, Discipline, NoInterrupt, DieOfInterrupt, Dying, Interrupted
<1> QED
  BY <1>1, Usr1Turn, TermTurn, BootTurn, ChldTurn, EndTurn DEF SignalStep, ChildSignal

-----------------------------------------------------------------------------
(***************************************************************************)
(* The theorems.                                                           *)
(***************************************************************************)
LEMMA InitCalm == Init => CalmInv
<1> SUFFICES ASSUME Init PROVE Turn /\ Order
  BY InitTyped DEF CalmInv
<1> USE PidFacts
<1>1. \A p \in Pid : /\ pc[p] = IF p = PM THEN "readline" ELSE "unborn"
                     /\ lib[p] = BlankLib /\ sig[p] = NoSignals /\ parent[p] = InitPid
                     /\ mem[p].sigterm_flag = 0 /\ mem[PM].kid = NoPid
  BY DEF Init, NewCommand, BlankMem
<1>2. Only(PM, "busy")
  BY <1>1 DEF Only, Busy, BusyAt, BlankLib, NoSignals, Receiving, Sending
<1>3. \A x \in Pid, k \in Claims : HasTurn(x, k) => x = PM /\ k = "busy"
  BY <1>2 DEF Only, Claims, HasTurn
<1>4. Turn
  BY <1>1, <1>3 DEF Turn, OneTurn, TurnWithShell
<1>5. CallsOpen /\ ManagerReached
  <2>1. \A p \in Pid : lib[p].at = "ret" /\ pc[p] \in {"readline", "unborn"}
    BY <1>1 DEF BlankLib
  <2> QED
    BY <1>1, <2>1 DEF CallsOpen, OpenAt, ManagerReached, Reaches
<1>6. OneManager
  BY <1>1 DEF Init, OneManager, Managing, ManagerPoints, PM, InitPid
<1>7. Relatives
  BY <1>1 DEF Relatives, InitPid, Pid
<1>8. NoInterrupt /\ TextThere
  BY <1>1 DEF NoInterrupt, TextThere, Announcing, BlankLib, NoSignals
<1> QED
  BY <1>4, <1>5, <1>6, <1>7, <1>8 DEF Order, Discipline

LEMMA StepCalm == CalmInv /\ [Next /\ ~Incident]_vars => CalmInv'
<1> SUFFICES ASSUME CalmInv, [Next /\ ~Incident]_vars PROVE Turn' /\ Order'
  BY StepTyped DEF CalmInv
<1> USE DEF CalmInv
<1>1. CASE UNCHANGED vars
  BY <1>1, SameTurn DEF vars
<1>2. CASE Next /\ ~Incident
  <2>1. \A p \in Pid : ~CloneRefused(p) /\ ~CopyCleansUp(p)
    BY <1>2 DEF Incident
  <2>2. CASE UserStep
    BY <2>2, UserTurn DEF UserStep
  <2>3. ASSUME NEW p \in Pid, ProcessStep(p)
        PROVE  Turn' /\ Order'
    BY <2>1, <2>3, MessageTurn, ChildTurn, CommandTurn, ManagerTurn DEF ProcessStep
  <2>4. ASSUME NEW p \in Pid, SignalStep(p)
        PROVE  Turn' /\ Order'
    BY <2>4, SignalTurn
  <2> QED
    BY <1>2, <2>2, <2>3, <2>4 DEF Next, Incident
<1> QED
  BY <1>1, <1>2

LEMMA CalmInvHolds == CalmSpec => []CalmInv
  BY InitCalm, StepCalm, PTL DEF CalmSpec

\* Nobody ever has something to do while another process has: the calls of the
\* programs hand a single turn around, from message_send() to the one who waits in
\* message_wait(), from exit() to the one who waits in waitpid() or popen().
THEOREM TakesTurns == CalmSpec => []TurnInv
<1>1. CalmInv => TurnInv
  BY DEF CalmInv, Turn, Order, Discipline, TurnInv
<1> QED
  BY <1>1, CalmInvHolds, PTL

\* message_read() takes a character per read(): as long as no incident has happened
\* two processes never read the FIFO at the same time, whatever is typed and
\* however many processes there are.
THEOREM OneReader == CalmSpec => []SingleReader
<1>1. CalmInv => SingleReader
  <2> SUFFICES ASSUME CalmInv, NEW p \in Pid, NEW q \in Pid,
                      lib[p].at = "read", lib[q].at = "read"
               PROVE  p = q
    BY DEF SingleReader
  <2>1. lib[p].unread_flag /\ lib[q].unread_flag
    BY DEF CalmInv, Order, Discipline, CallsOpen, OpenAt
  <2>2. HasTurn(p, "unread") /\ HasTurn(q, "unread") /\ "unread" \in Claims
    BY <2>1 DEF HasTurn, Claims
  <2> QED
    BY <2>2 DEF CalmInv, Turn, OneTurn
<1> QED
  BY <1>1, CalmInvHolds, PTL

\* A process that reads finds a text: SIGUSR1 is never ahead of the FIFO.
THEOREM ReadsNoEmptyFifo == CalmSpec => [](\A p \in Pid : lib[p].at = "read" => fifo # <<>>)
<1>1. CalmInv => \A p \in Pid : lib[p].at = "read" => fifo # <<>>
  <2> SUFFICES ASSUME CalmInv, NEW p \in Pid, lib[p].at = "read"
               PROVE  fifo # <<>>
    OBVIOUS
  <2>1. lib[p].unread_flag
    BY DEF CalmInv, Order, Discipline, CallsOpen, OpenAt
  <2> QED
    BY <2>1 DEF CalmInv, Order, TextThere, Announcing
<1> QED
  BY <1>1, CalmInvHolds, PTL
=============================================================================
