---------------------------- MODULE EntryProofs ----------------------------
(***************************************************************************)
(* Proofs about the entries of pmanager's tree (module Entries).           *)
(***************************************************************************)
EXTENDS Entries, CallerProofs

Estate == House /\ Attendance /\ Service /\ EntryInv

\* The ways to speak with pmanager about a name or a node.
Speaking == Leaving \union Querying \union Looking \union Adding

\* Process x means what it meant.
Same(x) ==
  /\ pc'[x] \in Leaving <=> pc[x] \in Leaving
  /\ pc'[x] \in Looking <=> pc[x] \in Looking
  /\ pc'[x] \in {"pnew_asked", "pnew_reply"} <=> pc[x] \in {"pnew_asked", "pnew_reply"}
  /\ pc'[x] \in {"clone_asked", "clone_reply"} <=> pc[x] \in {"clone_asked", "clone_reply"}
  /\ pc'[x] \in {"pnew_sent", "pnew_added"} <=> pc[x] \in {"pnew_sent", "pnew_added"}
  /\ pc'[x] \in Cloning <=> pc[x] \in Cloning
  /\ pc[x] \in Speaking =>
       /\ mem'[x].name = mem[x].name /\ mem'[x].kid = mem[x].kid
       /\ mem'[x].clones_count = mem[x].clones_count

LEMMA SameMeaning ==
  ASSUME NEW x, Same(x), pc[x] \in Speaking
  PROVE  /\ pc'[x] \in Querying <=> pc[x] \in Querying
         /\ pc'[x] \in Adding <=> pc[x] \in Adding
         /\ mem'[x].name = mem[x].name /\ mem'[x].kid = mem[x].kid
         /\ Wanted(x)' = Wanted(x) /\ AddRequest(x)' = AddRequest(x)
<1>1. /\ pc'[x] \in Querying <=> pc[x] \in Querying
      /\ pc'[x] \in Adding <=> pc[x] \in Adding
      /\ pc'[x] \in CloneWork <=> pc[x] \in CloneWork
      /\ pc'[x] \in Cloning <=> pc[x] \in Cloning
  BY DEF Same, Querying, Adding, CloneWork
<1>2. /\ mem'[x].name = mem[x].name /\ mem'[x].kid = mem[x].kid
      /\ mem'[x].clones_count = mem[x].clones_count
  BY DEF Same
<1>3. Wanted(x)' = Wanted(x)
  BY <1>1, <1>2 DEF Wanted, NextName
<1> QED
  BY <1>1, <1>2, <1>3 DEF AddRequest

LEMMA SameSpeaking ==
  ASSUME NEW x, Same(x)
  PROVE  pc'[x] \in Speaking <=> pc[x] \in Speaking
BY DEF Same, Speaking, Querying, Adding

LEMMA RightStays ==
  ASSUME NEW to, NEW msg, Right(to, msg), tree' = tree, \A x \in Pid : Same(x)
  PROVE  Right(to, msg)'
<1>1. ASSUME to = PM, msg.sender \in Pid PROVE Request(msg.sender, msg)'
  <2>1. PICK x \in Pid : x = msg.sender
    BY <1>1
  <2>2. Request(x, msg) /\ Same(x)
    BY <1>1, <2>1 DEF Right
  <2>3. CASE pc[x] \in Speaking
    <3>1. /\ pc'[x] \in Querying <=> pc[x] \in Querying
          /\ pc'[x] \in Adding <=> pc[x] \in Adding
          /\ pc'[x] \in Leaving <=> pc[x] \in Leaving
          /\ pc'[x] \in Looking <=> pc[x] \in Looking
          /\ mem'[x].name = mem[x].name
          /\ Wanted(x)' = Wanted(x) /\ AddRequest(x)' = AddRequest(x)
      BY <2>2, <2>3, SameMeaning DEF Same
    <3>2. InTree(x)' = InTree(x)
      BY <3>1 DEF InTree
    <3> QED
      BY <2>1, <2>2, <3>1, <3>2 DEF Request
  <2>4. CASE pc[x] \notin Speaking
    <3>1. pc'[x] \notin Speaking
      BY <2>2, <2>4, SameSpeaking
    <3> QED
      BY <2>1, <2>2, <2>4, <3>1 DEF Request, Speaking
  <2> QED
    BY <2>3, <2>4
<1>2. ASSUME to \in Pid, msg.sender = PM PROVE Reply(to, msg)'
  <2>1. PICK x \in Pid : x = to
    BY <1>2
  <2>2. Reply(x, msg) /\ Same(x)
    BY <1>2, <2>1 DEF Right
  <2>3. CASE pc[x] \in Speaking
    <3>1. /\ pc'[x] \in Querying <=> pc[x] \in Querying
          /\ pc'[x] \in Adding <=> pc[x] \in Adding
          /\ pc'[x] \in Leaving <=> pc[x] \in Leaving
          /\ pc'[x] \in Looking <=> pc[x] \in Looking
          /\ pc'[x] \in Cloning <=> pc[x] \in Cloning
          /\ mem'[x].name = mem[x].name /\ mem'[x].kid = mem[x].kid
          /\ Wanted(x)' = Wanted(x)
      BY <2>2, <2>3, SameMeaning DEF Same
    <3>2. InTree(x)' = InTree(x)
      BY <3>1 DEF InTree
    <3> QED
      BY <2>1, <2>2, <3>1, <3>2 DEF Reply, Entered
  <2>4. CASE pc[x] \notin Speaking
    <3>1. pc'[x] \notin Speaking
      BY <2>2, <2>4, SameSpeaking
    <3> QED
      BY <2>1, <2>2, <2>4, <3>1 DEF Reply, Speaking
  <2> QED
    BY <2>3, <2>4
<1> QED
  BY <1>1, <1>2 DEF Right

LEMMA PostStays ==
  ASSUME PostRight, Post' \subseteq Post, tree' = tree, \A x \in Pid : Same(x)
  PROVE  PostRight'
<1> SUFFICES ASSUME NEW parcel \in Post', parcel.msg # NULL
             PROVE  Right(parcel.to, parcel.msg)'
  BY DEF PostRight
<1>1. Right(parcel.to, parcel.msg)
  BY DEF PostRight
<1> QED
  BY <1>1, RightStays

-----------------------------------------------------------------------------
(***************************************************************************)
(* What a step makes of the messages that matter.                          *)
(***************************************************************************)
\* No message that matters is in the hands of a process.
Mute(point, l) == Empty(point, l) /\ (l.at = "ret" => point \notin Hearing \/ l.msg = NULL)

\* The one message p writes is right.
NewRight(l) ==
  /\ l.at = "write"
  /\ \A parcel : parcel = Parcel(l.pid, MessageOf(l.text)) =>
       (parcel.msg # NULL => Right(parcel.to, parcel.msg)')

\* All messages that matter are p's.
AlonePost(p) == Alone(p) /\ \A x \in Pid \ {p} : Heard(x) = {}

\* The hands of x hold no other messages.
Holding(x) == Carried(x)' \subseteq Carried(x) /\ Heard(x)' \subseteq Heard(x)

LEMMA MuteHolds ==
  ASSUME NEW x, Mute(pc'[x], lib'[x])
  PROVE  Carried(x)' = {} /\ Heard(x)' = {}
<1>1. Heard(x)' = {}
  BY DEF Mute, Heard
<1>2. Carried(x)' = {}
  BY DEF Mute, Empty, Carried
<1> QED
  BY <1>1, <1>2

LEMMA PostShrinks ==
  ASSUME fifo' = fifo, \A x \in Pid : Holding(x)
  PROVE  Post' \subseteq Post
<1>1. OnItsWay' = OnItsWay
  BY DEF OnItsWay
<1> QED
  BY <1>1 DEF Post, Parcels, Holding

LEMMA AloneRight ==
  ASSUME NEW p \in Pid, AlonePost(p), fifo' = fifo, \A x \in Pid \ {p} : Holding(x),
         Mute(pc'[p], lib'[p]) \/ NewRight(lib'[p])
  PROVE  PostRight'
<1> SUFFICES ASSUME NEW parcel \in Post', parcel.msg # NULL
             PROVE  Right(parcel.to, parcel.msg)'
  BY DEF PostRight
<1>1. OnItsWay' = {}
  BY DEF AlonePost, Alone, OnItsWay
<1>2. \A x \in Pid \ {p} : Carried(x)' = {} /\ Heard(x)' = {}
  BY DEF AlonePost, Alone, Holding
<1>3. parcel \in Carried(p)' \union Heard(p)'
  BY <1>1, <1>2 DEF Post, Parcels
<1>4. NewRight(lib'[p])
  BY <1>3, MuteHolds
<1>5. parcel = Parcel(lib'[p].pid, MessageOf(lib'[p].text))
  BY <1>3, <1>4 DEF NewRight, Carried, Heard
<1> QED
  BY <1>4, <1>5 DEF NewRight

LEMMA BusyHears ==
  ASSUME NEW x \in Pid, ~Busy(x)
  PROVE  Heard(x) = {}
BY DEF Heard, Hearing, Busy, BusyAt, Receiving

LEMMA BusyAlonePost ==
  ASSUME CalmInv, TextInv, NEW p \in Pid, Busy(p), lib[p].at = "ret"
  PROVE  AlonePost(p)
<1>1. Alone(p) /\ Only(p, "busy")
  BY BusyIsAlone, BusyAlone DEF CalmInv
<1> QED
  BY <1>1, BusyHears DEF AlonePost, Only

-----------------------------------------------------------------------------
(***************************************************************************)
(* What a step makes of what the processes know.                           *)
(***************************************************************************)
\* What it may do to process x, for the others and for x.
Inherits(x) ==
  /\ KnowsAt(pc'[x], lib'[x], mem'[x])
  /\ pc'[x] = "popen" => pc[x] = "start" \/ (pc[x] = "popen" /\ mem'[x].name = mem[x].name)
  /\ pc'[x] \in Belonging => x = nextPid \/ (pc[x] \in Belonging /\ mem'[x].name = mem[x].name)
  /\ pc[x] \in Adding => Released(x) \/ (pc'[x] \in Adding /\ mem'[x].kid = mem[x].kid)
  /\ pc'[x] \in Asker => pc[x] \in Asker \union Family

Pursues(x) ==
  \/ Delegated(x)'
  \/ /\ parent'[x] \in {parent[x], InitPid}
     /\ pc'[x] \in {"start"} \union Looking =>
          /\ pc[x] \in {"exec", "start"} \union Looking
          /\ mem'[x].name = mem[x].name /\ (mem[x].peer = PM => mem'[x].peer = PM)

HoldsPid(x) ==
  \/ Current(x)'
  \/ pc'[x] = "popen" =>
       pc[x] = "popen" /\ mem'[x].name = mem[x].name /\ mem'[x].peer = mem[x].peer

KeepsKid(x) ==
  \/ Named(x)'
  \/ pc'[x] \in Adding =>
       pc[x] \in Adding /\ mem'[x].kid = mem[x].kid /\ Wanted(x)' = Wanted(x)

StaysListed(x) ==
  \/ Registered(x)'
  \/ pc'[x] \in Belonging \ {"term_done"} =>
       /\ pc[x] \in Belonging \ {"term_done"} /\ mem'[x].name = mem[x].name
       /\ pc[x] \in Leaving => pc'[x] \in Leaving \/ InTree(x)

Continues(x) == Inherits(x) /\ Pursues(x) /\ HoldsPid(x) /\ KeepsKid(x) /\ StaysListed(x)

\* And to what pmanager lists.
Tells ==
  pc'[PM] \in {"list_sent", "list_ack"} /\ mem'[PM].peer \in Pid =>
    pc[mem'[PM].peer] \notin Asker \union Family

LEMMA EntryStays ==
  ASSUME Estate, tree' = tree, nextPid' \in {nextPid, nextPid + 1}, PostRight', Tells,
         \A x \in Pid : Continues(x)
  PROVE  EntryInv'
<1>0. /\ Relatives /\ nextPid \in Nat /\ Pid \subseteq Nat /\ InitPid \notin Pid
      /\ EntryInv /\ \A x \in Pid : Inherits(x)
  BY NumberFacts DEF Estate, House, CalmInv, Order, Discipline, InitPid, Pid, Continues
<1>1. ListsOnly'
  BY <1>0 DEF ListsOnly, Tells, Inherits
<1>2. ASSUME NEW x \in Pid PROVE Delegated(x)'
  <2>1. CASE Delegated(x)'
    BY <2>1
  <2>2. CASE ~Delegated(x)'
    <3>1. /\ parent'[x] \in {parent[x], InitPid}
          /\ pc'[x] \in {"start"} \union Looking =>
               /\ pc[x] \in {"exec", "start"} \union Looking
               /\ mem'[x].name = mem[x].name /\ (mem[x].peer = PM => mem'[x].peer = PM)
      BY <2>2 DEF Continues, Pursues
    <3> SUFFICES ASSUME parent'[x] \in Pid, pc'[parent'[x]] = "popen", pc'[x] \in {"start"} \union Looking
                 PROVE  mem'[x].peer = PM /\ mem'[x].name = mem'[parent'[x]].name
      BY DEF Delegated
    <3>2. PICK q \in Pid : q = parent[x] /\ q = parent'[x]
      BY <1>0, <3>1
    <3>3. pc[q] # "start"
      BY <1>0, <3>2 DEF Relatives
    <3>4. pc[q] = "popen" /\ mem'[q].name = mem[q].name
      BY <1>0, <3>2, <3>3 DEF Inherits
    <3>5. pc[x] # "exec"
      BY <1>0, <3>2, <3>4 DEF Relatives, Gone
    <3>6. mem[x].peer = PM /\ mem[x].name = mem[q].name
      BY <1>0, <3>1, <3>2, <3>4, <3>5 DEF EntryInv, Delegated
    <3> QED
      BY <3>1, <3>2, <3>4, <3>6
  <2> QED
    BY <2>1, <2>2
<1>3. ASSUME NEW x \in Pid PROVE Current(x)'
  <2>1. Current(x) /\ HoldsPid(x)
    BY <1>0 DEF EntryInv, Continues
  <2> QED
    BY <2>1 DEF HoldsPid, Current, Entered
<1>4. ASSUME NEW x \in Pid PROVE Named(x)'
  <2>1. Named(x) /\ KeepsKid(x)
    BY <1>0 DEF EntryInv, Continues
  <2>2. ASSUME pc'[x] \in Adding, pc[x] \in Adding, mem'[x].kid = mem[x].kid, Wanted(x)' = Wanted(x)
        PROVE  Named(x)'
    <3>1. PICK kid \in Pid : kid = mem[x].kid /\ kid < nextPid
      BY <2>1, <2>2 DEF Named
    <3>2. kid < nextPid' /\ kid # nextPid
      BY <1>0, <3>1
    <3>3. pc'[kid] \in Belonging => pc[kid] \in Belonging /\ mem'[kid].name = mem[kid].name
      BY <1>0, <3>2 DEF Inherits
    <3>4. pc[kid] \in Belonging => mem[kid].name = Wanted(x)
      BY <2>1, <2>2, <3>1 DEF Named
    <3> QED
      BY <2>2, <3>1, <3>2, <3>3, <3>4 DEF Named
  <2> QED
    BY <2>1, <2>2 DEF KeepsKid, Named
<1>5. ASSUME NEW x \in Pid PROVE Registered(x)'
  <2>1. CASE Registered(x)'
    BY <2>1
  <2>2. CASE ~Registered(x)'
    <3>1. /\ pc'[x] \in Belonging \ {"term_done"}
          /\ pc[x] \in Belonging \ {"term_done"} /\ mem'[x].name = mem[x].name
          /\ pc[x] \in Leaving => pc'[x] \in Leaving \/ InTree(x)
      BY <2>2 DEF Continues, StaysListed, Registered
    <3>2. InTree(x)' <=> InTree(x)
      BY <3>1 DEF InTree
    <3>3. CASE InTree(x) \/ pc[x] \in Leaving
      BY <3>1, <3>2, <3>3 DEF Registered
    <3>4. CASE ~InTree(x) /\ pc[x] \notin Leaving
      <4>1. PICK q \in Pid : pc[q] \in Adding /\ mem[q].kid = x
        BY <1>0, <3>1, <3>4 DEF EntryInv, Registered
      <4>2. mem[x].name = Wanted(q)
        BY <1>0, <3>1, <4>1 DEF EntryInv, Named
      <4>3. ~Released(q)
        BY <3>4, <4>1, <4>2 DEF Released, InTree
      <4>4. pc'[q] \in Adding /\ mem'[q].kid = x
        BY <1>0, <4>1, <4>3 DEF Inherits
      <4> QED
        BY <4>1, <4>4 DEF Registered
    <3> QED
      BY <3>3, <3>4
  <2> QED
    BY <2>1, <2>2
<1>6. \A x \in Pid : KnowsAt(pc[x], lib[x], mem[x])'
  BY <1>0 DEF Inherits
<1> QED
  BY <1>1, <1>2, <1>3, <1>4, <1>5, <1>6 DEF EntryInv

-----------------------------------------------------------------------------
(***************************************************************************)
(* What may become of a process that is left alone, goes on, forks or      *)
(* exits.                                                                  *)
(***************************************************************************)
LEMMA IdleContinues ==
  ASSUME Estate, tree' = tree, NEW x \in Pid,
         pc'[x] = pc[x] \/ (pc[x] = "zombie" /\ pc'[x] = "dead"),
         lib'[x] = lib[x], mem'[x] = mem[x], parent'[x] \in {parent[x], InitPid}
  PROVE  Continues(x)
<1>1. EntryInv
  BY DEF Estate
<1>2. CASE pc'[x] = pc[x]
  <2>1. KnowsAt(pc'[x], lib'[x], mem'[x])
    BY <1>1, <1>2 DEF EntryInv
  <2>2. Wanted(x)' = Wanted(x)
    BY <1>2 DEF Wanted, NextName
  <2>3. Inherits(x)
    BY <1>2, <2>1 DEF Inherits
  <2>4. Pursues(x)
    BY <1>2 DEF Pursues
  <2>5. HoldsPid(x) /\ KeepsKid(x) /\ StaysListed(x)
    BY <1>2, <2>2 DEF HoldsPid, KeepsKid, StaysListed
  <2> QED
    BY <2>3, <2>4, <2>5 DEF Continues
<1>3. CASE pc[x] = "zombie" /\ pc'[x] = "dead"
  <2>1. KnowsAt(pc'[x], lib'[x], mem'[x])
    BY <1>3 DEF KnowsAt, HeedsAt, DeliveredAt, Hearing
  <2> QED
    BY <1>3, <2>1 DEF Continues, Inherits, Pursues, HoldsPid, KeepsKid, StaysListed, Belonging,
       ChildPoints, Adding, Cloning, Asker, Looking
<1> QED
  BY <1>2, <1>3

\* Going on at `point' with memory m, process p does not become another one, and
\* what is to be done about the process it has forked, or about itself, is done.
Goes(p, point, m) ==
  /\ point # "popen"
  /\ point \in Belonging => pc[p] \in Belonging \ {"term_done"} /\ m.name = mem[p].name
  /\ point \in {"start"} \union Looking =>
       /\ pc[p] \in {"exec", "start"} \union Looking
       /\ m.name = mem[p].name /\ (mem[p].peer = PM => m.peer = PM)
  /\ point \in Adding =>
       /\ pc[p] \in Adding /\ (point \in Cloning <=> pc[p] \in Cloning)
       /\ m.kid = mem[p].kid /\ m.name = mem[p].name /\ m.clones_count = mem[p].clones_count
  /\ pc[p] \in Adding => point \in Adding \/ Released(p)
  /\ pc[p] \in Leaving => point \in Leaving \union {"term_done"} \/ InTree(p)
  /\ point \in Asker => pc[p] \in Asker \union Family

TellsAt(point, m) ==
  point \in {"list_sent", "list_ack"} /\ m.peer \in Pid => pc[m.peer] \notin Asker \union Family

LEMMA GoesContinues ==
  ASSUME NEW p \in Pid, NEW point, NEW m, Goes(p, point, m), pc'[p] = point, mem'[p] = m,
         parent'[p] = parent[p], KnowsAt(point, lib'[p], m)
  PROVE  Continues(p)
<1>1. Inherits(p)
  BY DEF Goes, Inherits
<1>2. Pursues(p) /\ HoldsPid(p) /\ StaysListed(p)
  BY DEF Goes, Pursues, HoldsPid, StaysListed, Belonging
<1>3. KeepsKid(p)
  <2>1. ASSUME point \in Adding PROVE Wanted(p)' = Wanted(p)
    <3>1. pc'[p] \in CloneWork <=> pc[p] \in CloneWork
      BY <2>1 DEF Goes, CloneWork, Adding, Cloning
    <3> QED
      BY <2>1, <3>1 DEF Goes, Wanted, NextName
  <2> QED
    BY <2>1 DEF Goes, KeepsKid
<1> QED
  BY <1>1, <1>2, <1>3 DEF Continues

LEMMA SameHolds ==
  ASSUME NEW x, pc'[x] = pc[x] \/ (pc[x] = "zombie" /\ pc'[x] = "dead"), lib'[x] = lib[x]
  PROVE  Holding(x)
BY DEF Holding, Carried, Heard, Parcel, Reading, Hearing

LEMMA TellsStay ==
  ASSUME Estate, pc'[PM] = pc[PM] \/ pc'[PM] \notin {"list_sent", "list_ack"},
         mem'[PM].peer = mem[PM].peer \/ pc'[PM] \notin {"list_sent", "list_ack"}
  PROVE  Tells
BY DEF Tells, Estate, House, KinInv, ListSound, EntryInv, ListsOnly

LEMMA IdleIsSame ==
  ASSUME NEW x, pc'[x] = pc[x] \/ (pc[x] = "zombie" /\ pc'[x] = "dead"), mem'[x] = mem[x]
  PROVE  Same(x)
BY DEF Same, Leaving, Looking, Cloning, Speaking, Querying, Adding

LEMMA GotoEntry ==
  ASSUME Estate, NEW p \in Pid, NEW point, NEW l, NEW m, Goto(p, point, l, m),
         UNCHANGED <<parent, nextPid, fifo>>, tree' = tree,
         Goes(p, point, m), KnowsAt(point, l, m), p = PM => TellsAt(point, m),
         \/ AlonePost(p) /\ (Mute(point, l) \/ NewRight(l))
         \/ Mute(point, l) /\ Same(p)
  PROVE  EntryInv'
<1>1. /\ pc'[p] = point /\ lib'[p] = l /\ mem'[p] = m
      /\ \A x \in Pid \ {p} : pc'[x] = pc[x] /\ lib'[x] = lib[x] /\ mem'[x] = mem[x]
      /\ PM \in Pid
  BY Shape DEF Estate, House, CalmInv, Goto
<1>2. \A x \in Pid \ {p} : Continues(x) /\ Holding(x) /\ Same(x)
  BY <1>1, IdleContinues, SameHolds, IdleIsSame
<1>3. Continues(p)
  BY <1>1, GoesContinues
<1>4. Tells
  <2>1. CASE p = PM
    BY <1>1, <2>1 DEF Tells, TellsAt
  <2>2. CASE p # PM
    BY <1>1, <2>2, TellsStay
  <2> QED
    BY <2>1, <2>2
<1>5. PostRight'
  <2>1. CASE AlonePost(p) /\ (Mute(point, l) \/ NewRight(l))
    <3>1. Mute(pc'[p], lib'[p]) \/ NewRight(lib'[p])
      BY <1>1, <2>1
    <3> QED
      BY <1>2, <2>1, <3>1, AloneRight
  <2>2. CASE Mute(point, l) /\ Same(p)
    <3>1. Holding(p)
      BY <1>1, <2>2, MuteHolds DEF Holding
    <3>2. Post' \subseteq Post
      BY <1>2, <3>1, PostShrinks
    <3> QED
      BY <1>2, <2>2, <3>2, PostStays DEF Estate, EntryInv
  <2> QED
    BY <2>1, <2>2
<1> QED
  BY <1>2, <1>3, <1>4, <1>5, EntryStays

LEMMA ForkEntry ==
  ASSUME Estate, NEW p \in Pid, NEW point, NEW l, NEW m, NEW kidPoint, NEW kidLib, NEW kidMem,
         Fork(p, point, l, m, kidPoint, kidLib, kidMem), fifo' = fifo, tree' = tree,
         pc[p] \notin Gone \union Adding \union Leaving,
         point \notin {"start", "list_sent", "list_ack"} \union Looking,
         point = "popen" => pc[p] = "start" /\ m.peer = Pending,
         point \in Belonging => pc[p] \in Belonging \ {"term_done"} /\ m.name = mem[p].name,
         point \in Asker => pc[p] \in Asker \union Family,
         KnowsAt(point, l, m),
         kidPoint \in {"exec", "start", "boot", "loop"}, kidLib.at = "ret",
         kidPoint = "start" => kidMem.peer = PM /\ kidMem.name = m.name,
         kidPoint \in {"boot", "loop"} => point \in Adding,
         point \in Adding => m.kid = nextPid /\ kidMem.name = Wanted(p)',
         AlonePost(p), Mute(point, l) \/ NewRight(l)
  PROVE  EntryInv'
<1>0. PICK kid : kid = nextPid
  OBVIOUS
<1>1. /\ kid \in Pid /\ kid # p /\ kid # PM /\ pc[kid] = "unborn" /\ PM \in Pid
      /\ kid < nextPid' /\ nextPid' = nextPid + 1
      /\ pc'[p] = point /\ pc'[kid] = kidPoint
      /\ lib'[p] = l /\ lib'[kid] = kidLib
      /\ mem'[p] = m /\ mem'[kid] = kidMem
      /\ parent'[kid] = p
      /\ \A x \in Pid \ {kid} : parent'[x] = parent[x]
      /\ \A x \in Pid \ {p, kid} : pc'[x] = pc[x] /\ lib'[x] = lib[x] /\ mem'[x] = mem[x]
  BY <1>0, ForkFacts, Shape, NumberFacts DEF Estate, House, CalmInv
<1>2. \A x \in Pid \ {p, kid} : Continues(x) /\ Holding(x)
  BY <1>1, IdleContinues, SameHolds
<1>3. Holding(kid)
  <2>1. Mute(pc'[kid], lib'[kid])
    BY <1>1 DEF Mute, Empty, Reading, Hearing
  <2> QED
    BY <2>1, MuteHolds DEF Holding
<1>4. Continues(kid)
  <2>1. Inherits(kid)
    BY <1>0, <1>1 DEF Inherits, KnowsAt, HeedsAt, DeliveredAt, Hearing, Adding, Cloning, Asker, Family, Looking
  <2>2. Delegated(kid)'
    BY <1>1 DEF Delegated, Looking
  <2>3. HoldsPid(kid) /\ KeepsKid(kid)
    BY <1>1 DEF HoldsPid, KeepsKid, Adding, Cloning
  <2>4. Registered(kid)'
    BY <1>0, <1>1 DEF Registered, Belonging, ChildPoints
  <2> QED
    BY <2>1, <2>2, <2>3, <2>4 DEF Continues, Pursues, StaysListed
<1>5. Continues(p)
  <2>1. Inherits(p)
    BY <1>1 DEF Inherits
  <2>2. Pursues(p)
    BY <1>1 DEF Pursues
  <2>3. Current(p)'
    BY <1>1 DEF Current
  <2>4. Named(p)'
    BY <1>0, <1>1 DEF Named
  <2>5. StaysListed(p)
    BY <1>1 DEF StaysListed, Belonging
  <2> QED
    BY <2>1, <2>2, <2>3, <2>4, <2>5 DEF Continues, HoldsPid, KeepsKid
<1>6. Tells
  <2>1. pc'[PM] = pc[PM] \/ pc'[PM] \notin {"list_sent", "list_ack"}
    BY <1>1
  <2>2. mem'[PM].peer = mem[PM].peer \/ pc'[PM] \notin {"list_sent", "list_ack"}
    BY <1>1
  <2> QED
    BY <2>1, <2>2, TellsStay
<1>7. PostRight'
  <2>1. Mute(pc'[p], lib'[p]) \/ NewRight(lib'[p])
    BY <1>1
  <2> QED
    BY <1>2, <1>3, <2>1, AloneRight
<1> QED
  BY <1>1, <1>2, <1>4, <1>5, <1>6, <1>7, EntryStays

LEMMA ExitEntry ==
  ASSUME Estate, NEW p \in Pid, pc[p] \notin Gone \union (Belonging \ {"term_done"}) \union Adding,
         NEW output, ExitPrinting(p, output), fifo' = fifo, tree' = tree,
         \A x \in Pid :
           /\ x = parent[p] /\ pc[x] = "popen" /\ output \notin {Pending, EndOfFile} /\ CleanName(mem[x].name)
           => Entered(output, mem[x].name),
         AlonePost(p) \/ pc[p] \notin Speaking
  PROVE  EntryInv'
<1>1. /\ Ended(p, output) /\ PM \in Pid /\ mem \in [Pid -> SoundMem]
      /\ pc[PM] # "popen" /\ pc[p] \notin Leaving
  <2>1. pc[PM] # "popen"
    BY DEF Estate, House, CalmInv, Order, Discipline, OneManager, Managing, ManagerPoints
  <2> QED
    BY <2>1, ExitFacts, Shape DEF Estate, House, CalmInv, Leaving, Belonging, ChildPoints
<1>2. /\ pc'[p] \in {"zombie", "dead"} /\ lib'[p] = BlankLib /\ nextPid' = nextPid
      /\ \A x \in Pid \ {p} : /\ pc'[x] = pc[x] \/ (pc[x] = "zombie" /\ pc'[x] = "dead")
                              /\ lib'[x] = lib[x]
      /\ \A x \in Pid : parent'[x] \in {parent[x], InitPid}
  BY <1>1 DEF Ended
<1>3. \A x \in Pid \ {p} : Holding(x)
  BY <1>2, SameHolds
<1>4. Mute(pc'[p], lib'[p])
  BY <1>2 DEF Mute, Empty, Reading, Hearing, BlankLib
<1>5. ASSUME NEW x \in Pid \ {p} PROVE Continues(x) /\ Same(x)
  <2>1. CASE mem'[x] = mem[x]
    BY <1>2, <2>1, IdleContinues, IdleIsSame
  <2>2. CASE mem'[x] # mem[x]
    <3>1. x = parent[p] /\ pc[x] = "popen" /\ mem'[x] = [mem[x] EXCEPT !.peer = output]
      BY <1>1, <2>2 DEF Ended
    <3>2. pc'[x] = "popen" /\ mem[x] \in MemType
      BY <1>1, <1>2, <3>1 DEF SoundMem
    <3>3. mem'[x].name = mem[x].name /\ mem'[x].peer = output
      BY <3>1, <3>2 DEF MemType
    <3>4. Inherits(x)
      BY <3>1, <3>2, <3>3 DEF Inherits, KnowsAt, HeedsAt, DeliveredAt, Hearing, Belonging, ChildPoints,
         Adding, Cloning, Asker, Looking
    <3>5. Current(x)'
      BY <3>1, <3>3 DEF Current, Entered
    <3>6. Pursues(x) /\ KeepsKid(x) /\ StaysListed(x)
      BY <1>2, <3>2 DEF Pursues, KeepsKid, StaysListed, Looking, Adding, Cloning, Belonging, ChildPoints
    <3>7. Same(x)
      BY <3>1, <3>2 DEF Same, Speaking, Leaving, Looking, Querying, Adding, Cloning
    <3> QED
      BY <3>4, <3>5, <3>6, <3>7 DEF Continues, HoldsPid
  <2> QED
    BY <2>1, <2>2
<1>6. Continues(p)
  BY <1>2 DEF Continues, Inherits, Pursues, HoldsPid, KeepsKid, StaysListed, KnowsAt, HeedsAt, DeliveredAt,
     Hearing, Looking, Adding, Cloning, Belonging, ChildPoints, Asker
<1>7. Tells
  <2>1. CASE p = PM
    BY <1>2, <2>1 DEF Tells
  <2>2. CASE p # PM
    <3>1. mem'[PM] = mem[PM] /\ (pc'[PM] = pc[PM] \/ pc'[PM] = "dead")
      BY <1>1, <2>2 DEF Ended
    <3> QED
      BY <3>1, TellsStay
  <2> QED
    BY <2>1, <2>2
<1>8. PostRight'
  <2>1. CASE AlonePost(p)
    BY <1>3, <1>4, <2>1, AloneRight
  <2>2. CASE pc[p] \notin Speaking
    <3>1. Same(p)
      BY <1>2, <2>2 DEF Same, Speaking, Leaving, Looking, Querying, Adding, Cloning
    <3>2. Holding(p)
      BY <1>4, MuteHolds DEF Holding
    <3>3. Post' \subseteq Post
      BY <1>3, <3>2, PostShrinks
    <3> QED
      BY <1>5, <3>1, <3>3, PostStays DEF Estate, EntryInv
  <2> QED
    BY <2>1, <2>2
<1> QED
  BY <1>2, <1>5, <1>6, <1>7, <1>8, EntryStays

-----------------------------------------------------------------------------
(***************************************************************************)
(* What the programs write is right.                                       *)
(***************************************************************************)
LEMMA SendRight ==
  ASSUME TypeInv, NEW p \in Pid, NEW to, NEW type \in MsgType, NEW content \in Str,
         \A msg : /\ msg = MessageOf(MessageText(p, type, content))
                  /\ msg # NULL /\ msg.sender = p /\ msg.type = type
                  => /\ to = PM => Request(p, msg)'
                     /\ p = PM /\ to \in Pid => Reply(to, msg)'
  PROVE  NewRight(message_send(p, to, type, content))
<1>1. PICK text : text = MessageText(p, type, content)
  OBVIOUS
<1>2. PICK l : l = message_send(p, to, type, content)
  OBVIOUS
<1>3. l.at = "write" /\ l.pid = to /\ l.text = text
  BY <1>1, <1>2, SendCall
<1>4. PICK msg : msg = MessageOf(text)
  OBVIOUS
<1>5. msg # NULL => msg.sender = p /\ msg.type = type
  BY <1>1, <1>4, Arrives, PidFacts
<1>6. ASSUME msg # NULL PROVE Right(to, msg)'
  <2>1. (to = PM => Request(p, msg)') /\ (p = PM /\ to \in Pid => Reply(to, msg)')
    BY <1>1, <1>4, <1>5, <1>6
  <2>2. PICK s : s = msg.sender
    OBVIOUS
  <2>3. s = p
    BY <1>5, <1>6, <2>2
  <2> QED
    BY <2>1, <2>2, <2>3 DEF Right
<1>7. ASSUME NEW parcel, parcel = Parcel(to, msg), parcel.msg # NULL PROVE Right(parcel.to, parcel.msg)'
  <2>1. parcel.to = to /\ parcel.msg = msg
    BY <1>7 DEF Parcel
  <2> QED
    BY <1>6, <1>7, <2>1
<1> QED
  BY <1>2, <1>3, <1>4, <1>7 DEF NewRight

\* A message of one who has nothing to say about a name or a node.
LEMMA PlainRight ==
  ASSUME TypeInv, NEW p \in Pid \ {PM}, pc'[p] \notin Speaking, NEW to,
         NEW type \in MsgType \ {MSG_ADD, MSG_REMOVE}, NEW content \in Str
  PROVE  NewRight(message_send(p, to, type, content))
<1>1. ASSUME NEW msg, msg.type = type PROVE Request(p, msg)'
  BY <1>1 DEF Request, Speaking
<1> QED
  BY <1>1, SendRight

LEMMA ResumeRight ==
  ASSUME TypeInv, NEW p \in Pid \ {PM}, pc'[p] \notin Speaking, NEW to
  PROVE  NewRight(resume_process(p, to))
<1>1. MSG_SUCCESS \in MsgType \ {MSG_ADD, MSG_REMOVE} /\ <<Pad>> \in Str
  BY AtomAssumption, AtomFacts DEF MsgType
<1> QED
  BY <1>1, PlainRight DEF resume_process

\* p asks about a name.
LEMMA AskRight ==
  ASSUME TypeInv, NEW p \in Pid \ {PM}, pc'[p] \in Querying \union Looking, NEW to,
         NEW content \in Str, content = Wanted(p)'
  PROVE  NewRight(message_send(p, to, MSG_INFO, content))
<1>1. pc'[p] \notin Leaving \union Adding
  BY DEF Querying, Looking, Leaving, Adding, Cloning
<1>2. MSG_INFO \in MsgType /\ MSG_INFO \notin {MSG_ADD, MSG_REMOVE}
  BY AtomAssumption DEF MsgType
<1>3. ASSUME NEW msg, msg = MessageOf(MessageText(p, MSG_INFO, content)), msg # NULL, msg.type = MSG_INFO
      PROVE  Request(p, msg)'
  <2>1. msg = IF Len(tokenize(content, Colon)) = 1
              THEN [sender |-> p, type |-> MSG_INFO, content |-> tokenize(content, Colon)[1]]
              ELSE NULL
    BY <1>2, <1>3, Sent, PidFacts
  <2>2. msg.content = tokenize(content, Colon)[1]
    BY <1>3, <2>1
  <2>3. CleanName(content) => tokenize(content, Colon)[1] = content
    BY OneField DEF CleanName
  <2> QED
    BY <1>1, <1>2, <1>3, <2>2, <2>3 DEF Request
<1> QED
  BY <1>2, <1>3, SendRight

\* p asks for the process it has forked to be added.
LEMMA AddRight ==
  ASSUME TypeInv, NEW p \in Pid \ {PM}, pc'[p] \in Adding, NEW to, NEW kid \in Pid, kid = mem'[p].kid,
         NEW ppid \in Pid, ppid = IF pc'[p] \in Cloning THEN p ELSE PM,
         NEW name \in Str, name = Wanted(p)', CleanName(name) => name \notin NamesOf(tree')
  PROVE  NewRight(message_send(p, to, MSG_ADD, proc_node_tostr(kid, ppid, name)))
<1>1. PICK content : content = proc_node_tostr(kid, ppid, name)
  OBVIOUS
<1>2. content \in Str
  BY <1>1, PidFacts, AtomFacts, TextTypes
<1>3. pc'[p] \notin Leaving \union Querying \union Looking
  BY DEF Querying, Looking, Leaving, Adding, Cloning
<1>4. MSG_ADD \in MsgType /\ MSG_ADD # MSG_REMOVE
  BY AtomAssumption DEF MsgType
<1>5. AddRequest(p)' = MessageText(p, MSG_ADD, content)
  BY <1>1 DEF AddRequest
<1>6. ASSUME NEW msg, msg = MessageOf(MessageText(p, MSG_ADD, content)), msg.type = MSG_ADD
      PROVE  Request(p, msg)'
  <2>1. msg = MessageOf(AddRequest(p))'
    BY <1>5, <1>6
  <2> QED
    BY <1>3, <1>4, <1>6, <2>1 DEF Request
<1> QED
  BY <1>1, <1>2, <1>4, <1>6, SendRight

\* p asks for its removal.
LEMMA RemoveRight ==
  ASSUME TypeInv, NEW p \in Pid \ {PM}, pc'[p] \in Leaving, InTree(p)', NEW to
  PROVE  NewRight(message_send(p, to, MSG_REMOVE, <<Pad>>))
<1>1. pc'[p] \notin Adding \union Querying \union Looking
  BY DEF Querying, Looking, Leaving, Adding, Cloning
<1>2. MSG_REMOVE \in MsgType /\ MSG_ADD # MSG_REMOVE /\ <<Pad>> \in Str
  BY AtomAssumption, AtomFacts DEF MsgType
<1>3. ASSUME NEW msg, msg.type = MSG_REMOVE PROVE Request(p, msg)'
  BY <1>1, <1>2, <1>3 DEF Request
<1> QED
  BY <1>2, <1>3, SendRight

-----------------------------------------------------------------------------
(***************************************************************************)
(* The managed processes.                                                  *)
(***************************************************************************)
LEMMA MuteCalls ==
  ASSUME TypeInv, NEW p \in Pid
  PROVE  /\ \A from, point : Mute(point, message_wait(p, from))
         /\ \A point : Mute(point, message_read(p))
         /\ \A point : point \notin Reading => Mute(point, BlankLib)
         /\ lib[p].at = "ret" =>
              \A point : point \notin Reading =>
                /\ Mute(point, [lib[p] EXCEPT !.msg = NULL])
                /\ point \notin Hearing => Mute(point, lib[p])
<1>1. lib[p] \in LibType
  BY Shape DEF SoundLib
<1>2. \A from, point : Mute(point, message_wait(p, from))
  BY <1>1 DEF message_wait, Mute, Empty, LibType
<1>3. \A point : Mute(point, message_read(p))
  BY <1>1 DEF message_read, Mute, Empty, LibType
<1>4. \A point : point \notin Reading => Mute(point, BlankLib)
  BY DEF BlankLib, Mute, Empty
<1>5. ASSUME lib[p].at = "ret", NEW point, point \notin Reading
      PROVE  /\ Mute(point, [lib[p] EXCEPT !.msg = NULL])
             /\ point \notin Hearing => Mute(point, lib[p])
  BY <1>1, <1>5 DEF Mute, Empty, LibType
<1> QED
  BY <1>2, <1>3, <1>4, <1>5

LEMMA Unheeded ==
  ASSUME NEW point, point \notin Hearing \union {"clone_reply", "pnew_sent"}, NEW l, NEW m
  PROVE  KnowsAt(point, l, m)
BY DEF KnowsAt, HeedsAt, DeliveredAt, Hearing

\* Who goes on without being called is alone.
LEMMA AlertAlone ==
  ASSUME House, NEW p \in Pid, lib[p].at = "ret",
         \/ pc[p] \in Receiving \union {"start", "exec", "readline", "cleanup"}
         \/ pc[p] \in Sending /\ lib[p].status # 0
         \/ pc[p] = "popen" /\ mem[p].peer # Pending
  PROVE  AlonePost(p)
<1>1. Busy(p)
  BY DEF Busy, BusyAt
<1> QED
  BY <1>1, BusyAlonePost DEF House

\* Two programs at work that still have something to do are one.
LEMMA OneWorker ==
  ASSUME Attendance, Relatives, NEW x \in Pid, NEW y \in Pid,
         pc[x] \in Working \ {"popen"}, pc[y] \in Working \ {"popen"}, ~LeftBehind(x), ~LeftBehind(y)
  PROVE  x = y
BY DEF Attendance, Attended, Helper, OneHelper

LEMMA ChildMoves ==
  ASSUME Estate, NEW p \in Pid, pc[p] \in (ChildPoints \ {"term_done"}) \union {"boot"},
         NEW point \in ChildPoints, NEW l, NEW m,
         Goto(p, point, l, m), UNCHANGED <<parent, nextPid, fifo>>, tree' = tree,
         m.name = mem[p].name,
         point \in Cloning =>
           pc[p] \in Cloning /\ m.kid = mem[p].kid /\ m.clones_count = mem[p].clones_count,
         pc[p] \in Cloning => point \in Cloning \/ Released(p),
         pc[p] \in Leaving => point \in Leaving \union {"term_done"} \/ InTree(p),
         point # "clone_reply" \/ (l.at = "check" /\ l.pid = PM),
         point # "clone_added" \/ (l.at = "check" /\ l.pid = PM),
         \/ AlonePost(p) /\ (Mute(point, l) \/ NewRight(l))
         \/ Mute(point, l) /\ Same(p)
  PROVE  EntryInv'
<1>1. Goes(p, point, m)
  BY DEF Goes, Belonging, ChildPoints, Looking, Adding, Asker
<1>2. KnowsAt(point, l, m)
  BY DEF KnowsAt, HeedsAt, DeliveredAt, Hearing, ChildPoints
<1>3. p # PM
  BY Manager DEF Estate, House, CalmInv, Managing, ManagerPoints, ChildPoints
<1> QED
  BY <1>1, <1>2, <1>3, GotoEntry

\* Whoever has nothing to say before and after says nothing else.
LEMMA SilentIsSame ==
  ASSUME NEW x, pc[x] \notin Speaking, pc'[x] \notin Speaking
  PROVE  Same(x)
BY DEF Same, Speaking, Querying, Adding

\* A reply of pmanager that has been read is right.
LEMMA ReplyIsRight ==
  ASSUME Estate, NEW p \in Pid, lib[p].at = "ret", pc[p] \in Reading \union Hearing,
         lib[p].msg # NULL, lib[p].msg.sender = PM
  PROVE  Reply(p, lib[p].msg)
<1>1. Parcel(p, lib[p].msg) \in Post
  <2>1. CASE pc[p] \in Reading
    BY <2>1 DEF Post, Parcels, Carried
  <2>2. CASE pc[p] \in Hearing
    BY <2>2 DEF Post, Heard
  <2> QED
    BY <2>1, <2>2
<1>2. PICK parcel \in Post : parcel.to = p /\ parcel.msg = lib[p].msg
  BY <1>1 DEF Parcel
<1>3. Right(parcel.to, parcel.msg)
  BY <1>2 DEF Estate, EntryInv, PostRight
<1> QED
  BY <1>2, <1>3 DEF Right

\* A process that has been told to end has been added before, or cannot be.
LEMMA ToldIsListed ==
  ASSUME Estate, NEW p \in Pid, pc[p] = "flag", mem[p].sigterm_flag = 1
  PROVE  InTree(p)
<1> USE DEF Estate, House
<1>1. PICK c \in Pid : c = mem[p].sigterm_sender /\ pc[c] \in {"exit", "rm_next"} /\ Waiting(c) /\ lib[c].pid = p
  BY DEF Service, Asked, TermClient, Terminating
<1>2. p # PM /\ Relatives /\ Attendance
  BY Manager DEF CalmInv, Managing, ManagerPoints, Order, Discipline
<1>3. pc[c] \in Working \ {"popen"} /\ ~LeftBehind(c)
  BY <1>1, <1>2 DEF Working, CommandPoints, LeftBehind, Waiting
<1>4. ASSUME NEW q \in Pid, pc[q] \in Adding, mem[q].kid = p PROVE FALSE
  <2>1. CASE pc[q] \in {"pnew_sent", "pnew_added"}
    <3>1. pc[q] \in Working \ {"popen"} /\ ~LeftBehind(q)
      BY <2>1 DEF Working, CommandPoints, LeftBehind
    <3> QED
      BY <1>1, <1>2, <1>3, <2>1, <3>1, OneWorker
  <2>2. CASE pc[q] \in Cloning
    <3>1. PICK d : d = mem[q].peer
      OBVIOUS
    <3>2. SpawnClient(d, q)
      BY <2>2, <3>1 DEF Service, Asked, CloneWork
    <3>3. q # PM
      BY <2>2, Manager DEF CalmInv, Managing, ManagerPoints, Cloning
    <3>4. d \in Pid /\ pc[d] \in Working \ {"popen"} /\ ~LeftBehind(d)
      BY <3>2, <3>3 DEF SpawnClient, TermClient, Working, CommandPoints, LeftBehind, Waiting
    <3>5. d = c
      BY <1>2, <1>3, <3>4, OneWorker
    <3>6. p = q
      BY <1>1, <3>2, <3>5 DEF SpawnClient, TermClient
    <3> QED
      BY <2>2, <3>6 DEF Cloning
  <2> QED
    BY <1>4, <2>1, <2>2 DEF Adding
<1>5. Registered(p)
  BY DEF EntryInv
<1> QED
  BY <1>4, <1>5 DEF Registered, Belonging, ChildPoints, Leaving

LEMMA SleepEntry ==
  ASSUME Estate, NEW p \in Pid, tree' = tree,
         RegisterHandlers(p) \/ Sleep(p) \/ CheckSigtermFlag(p) \/ CheckUnreadFlag(p)
  PROVE  EntryInv'
<1> USE DEF Estate, House
<1>0. TypeInv
  BY DEF CalmInv
<1>1. ASSUME NEW point \in {"loop", "asleep", "unread", "got"}, NEW l, Goto(p, point, l, mem[p]),
             UNCHANGED <<parent, nextPid, fifo>>, Mute(point, l), pc[p] \in Resting
      PROVE  EntryInv'
  <2>1. pc'[p] = point
    BY <1>0, <1>1, Shape DEF Goto
  <2>2. Same(p)
    BY <1>1, <2>1, SilentIsSame DEF Speaking, Resting, Leaving, Querying, Looking, Adding, Cloning
  <2> QED
    BY <1>1, <2>2, ChildMoves DEF ChildPoints, Resting, Cloning, Leaving
<1>2. CASE RegisterHandlers(p) \/ Sleep(p)
  <2>1. PICK point \in {"loop", "asleep"} :
          /\ pc' = [pc EXCEPT ![p] = point]
          /\ pc[p] \in {"boot", "loop"} /\ lib[p].at = "ret"
    BY <1>2 DEF RegisterHandlers, Sleep, Ready
  <2>2. Goto(p, point, lib[p], mem[p]) /\ UNCHANGED <<parent, nextPid, fifo>>
    BY <1>0, <1>2, <2>1, GotoPoint DEF RegisterHandlers, Sleep
  <2>3. Mute(point, lib[p])
    BY <1>0, <2>1, MuteCalls DEF Reading, Hearing
  <2> QED
    BY <1>1, <2>1, <2>2, <2>3 DEF Resting
<1>3. CASE CheckSigtermFlag(p)
  <2>1. pc[p] = "flag" /\ lib[p].at = "ret" /\ UNCHANGED <<parent, nextPid, fifo>>
    BY <1>3 DEF CheckSigtermFlag, Ready
  <2>2. CASE mem[p].sigterm_flag = 1
    <3>1. PICK l : l = message_send(p, PM, MSG_REMOVE, <<Pad>>)
      OBVIOUS
    <3>2. Goto(p, "term_sent", l, mem[p])
      BY <1>3, <2>2, <3>1 DEF CheckSigtermFlag
    <3>3. AlonePost(p)
      <4>1. Only(p, "sigterm") /\ "sigterm" \in Claims
        BY <2>1, <2>2, Holder DEF CalmInv, Turn, HasTurn, Claims, Terminating
      <4>2. Alone(p)
        BY <2>1, <4>1, HolderAlone
      <4> QED
        BY <4>1, <4>2, BusyHears DEF AlonePost, Only
    <3>4. NewRight(l)
      <4>1. PM \in Pid /\ p # PM
        BY <2>1, PidFacts, Manager DEF CalmInv, Managing, ManagerPoints
      <4>2. pc'[p] = "term_sent" /\ mem'[p] = mem[p]
        BY <1>0, <3>2, Shape DEF Goto
      <4>3. InTree(p)'
        BY <2>1, <2>2, <4>2, ToldIsListed DEF InTree
      <4> QED
        BY <1>0, <3>1, <4>1, <4>2, <4>3, RemoveRight DEF Leaving
    <3> QED
      BY <2>1, <3>2, <3>3, <3>4, ChildMoves DEF ChildPoints, Cloning, Leaving
  <2>3. CASE mem[p].sigterm_flag # 1
    <3>1. Goto(p, "unread", lib[p], mem[p])
      BY <1>3, <2>3 DEF CheckSigtermFlag
    <3>2. Mute("unread", lib[p])
      BY <1>0, <2>1, MuteCalls DEF Reading, Hearing
    <3> QED
      BY <1>1, <2>1, <3>1, <3>2 DEF Resting
  <2> QED
    BY <2>2, <2>3
<1>4. CASE CheckUnreadFlag(p)
  <2>1. pc[p] = "unread" /\ lib[p].at = "ret" /\ UNCHANGED <<parent, nextPid, fifo>>
    BY <1>4 DEF CheckUnreadFlag, Ready
  <2>2. CASE lib[p].unread_flag
    <3>1. Goto(p, "got", message_read(p), mem[p]) /\ Mute("got", message_read(p))
      BY <1>0, <1>4, <2>2, MuteCalls DEF CheckUnreadFlag
    <3> QED
      BY <1>1, <2>1, <3>1 DEF Resting
  <2>3. CASE ~lib[p].unread_flag
    <3>1. Goto(p, "loop", lib[p], mem[p])
      BY <1>4, <2>3 DEF CheckUnreadFlag
    <3>2. Mute("loop", lib[p])
      BY <1>0, <2>1, MuteCalls DEF Reading, Hearing
    <3> QED
      BY <1>1, <2>1, <3>1, <3>2 DEF Resting
  <2> QED
    BY <2>2, <2>3
<1> QED
  BY <1>2, <1>3, <1>4

LEMMA GotEntry ==
  ASSUME Estate, NEW p \in Pid, tree' = tree, GotMessage(p)
  PROVE  EntryInv'
<1> USE DEF Estate, House
<1>0. TypeInv
  BY DEF CalmInv
<1>1. pc[p] = "got" /\ lib[p].at = "ret" /\ UNCHANGED fifo /\ mem[p] \in MemType
  BY <1>0, Shape DEF GotMessage, Ready, SoundMem
<1>2. p # PM /\ lib[p].msg # NULL /\ AlonePost(p)
  BY <1>1, ChildReceives, AlertAlone DEF Receiving
<1>3. CASE lib[p].msg.type = MSG_SPAWN
  <2>1. PICK name : name = NextName(p)
    OBVIOUS
  <2>2. PICK l : l = message_send(p, PM, MSG_INFO, name)
    OBVIOUS
  <2>3. PICK m : /\ m = [mem[p] EXCEPT !.peer = lib[p].msg.sender]
                 /\ UNCHANGED <<parent, nextPid>> /\ Goto(p, "clone_asked", l, m)
    BY <1>2, <1>3, <2>1, <2>2 DEF GotMessage
  <2>4. pc'[p] = "clone_asked" /\ mem'[p] = m
    BY <1>0, <2>3, Shape DEF Goto
  <2>5. m.name = mem[p].name /\ m.clones_count = mem[p].clones_count
    BY <1>1, <2>3 DEF MemType
  <2>6. name = Wanted(p)' /\ name \in Str
    BY <1>0, <2>1, <2>4, <2>5, Contents DEF Wanted, NextName, CloneWork
  <2>7. NewRight(l)
    BY <1>0, <1>2, <2>2, <2>4, <2>6, AskRight DEF Querying
  <2> QED
    BY <1>1, <1>2, <2>3, <2>5, <2>7, ChildMoves DEF ChildPoints, Cloning, Leaving
<1>4. CASE lib[p].msg.type # MSG_SPAWN
  <2>1. UNCHANGED <<parent, nextPid>> /\ Goto(p, "loop", [lib[p] EXCEPT !.msg = NULL], mem[p])
    BY <1>2, <1>4 DEF GotMessage
  <2>2. Mute("loop", [lib[p] EXCEPT !.msg = NULL])
    BY <1>0, <1>1, MuteCalls DEF Reading
  <2> QED
    BY <1>1, <1>2, <2>1, <2>2, ChildMoves DEF ChildPoints, Cloning, Leaving
<1> QED
  BY <1>3, <1>4

LEMMA TerminateEntry ==
  ASSUME Estate, NEW p \in Pid, tree' = tree,
         AwaitRemoval(p) \/ GotRemoval(p) \/ ExitChild(p) \/ ResetSigtermFlag(p)
  PROVE  EntryInv'
<1> USE DEF Estate, House
<1>0. TypeInv /\ mem[p] \in MemType
  BY Shape DEF CalmInv, SoundMem
<1>1. CASE AwaitRemoval(p)
  <2>1. pc[p] = "term_sent" /\ lib[p].at = "ret" /\ UNCHANGED <<parent, nextPid, fifo>>
    BY <1>1 DEF AwaitRemoval, Ready
  <2>2. lib[p].status = 0
    BY <2>1 DEF CalmInv, Order, Discipline, ManagerReached, Reaches
  <2>3. PICK l : l = message_wait(p, PM)
    OBVIOUS
  <2>4. Goto(p, "term_reply", l, mem[p])
    BY <1>1, <2>2, <2>3 DEF AwaitRemoval
  <2>5. Mute("term_reply", l)
    BY <1>0, <2>3, MuteCalls
  <2>6. pc'[p] = "term_reply" /\ mem'[p] = mem[p]
    BY <1>0, <2>4, Shape DEF Goto
  <2>7. Same(p)
    BY <2>1, <2>6 DEF Same, Leaving, Looking, Cloning
  <2> QED
    BY <2>1, <2>4, <2>5, <2>7, ChildMoves DEF ChildPoints, Cloning, Leaving
<1>2. CASE GotRemoval(p)
  <2>1. pc[p] = "term_reply" /\ lib[p].at = "ret" /\ UNCHANGED fifo
    BY <1>2 DEF GotRemoval, Ready
  <2>2. p # PM /\ lib[p].msg # NULL /\ AlonePost(p)
    BY <2>1, ChildReceives, AlertAlone DEF Receiving
  <2>3. lib[p].msg.sender = PM
    BY <2>1, <2>2 DEF KinInv, Addressed, AddressedAt
  <2>4. PICK point \in {"term_done", "term_failed"} :
          /\ point = IF lib[p].msg.type = MSG_SUCCESS THEN "term_done" ELSE "term_failed"
          /\ Goto(p, point, resume_process(p, mem[p].sigterm_sender), mem[p])
          /\ UNCHANGED <<parent, nextPid>>
    BY <1>2, <2>2 DEF GotRemoval
  <2>5. point = "term_done" \/ InTree(p)
    BY <2>1, <2>2, <2>3, <2>4, ReplyIsRight DEF Reply, Reading, Leaving
  <2>6. pc'[p] = point
    BY <1>0, <2>4, Shape DEF Goto
  <2>7. NewRight(resume_process(p, mem[p].sigterm_sender))
    BY <1>0, <2>2, <2>4, <2>6, ResumeRight DEF Speaking, Leaving, Querying, Looking, Adding, Cloning
  <2> QED
    BY <2>1, <2>2, <2>4, <2>5, <2>7, ChildMoves DEF ChildPoints, Cloning, Leaving
<1>3. CASE ExitChild(p)
  <2>1. pc[p] = "term_done" /\ ExitPrinting(p, EndOfFile) /\ fifo' = fifo
    BY <1>3 DEF ExitChild, Ready, Exit
  <2> QED
    BY <2>1, ExitEntry DEF Gone, Belonging, ChildPoints, Adding, Cloning, Speaking, Leaving, Querying, Looking
<1>4. CASE ResetSigtermFlag(p)
  <2>1. PICK m : /\ pc[p] = "term_failed" /\ lib[p].at = "ret" /\ UNCHANGED <<parent, nextPid, fifo>>
                 /\ m = [mem[p] EXCEPT !.sigterm_flag = 0]
                 /\ Goto(p, "unread", lib[p], m)
    BY <1>4 DEF ResetSigtermFlag, Ready
  <2>2. m.name = mem[p].name
    BY <1>0, <2>1 DEF MemType
  <2>3. Mute("unread", lib[p])
    BY <1>0, <2>1, MuteCalls DEF Reading, Hearing
  <2>4. pc'[p] = "unread"
    BY <1>0, <2>1, Shape DEF Goto
  <2>5. Same(p)
    BY <2>1, <2>4, SilentIsSame DEF Speaking, Leaving, Querying, Looking, Adding, Cloning
  <2> QED
    BY <2>1, <2>2, <2>3, <2>5, ChildMoves DEF ChildPoints, Cloning, Leaving
<1> QED
  BY <1>1, <1>2, <1>3, <1>4

\* A clone has returned to its loop, and the sender of MSG_SPAWN is resumed.
LEMMA ResumeEntry ==
  ASSUME Estate, NEW p \in Pid \ {PM}, tree' = tree, pc[p] \in CloneWork, AlonePost(p),
         pc[p] \in Cloning => Released(p),
         NEW to, NEW m, m.name = mem[p].name, Goto(p, "loop", resume_process(p, to), m),
         UNCHANGED <<parent, nextPid, fifo>>
  PROVE  EntryInv'
<1>1. TypeInv
  BY DEF Estate, House, CalmInv
<1>2. pc'[p] = "loop"
  BY <1>1, Shape DEF Goto
<1>3. NewRight(resume_process(p, to))
  BY <1>1, <1>2, ResumeRight DEF Speaking, Leaving, Querying, Looking, Adding, Cloning
<1> QED
  BY <1>3, ChildMoves DEF ChildPoints, CloneWork, Cloning, Leaving

LEMMA ForkCloneEntry ==
  ASSUME Estate, NEW p \in Pid, tree' = tree, pc[p] = "clone_reply", lib[p].at = "ret",
         lib[p].msg # NULL, lib[p].msg.type # MSG_INFO, ForkClone(p), fifo' = fifo
  PROVE  EntryInv'
<1> USE DEF Estate, House
<1>0. TypeInv /\ p # PM /\ AlonePost(p) /\ mem[p] \in MemType /\ lib[p] \in LibType
  BY ChildReceives, AlertAlone, Shape DEF CalmInv, Receiving, SoundMem, SoundLib
<1>1. PICK name : name = NextName(p)
  OBVIOUS
<1>2. PICK kid : kid = nextPid
  OBVIOUS
<1>3. PICK l : l = message_send(p, PM, MSG_ADD, proc_node_tostr(kid, p, name))
  OBVIOUS
<1>4. PICK m, kidMem, kidLib :
        /\ m = [mem[p] EXCEPT !.kid = kid]
        /\ kidMem = [CloneReturns(p) EXCEPT !.name = name, !.clones_count = 0]
        /\ kidLib = [lib[p] EXCEPT !.msg = NULL]
        /\ Fork(p, "clone_sent", l, m, "loop", kidLib, kidMem)
  BY <1>1, <1>2, <1>3 DEF ForkClone
<1>5. /\ kidLib.at = "ret" /\ m.kid = kid /\ m.name = mem[p].name
      /\ m.clones_count = mem[p].clones_count /\ kidMem.name = name
  BY <1>0, <1>4 DEF LibType, MemType, CloneReturns
<1>6. kid \in Pid /\ pc'[p] = "clone_sent" /\ mem'[p] = m
  BY <1>0, <1>2, <1>4, <1>5, ForkFacts, Shape DEF CalmInv, Gone
<1>7. name = Wanted(p)' /\ name = Wanted(p) /\ name \in Str
  BY <1>0, <1>1, <1>5, <1>6, Contents DEF Wanted, NextName, CloneWork, Cloning
<1>8. NewRight(l)
  <2>1. lib[p].msg.sender = PM
    BY DEF EntryInv, KnowsAt, HeedsAt
  <2>2. Reply(p, lib[p].msg)
    BY <2>1, ReplyIsRight DEF Reading
  <2>3. CleanName(name) => name \notin NamesOf(tree')
    BY <1>7, <2>2 DEF Reply, Querying
  <2> QED
    BY <1>0, <1>3, <1>5, <1>6, <1>7, <2>3, AddRight DEF Adding, Cloning
<1>9. KnowsAt("clone_sent", l, m)
  BY Unheeded DEF Hearing
<1> QED
  BY <1>0, <1>2, <1>4, <1>5, <1>7, <1>8, <1>9, ForkEntry
  DEF Gone, Adding, Cloning, Leaving, Looking, Belonging, ChildPoints, Asker

LEMMA CloneEntry ==
  ASSUME Estate, NEW p \in Pid, tree' = tree, ~CloneRefused(p),
         AwaitDuplicateCheck(p) \/ child_clone(p) \/ send_proc_to_pmanager(p) \/ CloneAdded(p)
  PROVE  EntryInv'
<1> USE DEF Estate, House
<1>0. TypeInv /\ mem[p] \in MemType
  BY Shape DEF CalmInv, SoundMem
<1>1. CASE AwaitDuplicateCheck(p)
  <2>1. pc[p] = "clone_asked" /\ lib[p].at = "ret" /\ UNCHANGED <<parent, nextPid, fifo>> /\ p # PM
    BY <1>1, Manager DEF AwaitDuplicateCheck, Ready, CalmInv, Managing, ManagerPoints
  <2>2. CASE lib[p].status = 0
    <3>1. PICK l : l = message_wait(p, PM) /\ Goto(p, "clone_reply", l, mem[p])
      BY <1>1, <2>2 DEF AwaitDuplicateCheck
    <3>2. Mute("clone_reply", l) /\ l.at = "check" /\ l.pid = PM
      BY <1>0, <3>1, MuteCalls, Calls
    <3>3. pc'[p] = "clone_reply" /\ mem'[p] = mem[p]
      BY <1>0, <3>1, Shape DEF Goto
    <3>4. Same(p)
      BY <2>1, <3>3 DEF Same, Leaving, Looking, Cloning
    <3> QED
      BY <2>1, <3>1, <3>2, <3>4, ChildMoves DEF ChildPoints, Cloning, Leaving
  <2>3. CASE lib[p].status # 0
    <3>1. AlonePost(p)
      BY <2>1, <2>3, AlertAlone DEF Sending
    <3>2. CloneReturns(p).name = mem[p].name
      BY <1>0 DEF CloneReturns, MemType
    <3>3. Goto(p, "loop", resume_process(p, mem[p].peer), CloneReturns(p))
      BY <1>1, <2>3 DEF AwaitDuplicateCheck
    <3> QED
      BY <2>1, <3>1, <3>2, <3>3, ResumeEntry DEF CloneWork, Cloning
  <2> QED
    BY <2>2, <2>3
<1>2. CASE child_clone(p)
  <2>1. pc[p] = "clone_reply" /\ lib[p].at = "ret" /\ fifo' = fifo
    BY <1>2 DEF child_clone, Ready
  <2>2. p # PM /\ lib[p].msg # NULL /\ AlonePost(p) /\ CloneReturns(p).name = mem[p].name
    BY <1>0, <2>1, ChildReceives, AlertAlone DEF Receiving, CloneReturns, MemType
  <2>3. CASE ForkClone(p) /\ lib[p].msg.type # MSG_INFO
    BY <2>1, <2>2, <2>3, ForkCloneEntry
  <2>4. CASE UNCHANGED <<parent, nextPid>> /\ Goto(p, "loop", resume_process(p, mem[p].peer), CloneReturns(p))
    BY <2>1, <2>2, <2>4, ResumeEntry DEF CloneWork, Cloning
  <2>5. CASE UNCHANGED <<parent, nextPid>> /\ Goto(p, "loop", [lib[p] EXCEPT !.msg = NULL], CloneReturns(p))
    <3>1. Mute("loop", [lib[p] EXCEPT !.msg = NULL])
      BY <1>0, <2>1, MuteCalls DEF Reading
    <3> QED
      BY <2>1, <2>2, <2>5, <3>1, ChildMoves DEF ChildPoints, Cloning, Leaving
  <2> QED
    BY <1>2, <2>2, <2>3, <2>4, <2>5 DEF child_clone
<1>3. CASE send_proc_to_pmanager(p)
  <2>1. pc[p] = "clone_sent" /\ lib[p].at = "ret" /\ UNCHANGED <<parent, nextPid, fifo>>
    BY <1>3 DEF send_proc_to_pmanager, Ready
  <2>2. lib[p].status = 0
    BY <2>1 DEF CalmInv, Order, Discipline, ManagerReached, Reaches
  <2>3. PICK l : l = message_wait(p, PM) /\ Goto(p, "clone_added", l, mem[p])
    BY <1>3, <2>2 DEF send_proc_to_pmanager
  <2>4. Mute("clone_added", l) /\ l.at = "check" /\ l.pid = PM
    BY <1>0, <2>3, MuteCalls, Calls
  <2>5. pc'[p] = "clone_added" /\ mem'[p] = mem[p]
    BY <1>0, <2>3, Shape DEF Goto
  <2>6. Same(p)
    BY <2>1, <2>5 DEF Same, Leaving, Looking, Cloning
  <2> QED
    BY <2>1, <2>3, <2>4, <2>6, ChildMoves DEF ChildPoints, Cloning, Leaving
<1>4. CASE CloneAdded(p)
  <2>1. pc[p] = "clone_added" /\ lib[p].at = "ret" /\ UNCHANGED <<parent, nextPid, fifo>> /\ Ready(p, "clone_added")
    BY <1>4 DEF CloneAdded, Ready
  <2>2. p # PM /\ AlonePost(p)
    BY <2>1, AlertAlone, Manager DEF Receiving, CalmInv, Managing, ManagerPoints
  <2>3. PICK m : /\ lib[p].msg # NULL /\ lib[p].msg.type = MSG_SUCCESS
                 /\ m = [CloneReturns(p) EXCEPT !.clones_count = @ + 1]
                 /\ Goto(p, "loop", resume_process(p, mem[p].peer), m)
    BY <1>4, <2>1 DEF CloneAdded, CloneRefused
  <2>4. m.name = mem[p].name
    BY <1>0, <2>3 DEF CloneReturns, MemType
  <2>5. lib[p].msg.sender = PM
    BY <2>1, <2>3 DEF EntryInv, KnowsAt, HeedsAt, Hearing
  <2>6. Reply(p, lib[p].msg)
    BY <2>1, <2>3, <2>5, ReplyIsRight DEF Hearing
  <2>7. Released(p)
    BY <2>1, <2>3, <2>6, Types DEF Reply, Released, Adding, Cloning
  <2> QED
    BY <2>1, <2>2, <2>3, <2>4, <2>7, ResumeEntry DEF CloneWork, Cloning
<1> QED
  BY <1>1, <1>2, <1>3, <1>4

LEMMA ChildEntry ==
  ASSUME Estate, NEW p \in Pid, tree' = tree, ~CloneRefused(p), ChildStep(p)
  PROVE  EntryInv'
BY SleepEntry, GotEntry, TerminateEntry, CloneEntry DEF ChildStep

-----------------------------------------------------------------------------
(***************************************************************************)
(* The commands.                                                           *)
(***************************************************************************)
LEMMA WorkerIsCommand ==
  ASSUME Estate, NEW p \in Pid,
         \/ pc[p] \in Working \ {"start", "info_asked", "info_reply", "exit"}
         \/ pc[p] = "start" /\ mem[p].prog # "pinfo"
  PROVE  p = Command /\ parent[p] = PM
<1>1. Relatives /\ Attended(p)
  BY DEF Estate, House, CalmInv, Order, Discipline, Attendance
<1>2. pc[p] \in Working /\ ~LeftBehind(p)
  BY DEF LeftBehind, Working, CommandPoints
<1>3. ~Helper(p)
  <2> SUFFICES ASSUME Helper(p) PROVE FALSE
    OBVIOUS
  <2>1. Command \in Pid /\ parent[p] = Command /\ pc[Command] = "popen"
    BY Shape DEF Estate, House, CalmInv, Helper, Command, SoundMem, MemType
  <2>2. /\ pc[p] \in {"start", "info_asked", "info_reply", "exit"} \union Gone
        /\ pc[p] = "start" => mem[p].prog = "pinfo"
    BY <1>1, <2>1 DEF Relatives
  <2> QED
    BY <1>2, <2>2 DEF Working, CommandPoints, Gone
<1>4. p = Command
  BY <1>1, <1>2, <1>3 DEF Attended
<1> QED
  BY <1>1, <1>4 DEF Command, Relatives, NoPid, Pid

LEMMA CommandMoves ==
  ASSUME Estate, NEW p \in Pid, pc[p] \in CommandPoints \ {"boot"},
         NEW point \in CommandPoints \ {"boot", "start", "popen", "pnew_sent"}, NEW l, NEW m,
         Goto(p, point, l, m), UNCHANGED <<parent, nextPid, fifo>>, tree' = tree,
         point \in Looking =>
           /\ pc[p] \in {"start"} \union Looking
           /\ m.name = mem[p].name /\ (mem[p].peer = PM => m.peer = PM),
         point = "pnew_added" => pc[p] = "pnew_sent" /\ m = mem[p],
         pc[p] \in Adding => point = "pnew_added" \/ Released(p),
         point \in {"pnew_asked", "pnew_reply"} => pc[p] \in {"start", "pnew_asked"},
         KnowsAt(point, l, m),
         \/ AlonePost(p) /\ (Mute(point, l) \/ NewRight(l))
         \/ Mute(point, l) /\ Same(p)
  PROVE  EntryInv'
<1>1. Goes(p, point, m)
  BY DEF Goes, Belonging, ChildPoints, CommandPoints, Looking, Adding, Cloning, Leaving, Asker
<1>2. p # PM
  BY Manager DEF Estate, House, CalmInv, Managing, ManagerPoints, CommandPoints
<1> QED
  BY <1>1, <1>2, GotoEntry

LEMMA FinishEntry ==
  ASSUME Estate, NEW p \in Pid, pc[p] \in CommandPoints \ {"boot"}, AlonePost(p), Finish(p),
         UNCHANGED <<parent, nextPid, fifo>>, tree' = tree, pc[p] \in Adding => Released(p)
  PROVE  EntryInv'
<1>1. Mute("exit", BlankLib)
  BY DEF Mute, Empty, BlankLib, Reading, Hearing
<1>2. KnowsAt("exit", BlankLib, mem[p])
  BY Unheeded DEF Hearing
<1> QED
  BY <1>1, <1>2, CommandMoves DEF Finish, CommandPoints, Looking

LEMMA LeaveEntry ==
  ASSUME Estate, NEW p \in Pid, pc[p] \in CommandPoints \ {"boot", "pnew_sent", "pnew_added"}, AlonePost(p),
         Exit(p), fifo' = fifo, tree' = tree
  PROVE  EntryInv'
BY ExitEntry DEF Exit, CommandPoints, Gone, Belonging, ChildPoints, Adding, Cloning

LEMMA AskEntry ==
  ASSUME Estate, NEW p \in Pid, tree' = tree, pc[p] = "start", lib[p].at = "ret",
         NEW point \in {"pnew_asked", "info_asked", "list_asked"}, NEW to,
         mem[p].peer = PM => to = PM \/ point # "info_asked",
         NEW type \in {MSG_INFO, MSG_LIST}, point = "list_asked" <=> type = MSG_LIST,
         NEW content \in Str, point # "list_asked" => content = mem[p].name,
         Ask(p, point, to, type, content), fifo' = fifo
  PROVE  EntryInv'
<1> USE DEF Estate, House
<1>0. TypeInv /\ mem[p] \in MemType
  BY Shape DEF CalmInv, SoundMem
<1>1. PICK l : l = message_send(p, to, type, content)
  OBVIOUS
<1>2. PICK m : m = [mem[p] EXCEPT !.peer = to] /\ Goto(p, point, l, m) /\ UNCHANGED <<parent, nextPid>>
  BY <1>1 DEF Ask
<1>3. AlonePost(p) /\ p # PM
  BY AlertAlone, Manager DEF CalmInv, Managing, ManagerPoints
<1>4. pc'[p] = point /\ mem'[p] = m /\ m.name = mem[p].name /\ m.peer = to
  BY <1>0, <1>2, Shape DEF Goto, MemType
<1>5. NewRight(l)
  <2>1. CASE point = "list_asked"
    <3>1. pc'[p] \notin Speaking
      BY <1>4, <2>1 DEF Speaking, Leaving, Querying, Looking, Adding, Cloning
    <3> QED
      BY <1>0, <1>1, <1>3, <2>1, <3>1, Types, PlainRight
  <2>2. CASE point # "list_asked"
    <3>1. pc'[p] \in Querying \union Looking /\ type = MSG_INFO
      BY <1>4, <2>2 DEF Querying, Looking
    <3>2. content = Wanted(p)'
      BY <1>4, <2>2 DEF Wanted, CloneWork, Cloning
    <3> QED
      BY <1>0, <1>1, <1>3, <3>1, <3>2, AskRight
  <2> QED
    BY <2>1, <2>2
<1>6. KnowsAt(point, l, m)
  BY Unheeded DEF Hearing
<1> QED
  BY <1>2, <1>3, <1>4, <1>5, <1>6, CommandMoves DEF CommandPoints, Looking, Adding, Cloning

LEMMA PopenEntry ==
  ASSUME Estate, NEW p \in Pid, tree' = tree, pc[p] = "start", lib[p].at = "ret",
         mem[p].prog # "pinfo", popen(p), fifo' = fifo
  PROVE  EntryInv'
<1> USE DEF Estate, House
<1>0. TypeInv /\ mem[p] \in MemType /\ AlonePost(p)
  BY Shape, AlertAlone DEF CalmInv, SoundMem
<1>1. CASE Finish(p) /\ UNCHANGED <<parent, nextPid>>
  BY <1>0, <1>1, FinishEntry DEF CommandPoints, Adding, Cloning
<1>2. ASSUME NEW m, NEW kidMem, m = [mem[p] EXCEPT !.peer = Pending],
             kidMem = NewCommand("pinfo", mem[p].name, parent[p]),
             Fork(p, "popen", lib[p], m, "start", BlankLib, kidMem)
      PROVE  EntryInv'
  <2>1. kidMem.name = mem[p].name /\ kidMem.peer = PM
    BY <1>2, WorkerIsCommand DEF NewCommand, BlankMem
  <2>2. m.name = mem[p].name /\ m.peer = Pending
    BY <1>0, <1>2 DEF MemType
  <2>3. BlankLib.at = "ret" /\ Mute("popen", lib[p])
    BY <1>0, MuteCalls DEF BlankLib, Reading, Hearing
  <2>4. KnowsAt("popen", lib[p], m)
    BY Unheeded DEF Hearing
  <2> QED
    BY <1>0, <1>2, <2>1, <2>2, <2>3, <2>4, ForkEntry
    DEF Gone, Adding, Cloning, Leaving, Looking, Belonging, ChildPoints, Asker
<1> QED
  BY <1>1, <1>2 DEF popen

LEMMA StartEntry ==
  ASSUME Estate, NEW p \in Pid, tree' = tree, Start(p)
  PROVE  EntryInv'
<1> USE DEF Estate, House
<1>0. TypeInv
  BY DEF CalmInv
<1>1. pc[p] = "start" /\ lib[p].at = "ret" /\ fifo' = fifo
  BY DEF Start, Begin, Ready, pnew_main, pinfo_main, prmall_main, plist_main, ptree_main,
         pclose_main, pspawn_main, phelp_main
<1>2. mem[p].name \in Str /\ pmanager \in Str /\ MSG_INFO # MSG_LIST
  BY <1>0, Contents, Types
<1>3. CASE Finish(p) /\ UNCHANGED <<parent, nextPid>>
  BY <1>1, <1>3, AlertAlone, FinishEntry DEF CommandPoints, Adding, Cloning
<1>4. CASE \E content \in {mem[p].name, pmanager} : Ask(p, "list_asked", parent[p], MSG_LIST, content)
  BY <1>1, <1>2, <1>4, AskEntry
<1>5. CASE Ask(p, "pnew_asked", parent[p], MSG_INFO, mem[p].name)
  BY <1>1, <1>2, <1>5, AskEntry
<1>6. CASE Ask(p, "info_asked", pid_pmanager(p), MSG_INFO, mem[p].name)
  <2>1. mem[p].peer = PM => pid_pmanager(p) = PM
    BY DEF pid_pmanager, PM, NoPid
  <2> QED
    BY <1>1, <1>2, <1>6, <2>1, AskEntry
<1>7. CASE mem[p].prog \in {"pclose", "pspawn"} /\ popen(p)
  BY <1>1, <1>7, PopenEntry
<1> QED
  BY <1>3, <1>4, <1>5, <1>6, <1>7
  DEF Start, Begin, pnew_main, pinfo_main, prmall_main, plist_main, ptree_main, pclose_main,
      pspawn_main, phelp_main

LEMMA ForkProcessEntry ==
  ASSUME Estate, NEW p \in Pid, tree' = tree, pc[p] = "pnew_reply", lib[p].at = "ret",
         lib[p].msg # NULL, lib[p].msg.type # MSG_INFO, ForkProcess(p), fifo' = fifo
  PROVE  EntryInv'
<1> USE DEF Estate, House
<1>0. /\ TypeInv /\ p # PM /\ AlonePost(p) /\ parent[p] = PM /\ PM \in Pid
      /\ mem[p] \in MemType /\ lib[p] \in LibType
  BY AlertAlone, WorkerIsCommand, Manager, Shape
  DEF Receiving, CalmInv, Managing, ManagerPoints, Working, CommandPoints, SoundMem, SoundLib
<1>1. PICK kid, name : kid = nextPid /\ name = mem[p].name
  OBVIOUS
<1>2. PICK l : l = message_send(p, PM, MSG_ADD, proc_node_tostr(kid, PM, name))
  OBVIOUS
<1>3. PICK m, kidMem, kidLib :
        /\ m = [mem[p] EXCEPT !.kid = kid]
        /\ kidMem = NewCommand("child", name, NoPid)
        /\ kidLib = [lib[p] EXCEPT !.msg = NULL]
        /\ Fork(p, "pnew_sent", l, m, "boot", kidLib, kidMem)
  BY <1>0, <1>1, <1>2 DEF ForkProcess
<1>4. kidLib.at = "ret" /\ m.kid = kid /\ m.name = name /\ kidMem.name = name
  BY <1>0, <1>1, <1>3 DEF LibType, MemType, NewCommand, BlankMem
<1>5. kid \in Pid /\ pc'[p] = "pnew_sent" /\ mem'[p] = m
  BY <1>0, <1>1, <1>3, <1>4, ForkFacts, Shape DEF CalmInv, Gone
<1>6. name = Wanted(p)' /\ name = Wanted(p) /\ name \in Str
  BY <1>0, <1>1, <1>4, <1>5, Contents DEF Wanted, CloneWork, Cloning
<1>7. NewRight(l)
  <2>1. lib[p].msg.sender = PM
    BY DEF EntryInv, KnowsAt, HeedsAt, Hearing
  <2>2. Reply(p, lib[p].msg)
    BY <2>1, ReplyIsRight DEF Hearing
  <2>3. CleanName(name) => name \notin NamesOf(tree')
    BY <1>6, <2>2 DEF Reply, Querying
  <2>4. pc'[p] \in Adding /\ pc'[p] \notin Cloning
    BY <1>5 DEF Adding, Cloning
  <2> QED
    BY <1>0, <1>2, <1>4, <1>5, <1>6, <2>3, <2>4, AddRight
<1>8. KnowsAt("pnew_sent", l, m)
  <2>1. l.at = "write"
    BY <1>0, <1>2, SendCall
  <2> QED
    BY <2>1 DEF KnowsAt, HeedsAt, DeliveredAt, Hearing
<1> QED
  BY <1>0, <1>1, <1>3, <1>4, <1>6, <1>7, <1>8, ForkEntry
  DEF Gone, Adding, Cloning, Leaving, Looking, Belonging, ChildPoints, Asker

LEMMA AbortEntry ==
  ASSUME Estate, NEW p \in Pid, pc[p] = "pnew_added", lib[p].at = "ret", Released(p), abort_fork(p),
         UNCHANGED <<parent, nextPid, fifo>>, tree' = tree
  PROVE  EntryInv'
<1>0. TypeInv /\ AlonePost(p)
  BY AlertAlone DEF Estate, House, CalmInv, Receiving
<1>1. CASE Finish(p)
  BY <1>0, <1>1, FinishEntry DEF CommandPoints
<1>2. ASSUME NEW l, l = message_wait(p, mem[p].kid), Goto(p, "exit", l, mem[p]) PROVE EntryInv'
  <2>1. Mute("exit", l) /\ KnowsAt("exit", l, mem[p])
    BY <1>0, <1>2, MuteCalls, Unheeded DEF Hearing
  <2> QED
    BY <1>0, <1>2, <2>1, CommandMoves DEF CommandPoints, Looking
<1> QED
  BY <1>1, <1>2 DEF abort_fork

LEMMA PnewEntry ==
  ASSUME Estate, NEW p \in Pid, tree' = tree,
         AwaitNameCheck(p) \/ pnew(p) \/ AwaitAdd(p) \/ GotAdd(p)
  PROVE  EntryInv'
<1> USE DEF Estate, House
<1>0. /\ TypeInv
      /\ pc[p] \in {"pnew_asked", "pnew_reply", "pnew_sent", "pnew_added"} /\ lib[p].at = "ret" /\ fifo' = fifo
  BY DEF CalmInv, AwaitNameCheck, pnew, AwaitAdd, GotAdd, Ready
<1>1. pc[p] \in CommandPoints \ {"boot"} /\ parent[p] = PM
  BY <1>0, WorkerIsCommand DEF CommandPoints, Working
<1>2. ASSUME NEW point \in {"pnew_reply", "pnew_added"},
             point = "pnew_reply" <=> pc[p] = "pnew_asked", point = "pnew_added" <=> pc[p] = "pnew_sent",
             Goto(p, point, message_wait(p, parent[p]), mem[p]), UNCHANGED <<parent, nextPid>>
      PROVE  EntryInv'
  <2>1. PICK l : l = message_wait(p, PM) /\ Goto(p, point, l, mem[p])
    BY <1>1, <1>2
  <2>2. Mute(point, l) /\ l.at = "check" /\ l.pid = PM
    BY <1>0, <2>1, MuteCalls, Calls
  <2>3. KnowsAt(point, l, mem[p])
    BY <2>2 DEF KnowsAt, HeedsAt, DeliveredAt
  <2>4. pc'[p] = point /\ mem'[p] = mem[p]
    BY <1>0, <2>1, Shape DEF Goto
  <2>5. Same(p)
    BY <1>2, <2>4 DEF Same, Leaving, Looking, Cloning
  <2> QED
    BY <1>0, <1>1, <1>2, <2>1, <2>2, <2>3, <2>5, CommandMoves DEF CommandPoints, Looking, Adding, Cloning
<1>3. CASE AwaitNameCheck(p)
  <2>1. pc[p] = "pnew_asked" /\ UNCHANGED <<parent, nextPid>>
    BY <1>3 DEF AwaitNameCheck, Ready
  <2>2. CASE Finish(p) /\ lib[p].status # 0
    BY <1>0, <1>1, <2>1, <2>2, AlertAlone, FinishEntry DEF Sending, Adding, Cloning
  <2>3. CASE Goto(p, "pnew_reply", message_wait(p, parent[p]), mem[p])
    BY <1>2, <2>1, <2>3
  <2> QED
    BY <1>3, <2>2, <2>3 DEF AwaitNameCheck
<1>4. CASE pnew(p)
  <2>1. pc[p] = "pnew_reply" /\ AlonePost(p)
    BY <1>0, <1>4, AlertAlone DEF pnew, Ready, Receiving
  <2>2. CASE Crash(p)
    BY <1>0, <2>1, <2>2, LeaveEntry DEF Crash, CommandPoints
  <2>3. CASE Finish(p) /\ UNCHANGED <<parent, nextPid>>
    BY <1>0, <1>1, <2>1, <2>3, FinishEntry DEF Adding, Cloning
  <2>4. CASE ForkProcess(p) /\ lib[p].msg # NULL /\ lib[p].msg.type # MSG_INFO
    BY <1>0, <2>1, <2>4, ForkProcessEntry
  <2> QED
    BY <1>4, <2>2, <2>3, <2>4 DEF pnew
<1>5. CASE AwaitAdd(p)
  <2>1. pc[p] = "pnew_sent" /\ UNCHANGED <<parent, nextPid>>
    BY <1>5 DEF AwaitAdd, Ready
  <2>2. lib[p].status = 0
    BY <1>0, <2>1 DEF EntryInv, KnowsAt, DeliveredAt
  <2>3. Goto(p, "pnew_added", message_wait(p, parent[p]), mem[p])
    BY <1>5, <2>2 DEF AwaitAdd
  <2> QED
    BY <1>2, <2>1, <2>3
<1>6. CASE GotAdd(p)
  <2>1. pc[p] = "pnew_added" /\ UNCHANGED <<parent, nextPid>>
    BY <1>6 DEF GotAdd, Ready
  <2>2. lib[p].msg # NULL /\ lib[p].msg.sender = PM
    BY <1>0, <2>1 DEF EntryInv, KnowsAt, HeedsAt, DeliveredAt, Hearing
  <2>3. Reply(p, lib[p].msg)
    BY <1>0, <2>1, <2>2, ReplyIsRight DEF Hearing
  <2>4. Released(p)
    BY <2>1, <2>3 DEF Reply, Released, Adding, Cloning
  <2>5. CASE abort_fork(p)
    BY <1>0, <2>1, <2>4, <2>5, AbortEntry
  <2>6. CASE Finish(p)
    BY <1>0, <1>1, <2>1, <2>4, <2>6, AlertAlone, FinishEntry DEF Receiving
  <2> QED
    BY <1>6, <2>5, <2>6 DEF GotAdd
<1> QED
  BY <1>3, <1>4, <1>5, <1>6

LEMMA ListEntry ==
  ASSUME Estate, NEW p \in Pid, tree' = tree,
         AwaitListItem(p) \/ GotListItem(p) \/ kill_proc_tree(p)
  PROVE  EntryInv'
<1> USE DEF Estate, House
<1>0. /\ TypeInv
      /\ pc[p] \in {"list_asked", "list_item", "rm_next"} /\ lib[p].at = "ret" /\ fifo' = fifo
  BY DEF CalmInv, AwaitListItem, GotListItem, kill_proc_tree, Ready
<1>1. ASSUME Finish(p), AlonePost(p), UNCHANGED <<parent, nextPid>> PROVE EntryInv'
  BY <1>0, <1>1, FinishEntry DEF CommandPoints, Adding, Cloning
<1>2. ASSUME NEW point \in {"list_asked", "list_item", "rm_next", "exit"}, NEW l, NEW m, Goto(p, point, l, m),
             UNCHANGED <<parent, nextPid>>,
             \/ Mute(point, l)
             \/ AlonePost(p) /\ NewRight(l)
      PROVE  EntryInv'
  <2>1. KnowsAt(point, l, m)
    BY <1>2, Unheeded DEF Hearing
  <2>2. pc'[p] = point
    BY <1>0, <1>2, Shape DEF Goto
  <2>3. Same(p)
    BY <1>0, <1>2, <2>2, SilentIsSame DEF Speaking, Leaving, Querying, Looking, Adding, Cloning
  <2> QED
    BY <1>0, <1>2, <2>1, <2>3, CommandMoves DEF CommandPoints, Looking, Adding, Cloning
<1>3. /\ \A from, point : Mute(point, message_wait(p, from))
      /\ \A point : point \notin Reading =>
           /\ Mute(point, [lib[p] EXCEPT !.msg = NULL])
           /\ point \notin Hearing => Mute(point, lib[p])
  BY <1>0, MuteCalls
<1>4. CASE AwaitListItem(p)
  <2>1. CASE Finish(p) /\ lib[p].status # 0
    BY <1>0, <1>1, <1>4, <2>1, AlertAlone DEF AwaitListItem, Ready, Sending
  <2>2. CASE Goto(p, "list_item", message_wait(p, parent[p]), mem[p])
    BY <1>2, <1>3, <1>4, <2>2 DEF AwaitListItem
  <2> QED
    BY <1>4, <2>1, <2>2 DEF AwaitListItem
<1>5. CASE GotListItem(p)
  <2>1. pc[p] = "list_item" /\ AlonePost(p) /\ p # PM
    BY <1>0, <1>5, AlertAlone, Manager
    DEF GotListItem, Ready, Receiving, CalmInv, Managing, ManagerPoints
  <2>2. CASE ListItem(p)
    <3>1. CASE Crash(p)
      BY <1>0, <2>1, <3>1, LeaveEntry DEF Crash, CommandPoints
    <3>2. ASSUME NEW l, l = message_send(p, parent[p], MSG_SUCCESS, <<Pad>>), NEW m,
                 Goto(p, "list_asked", l, m), UNCHANGED <<parent, nextPid>>
          PROVE  EntryInv'
      <4>1. pc'[p] = "list_asked"
        BY <1>0, <3>2, Shape DEF Goto
      <4>2. pc'[p] \notin Speaking
        BY <4>1 DEF Speaking, Leaving, Querying, Looking, Adding, Cloning
      <4>3. MSG_SUCCESS \in MsgType \ {MSG_ADD, MSG_REMOVE}
        BY AtomAssumption DEF MsgType
      <4>4. NewRight(l)
        BY <1>0, <2>1, <3>2, <4>2, <4>3, PlainRight, PadClean
      <4> QED
        BY <1>2, <2>1, <3>2, <4>4
    <3> QED
      BY <2>2, <3>1, <3>2 DEF ListItem
  <2>3. CASE UNCHANGED <<parent, nextPid>> /\ \E point \in {"rm_next", "exit"} :
               Goto(p, point, [lib[p] EXCEPT !.msg = NULL], mem[p])
    BY <1>2, <1>3, <2>3 DEF Reading
  <2>4. CASE Finish(p) /\ UNCHANGED <<parent, nextPid>>
    BY <1>1, <2>1, <2>4
  <2> QED
    BY <1>5, <2>2, <2>3, <2>4 DEF GotListItem
<1>6. CASE kill_proc_tree(p)
  <2>1. UNCHANGED <<parent, nextPid>> /\ pc[p] = "rm_next"
    BY <1>6 DEF kill_proc_tree, Ready
  <2>2. CASE Finish(p)
    BY <1>0, <1>1, <2>1, <2>2, AlertAlone DEF Receiving
  <2>3. ASSUME NEW q, NEW rest, SparePmanager(p, rest) \/ SignalVictim(p, q, rest)
        PROVE  EntryInv'
    <3>1. PICK l, m : Goto(p, "rm_next", l, m) /\ (l = lib[p] \/ l = message_wait(p, q))
      BY <2>3 DEF SparePmanager, SignalVictim
    <3>2. Mute("rm_next", l)
      BY <1>3, <3>1 DEF Reading, Hearing
    <3> QED
      BY <1>2, <2>1, <3>1, <3>2
  <2> QED
    BY <1>6, <2>2, <2>3 DEF kill_proc_tree
<1> QED
  BY <1>4, <1>5, <1>6

LEMMA PrintEntry ==
  ASSUME Estate, NEW p \in Pid, tree' = tree, PrintInfo(p)
  PROVE  EntryInv'
<1> USE DEF Estate, House
<1>1. pc[p] = "info_reply" /\ lib[p].at = "ret" /\ fifo' = fifo
  BY DEF PrintInfo, Ready
<1>2. AlonePost(p)
  BY <1>1, AlertAlone DEF Receiving
<1>3. PICK output : output = PrintedPid(lib[p].msg) /\ ExitPrinting(p, output)
  BY DEF PrintInfo
<1>4. ASSUME NEW x \in Pid, x = parent[p], pc[x] = "popen", output \notin {Pending, EndOfFile},
             CleanName(mem[x].name)
      PROVE  Entered(output, mem[x].name)
  <2>1. mem[p].peer = PM /\ mem[p].name = mem[x].name
    BY <1>1, <1>4 DEF EntryInv, Delegated, Looking
  <2>2. /\ lib[p].msg # NULL /\ lib[p].msg.type = MSG_INFO
        /\ output = proc_node_fromstr(lib[p].msg.content).pid
    BY <1>3, <1>4 DEF PrintedPid
  <2>3. lib[p].msg.sender = PM
    BY <1>1, <2>1, <2>2 DEF EntryInv, KnowsAt, HeedsAt, Hearing
  <2>4. Reply(p, lib[p].msg)
    BY <1>1, <2>2, <2>3, ReplyIsRight DEF Hearing
  <2>5. pc[p] \in Looking /\ Wanted(p) = mem[x].name /\ MSG_INFO # MSG_ERROR
    BY <1>1, <2>1, AtomAssumption DEF Looking, Wanted, CloneWork, Cloning
  <2> QED
    BY <1>4, <2>2, <2>4, <2>5 DEF Reply
<1> QED
  BY <1>1, <1>2, <1>3, <1>4, ExitEntry DEF Gone, Belonging, ChildPoints, Adding, Cloning

LEMMA InfoEntry ==
  ASSUME Estate, NEW p \in Pid, tree' = tree,
         ExitCommand(p) \/ AwaitInfo(p) \/ pclose(p) \/ pspawn(p) \/ AwaitSpawn(p)
  PROVE  EntryInv'
<1> USE DEF Estate, House
<1>0. /\ TypeInv
      /\ pc[p] \in {"exit", "info_asked", "popen", "spawn_sent"} /\ lib[p].at = "ret" /\ fifo' = fifo
  BY DEF CalmInv, ExitCommand, AwaitInfo, pclose, pspawn, AwaitSpawn, Ready
<1>1. ASSUME Finish(p), AlonePost(p), UNCHANGED <<parent, nextPid>> PROVE EntryInv'
  BY <1>0, <1>1, FinishEntry DEF CommandPoints, Adding, Cloning
<1>2. ASSUME NEW point \in {"exit", "spawn_sent"}, NEW l, Goto(p, point, l, mem[p]),
             pc[p] # "info_asked", UNCHANGED <<parent, nextPid>>,
             \/ Mute(point, l)
             \/ AlonePost(p) /\ NewRight(l)
      PROVE  EntryInv'
  <2>1. KnowsAt(point, l, mem[p])
    BY <1>2, Unheeded DEF Hearing
  <2>2. pc'[p] = point
    BY <1>0, <1>2, Shape DEF Goto
  <2>3. Same(p)
    BY <1>0, <1>2, <2>2, SilentIsSame DEF Speaking, Leaving, Querying, Looking, Adding, Cloning
  <2> QED
    BY <1>0, <1>2, <2>1, <2>3, CommandMoves DEF CommandPoints, Looking, Adding, Cloning
<1>3. \A from, point : Mute(point, message_wait(p, from))
  BY <1>0, MuteCalls
<1>4. CASE ExitCommand(p)
  BY <1>0, <1>4, AlertAlone, LeaveEntry DEF ExitCommand, Ready, Receiving, CommandPoints
<1>5. CASE AwaitInfo(p)
  <2>1. pc[p] = "info_asked" /\ UNCHANGED <<parent, nextPid>>
    BY <1>5 DEF AwaitInfo, Ready
  <2>2. PICK l : /\ Goto(p, "info_reply", l, mem[p])
                 /\ \/ l = message_wait(p, mem[p].peer)
                    \/ l = [lib[p] EXCEPT !.msg = NULL]
    BY <1>5 DEF AwaitInfo
  <2>3. Mute("info_reply", l)
    BY <1>0, <1>3, <2>2, MuteCalls DEF Reading
  <2>4. KnowsAt("info_reply", l, mem[p])
    <3>1. CASE l = message_wait(p, mem[p].peer)
      BY <1>0, <3>1, Calls DEF KnowsAt, HeedsAt, DeliveredAt
    <3>2. CASE l = [lib[p] EXCEPT !.msg = NULL]
      <4>1. l.at = "ret" /\ l.msg = NULL
        BY <1>0, <3>2, Shape DEF SoundLib, LibType
      <4> QED
        BY <4>1 DEF KnowsAt, HeedsAt, DeliveredAt
    <3> QED
      BY <2>2, <3>1, <3>2
  <2>5. pc'[p] = "info_reply" /\ mem'[p] = mem[p]
    BY <1>0, <2>2, Shape DEF Goto
  <2>6. Same(p)
    BY <2>1, <2>5 DEF Same, Leaving, Looking, Cloning
  <2> QED
    BY <1>0, <2>1, <2>2, <2>3, <2>4, <2>6, CommandMoves DEF CommandPoints, Looking, Adding, Cloning
<1>6. CASE pclose(p)
  <2>1. AlonePost(p) /\ UNCHANGED <<parent, nextPid>> /\ pc[p] = "popen"
    BY <1>0, <1>6, AlertAlone DEF pclose, Ready
  <2> QED
    BY <1>1, <1>2, <1>3, <1>6, <2>1 DEF pclose
<1>7. CASE pspawn(p)
  <2>1. AlonePost(p) /\ UNCHANGED <<parent, nextPid>> /\ pc[p] = "popen" /\ p # PM
    BY <1>0, <1>7, AlertAlone, Manager DEF pspawn, Ready, CalmInv, Managing, ManagerPoints
  <2>2. CASE Goto(p, "spawn_sent", message_send(p, mem[p].peer, MSG_SPAWN, <<Pad>>), mem[p])
    <3>1. pc'[p] \notin Speaking
      <4>1. pc'[p] = "spawn_sent"
        BY <1>0, <2>2, Shape DEF Goto
      <4> QED
        BY <4>1 DEF Speaking, Leaving, Querying, Looking, Adding, Cloning
    <3>2. MSG_SPAWN \in MsgType \ {MSG_ADD, MSG_REMOVE}
      BY AtomAssumption DEF MsgType
    <3>3. NewRight(message_send(p, mem[p].peer, MSG_SPAWN, <<Pad>>))
      BY <1>0, <2>1, <3>1, <3>2, PlainRight, PadClean
    <3> QED
      BY <1>2, <2>1, <2>2, <3>3
  <2> QED
    BY <1>1, <1>7, <2>1, <2>2 DEF pspawn
<1>8. CASE AwaitSpawn(p)
  <2>1. UNCHANGED <<parent, nextPid>> /\ pc[p] = "spawn_sent"
    BY <1>8 DEF AwaitSpawn, Ready
  <2>2. CASE lib[p].status = 0
    BY <1>2, <1>3, <1>8, <2>1, <2>2 DEF AwaitSpawn
  <2>3. CASE lib[p].status # 0
    BY <1>0, <1>1, <1>8, <2>1, <2>3, AlertAlone DEF AwaitSpawn, Sending
  <2> QED
    BY <2>2, <2>3
<1> QED
  BY <1>4, <1>5, <1>6, <1>7, <1>8

LEMMA CommandEntry ==
  ASSUME Estate, NEW p \in Pid, tree' = tree, CommandStep(p)
  PROVE  EntryInv'
<1>1. CASE ExitCommand(p) \/ AwaitInfo(p) \/ pclose(p) \/ pspawn(p) \/ AwaitSpawn(p)
  BY <1>1, InfoEntry
<1>2. CASE PrintInfo(p)
  BY <1>2, PrintEntry
<1>3. CASE AwaitListItem(p) \/ GotListItem(p) \/ kill_proc_tree(p)
  BY <1>3, ListEntry
<1>4. CASE AwaitNameCheck(p) \/ pnew(p) \/ AwaitAdd(p) \/ GotAdd(p)
  BY <1>4, PnewEntry
<1>5. CASE Start(p)
  BY <1>5, StartEntry
<1> QED
  BY <1>1, <1>2, <1>3, <1>4, <1>5 DEF CommandStep

-----------------------------------------------------------------------------
(***************************************************************************)
(* pmanager.                                                               *)
(***************************************************************************)
LEMMA ManagerSilent ==
  ASSUME NEW point \in Managing
  PROVE  point \notin Speaking \union {"popen", "start"} \union Belonging \union Asker \union Hearing
BY DEF Managing, ManagerPoints, Speaking, Leaving, Querying, Looking, Adding, Cloning, Belonging,
       ChildPoints, Asker, Hearing

LEMMA ManagerMoves ==
  ASSUME Estate, pc[PM] \in Managing, NEW point \in Managing, NEW l, NEW m,
         Goto(PM, point, l, m), UNCHANGED <<parent, nextPid, fifo>>, tree' = tree,
         TellsAt(point, m), Mute(point, l) \/ (AlonePost(PM) /\ NewRight(l))
  PROVE  EntryInv'
<1>1. PM \in Pid /\ pc'[PM] = point
  BY Shape DEF Estate, House, CalmInv, Goto
<1>2. /\ point \notin Speaking \union {"popen", "start"} \union Belonging \union Asker \union Hearing
      /\ pc[PM] \notin Speaking
  BY ManagerSilent
<1>3. Goes(PM, point, m)
  BY <1>2 DEF Goes, Speaking
<1>4. KnowsAt(point, l, m)
  BY <1>2, Unheeded DEF Managing, ManagerPoints
<1>5. Same(PM)
  BY <1>1, <1>2, SilentIsSame
<1> QED
  BY <1>1, <1>3, <1>4, <1>5, GotoEntry

\* Nothing that matters has changed.
LEMMA IdleEntry ==
  ASSUME Estate, UNCHANGED <<pc, lib, mem, parent, nextPid, fifo>>, tree' = tree
  PROVE  EntryInv'
<1>1. \A x \in Pid : Continues(x) /\ Holding(x) /\ Same(x)
  BY IdleContinues, SameHolds, IdleIsSame
<1>2. PostRight'
  BY <1>1, PostShrinks, PostStays DEF Estate, EntryInv
<1>3. Tells
  BY TellsStay
<1> QED
  BY <1>1, <1>2, <1>3, EntryStays

LEMMA SameTells ==
  ASSUME Estate, NEW point, NEW m,
         point \in {"list_sent", "list_ack"} => pc[PM] \in {"list_sent", "list_ack"} /\ m.peer = mem[PM].peer
  PROVE  TellsAt(point, m)
BY DEF Estate, House, KinInv, ListSound, EntryInv, ListsOnly, TellsAt

LEMMA ExecCommandEntry ==
  ASSUME Estate, tree' = tree, pc[PM] \in {"readline", "cleanup"}, lib[PM].at = "ret",
         NEW m, NEW prog, NEW name, NEW to, exec_command(PM, m, prog, name, to), fifo' = fifo
  PROVE  EntryInv'
<1>1. PICK pm, kidMem : Fork(PM, "poll", lib[PM], pm, "exec", lib[PM], kidMem)
  BY DEF exec_command
<1>2. TypeInv /\ PM \in Pid /\ AlonePost(PM)
  BY PidFacts, AlertAlone DEF Estate, House, CalmInv
<1>3. Mute("poll", lib[PM]) /\ KnowsAt("poll", lib[PM], pm)
  BY <1>2, MuteCalls, Unheeded DEF Reading, Hearing
<1> QED
  BY <1>1, <1>2, <1>3, ForkEntry DEF Gone, Adding, Cloning, Leaving, Looking, Belonging, ChildPoints, Asker

LEMMA ToCleanupEntry ==
  ASSUME Estate, tree' = tree, pc[PM] = "readline", lib[PM].at = "ret",
         Goto(PM, "cleanup", lib[PM], mem[PM]), UNCHANGED <<parent, nextPid, fifo>>
  PROVE  EntryInv'
<1>1. PM \in Pid /\ TypeInv
  BY PidFacts DEF Estate, House, CalmInv
<1>2. Mute("cleanup", lib[PM])
  BY <1>1, MuteCalls DEF Reading, Hearing
<1>3. TellsAt("cleanup", mem[PM])
  BY DEF TellsAt
<1> QED
  BY <1>2, <1>3, ManagerMoves DEF Managing, ManagerPoints

LEMMA UserEntry ==
  ASSUME Estate, tree' = tree, ReadLine \/ EndOfInput
  PROVE  EntryInv'
<1>1. pc[PM] = "readline" /\ lib[PM].at = "ret" /\ fifo' = fifo
  BY DEF ReadLine, EndOfInput, Ready
<1>2. CASE EndOfInput
  BY <1>1, <1>2, ToCleanupEntry DEF EndOfInput
<1>3. CASE ReadLine
  <2>1. PICK c \in Script[line + 1] :
          CASE c.cmd = "quit" ->
                 Goto(PM, "cleanup", lib[PM], mem[PM]) /\ UNCHANGED <<parent, nextPid, trees>>
            [] c.cmd = "other" -> UNCHANGED <<pc, lib, mem, parent, nextPid, trees>>
            [] OTHER ->
                 \/ exec_command(PM, mem[PM], c.cmd, c.name, c.to)
                 \/ ForkMayFail /\ UNCHANGED <<pc, lib, mem, parent, nextPid, trees>>
    BY <1>3 DEF ReadLine
  <2>2. CASE Goto(PM, "cleanup", lib[PM], mem[PM]) /\ UNCHANGED <<parent, nextPid>>
    BY <1>1, <2>2, ToCleanupEntry
  <2>3. CASE UNCHANGED <<pc, lib, mem, parent, nextPid>>
    BY <1>1, <2>3, IdleEntry
  <2>4. CASE exec_command(PM, mem[PM], c.cmd, c.name, c.to)
    BY <1>1, <2>4, ExecCommandEntry
  <2> QED
    BY <2>1, <2>2, <2>3, <2>4
<1> QED
  BY <1>2, <1>3

LEMMA ExecEntry ==
  ASSUME Estate, NEW p \in Pid, tree' = tree, ~CopyCleansUp(p), execvp(p)
  PROVE  EntryInv'
<1> USE DEF Estate, House
<1>0. TypeInv
  BY DEF CalmInv
<1>1. pc[p] = "exec" /\ lib[p].at = "ret" /\ UNCHANGED <<parent, nextPid, fifo>> /\ Ready(p, "exec")
  BY DEF execvp, Ready
<1>2. pc'[p] # "cleanup"
  BY <1>1 DEF CopyCleansUp
<1>3. PICK m : m = [mem[p] EXCEPT !.exiting = FALSE]
  OBVIOUS
<1>4. Goto(p, "start", BlankLib, m)
  BY <1>0, <1>2, <1>3, Shape DEF execvp, Goto
<1>5. m.peer = mem[p].peer /\ m.name = mem[p].name
  BY <1>0, <1>3, Shape DEF SoundMem, MemType
<1>6. p # PM
  BY <1>1, Manager DEF CalmInv, Managing
<1>7. AlonePost(p) /\ Mute("start", BlankLib) /\ KnowsAt("start", BlankLib, m)
  BY <1>0, <1>1, AlertAlone, MuteCalls, Unheeded DEF Reading, Hearing
<1>8. Goes(p, "start", m)
  BY <1>1, <1>5 DEF Goes, Belonging, ChildPoints, Adding, Cloning, Leaving, Asker
<1> QED
  BY <1>1, <1>4, <1>6, <1>7, <1>8, GotoEntry

LEMMA PollEntry ==
  ASSUME Estate, NEW p \in Pid, tree' = tree, Poll(p) \/ AwaitAck(p)
  PROVE  EntryInv'
<1> USE DEF Estate, House
<1>0. /\ TypeInv /\ p = PM /\ PM \in Pid /\ lib[p].at = "ret" /\ UNCHANGED <<parent, nextPid, fifo>>
      /\ pc[PM] \in {"poll", "list_sent"}
  BY Manager, PidFacts DEF CalmInv, Poll, AwaitAck, Ready, Managing, ManagerPoints
<1>1. PICK point, l :
        /\ point \in {"handle", "towait", "list_ack"}
        /\ Goto(PM, point, l, mem[PM])
        /\ point = "list_ack" => pc[PM] = "list_sent"
        /\ \/ l = message_read(PM)
           \/ l = lib[PM] /\ point = "towait"
           \/ \E from : l = message_wait(PM, from)
  BY <1>0 DEF Poll, AwaitAck, Ready
<1>2. Mute(point, l)
  BY <1>0, <1>1, MuteCalls DEF Reading, Hearing
<1>3. TellsAt(point, mem[PM])
  BY <1>1, SameTells
<1> QED
  BY <1>0, <1>1, <1>2, <1>3, ManagerMoves DEF Managing, ManagerPoints

LEMMA ReapEntry ==
  ASSUME Estate, tree' = tree, pc[PM] \in {"towait", "waitpid"}, lib[PM].at = "ret",
         pc[mem[PM].kid] = "zombie",
         pc' = [pc EXCEPT ![mem[PM].kid] = "dead", ![PM] = "readline"],
         mem' = [mem EXCEPT ![PM].kid = NoPid],
         UNCHANGED <<lib, parent, nextPid, fifo>>
  PROVE  EntryInv'
<1> USE DEF Estate, House
<1>0. PICK kid : kid = mem[PM].kid
  OBVIOUS
<1>1. /\ TypeInv /\ PM \in Pid /\ kid \in Pid /\ kid # PM /\ pc[kid] = "zombie"
  <2>1. kid # NoPid
    BY <1>0, Serving DEF CalmInv, Managing, ManagerPoints
  <2>2. PM \in Pid /\ mem[PM] \in MemType /\ TypeInv
    BY Shape, PidFacts DEF CalmInv, SoundMem
  <2>3. kid \in Pid
    BY <1>0, <2>1, <2>2 DEF MemType
  <2> QED
    BY <1>0, <2>2, <2>3
<1>2. /\ pc'[PM] = "readline" /\ pc'[kid] = "dead" /\ lib' = lib
      /\ \A x \in Pid \ {PM, kid} : pc'[x] = pc[x]
      /\ \A x \in Pid \ {PM} : mem'[x] = mem[x]
      /\ \A x \in Pid : parent'[x] = parent[x]
  BY <1>0, <1>1, Shape
<1>3. ASSUME NEW x \in Pid \ {PM} PROVE Continues(x) /\ Holding(x) /\ Same(x)
  <2>1. pc'[x] = pc[x] \/ (pc[x] = "zombie" /\ pc'[x] = "dead")
    BY <1>1, <1>2
  <2> QED
    BY <1>2, <2>1, IdleContinues, SameHolds, IdleIsSame
<1>4. Continues(PM)
  <2>1. KnowsAt("readline", lib'[PM], mem'[PM])
    BY Unheeded DEF Hearing
  <2>2. Goes(PM, "readline", mem'[PM])
    BY DEF Goes, Belonging, ChildPoints, Adding, Cloning, Leaving, Looking, Asker
  <2> QED
    BY <1>1, <1>2, <2>1, <2>2, GoesContinues
<1>5. Same(PM)
  <2>1. pc[PM] \notin Speaking /\ pc'[PM] \notin Speaking
    BY <1>2, ManagerSilent DEF Managing, ManagerPoints
  <2> QED
    BY <2>1, SilentIsSame
<1>6. Holding(PM)
  <2>1. Mute("readline", lib[PM])
    BY <1>1, MuteCalls DEF Reading, Hearing
  <2> QED
    BY <1>2, <2>1, MuteHolds DEF Holding
<1>7. PostRight'
  BY <1>3, <1>5, <1>6, PostShrinks, PostStays DEF EntryInv
<1>8. Tells
  BY <1>2 DEF Tells
<1> QED
  BY <1>3, <1>4, <1>7, <1>8, EntryStays

LEMMA WaitpidEntry ==
  ASSUME Estate, NEW p \in Pid, tree' = tree, WaitCommand(p) \/ cleanup(p)
  PROVE  EntryInv'
<1> USE DEF Estate, House
<1>0. /\ TypeInv /\ p = PM /\ PM \in Pid /\ lib[p].at = "ret" /\ fifo' = fifo
      /\ pc[PM] \in {"towait", "waitpid", "cleanup"}
  BY Manager, PidFacts DEF CalmInv, WaitCommand, cleanup, Ready, Managing, ManagerPoints
<1>1. CASE EndManager(PM)
  <2>1. ExitPrinting(PM, EndOfFile) /\ pc[PM] \notin Speaking
    BY <1>0, <1>1, ManagerSilent DEF EndManager, Exit, Managing, ManagerPoints
  <2> QED
    BY <1>0, <2>1, ExitEntry DEF Gone, Belonging, ChildPoints, Adding, Cloning
<1>2. CASE WaitCommand(p)
  <2>1. CASE pc' = [pc EXCEPT ![PM] = "waitpid"] /\ UNCHANGED <<lib, mem, parent, nextPid>> /\ pc[PM] = "towait"
    <3>1. Goto(PM, "waitpid", lib[PM], mem[PM])
      BY <1>0, <2>1, GotoPoint
    <3>2. Mute("waitpid", lib[PM])
      BY <1>0, MuteCalls DEF Reading, Hearing
    <3>3. TellsAt("waitpid", mem[PM])
      BY DEF TellsAt
    <3> QED
      BY <1>0, <2>1, <3>1, <3>2, <3>3, ManagerMoves DEF Managing, ManagerPoints
  <2>2. CASE /\ pc[mem[PM].kid] = "zombie" /\ pc[PM] \in {"towait", "waitpid"}
             /\ pc' = [pc EXCEPT ![mem[PM].kid] = "dead", ![PM] = "readline"]
             /\ mem' = [mem EXCEPT ![PM].kid = NoPid]
             /\ UNCHANGED <<lib, parent, nextPid>>
    BY <1>0, <2>2, ReapEntry
  <2> QED
    BY <1>0, <1>1, <1>2, <2>1, <2>2 DEF WaitCommand, Ready
<1>3. CASE pc[PM] = "cleanup" /\ exec_command(PM, [mem[PM] EXCEPT !.exiting = TRUE], "prmall", pmanager, NoPid)
  BY <1>0, <1>3, ExecCommandEntry
<1> QED
  BY <1>0, <1>1, <1>2, <1>3 DEF cleanup, Ready

-----------------------------------------------------------------------------
(***************************************************************************)
(* message_handler(), when it leaves the tree as it is.                    *)
(***************************************************************************)
LEMMA NameFound ==
  ASSUME NEW S, NEW t \in Seq(S), NEW name, NEW i, i = proc_node_find_by_name(t, name)
  PROVE  \/ i = 0 /\ name \notin NamesOf(t)
         \/ i \in 1..Len(t) /\ t[i].name = name /\ i # 0
<1> DEFINE found == {k \in 1..Len(t) : t[k].name = name}
<1>1. i = IF found # {} THEN Min(found) ELSE 0
  BY DEF proc_node_find_by_name, SelectInSeq
<1>2. CASE found = {}
  BY <1>1, <1>2 DEF NamesOf
<1>3. CASE found # {}
  <2>1. found \in SUBSET Nat
    OBVIOUS
  <2>2. \E k \in found : \A j \in found : k <= j
    BY <1>3, <2>1, LeastElement
  <2>3. Min(found) \in found
    BY <2>2 DEF Min
  <2> QED
    BY <1>1, <1>3, <2>3
<1> QED
  BY <1>2, <1>3

\* What pmanager answers is right when it is so of those it answers.
LEMMA AnswerRight ==
  ASSUME TypeInv, pc'[PM] \in Managing, NEW to, NEW type \in MsgType \ {MSG_ADD, MSG_REMOVE},
         NEW content \in Str,
         \A msg : /\ msg = MessageOf(MessageText(PM, type, content))
                  /\ msg # NULL /\ msg.type = type /\ to \in Pid \ {PM}
                  => Reply(to, msg)'
  PROVE  NewRight(message_send(PM, to, type, content))
<1>1. pc'[PM] \notin Speaking /\ PM \in Pid
  BY ManagerSilent, PidFacts
<1>2. ASSUME NEW msg, msg.type = type PROVE Request(PM, msg)'
  BY <1>1, <1>2 DEF Request, Speaking
<1>3. ASSUME NEW msg PROVE Reply(PM, msg)'
  BY <1>1 DEF Reply, Speaking
<1>4. ASSUME NEW msg, msg = MessageOf(MessageText(PM, type, content)), msg # NULL, msg.type = type,
             to \in Pid
      PROVE  Reply(to, msg)'
  <2>1. CASE to = PM
    BY <1>3, <2>1
  <2>2. CASE to # PM
    BY <1>4, <2>2
  <2> QED
    BY <2>1, <2>2
<1> QED
  BY <1>1, <1>2, <1>4, SendRight

LEMMA ReplyStays ==
  ASSUME NEW x, pc'[x] = pc[x], mem'[x] = mem[x], tree' = tree, NEW msg, Reply(x, msg)
  PROVE  Reply(x, msg)'
<1>1. Wanted(x)' = Wanted(x)
  BY DEF Wanted, NextName
<1>2. InTree(x)' <=> InTree(x)
  BY DEF InTree
<1> QED
  BY <1>1, <1>2 DEF Reply, Entered

\* pmanager answers, its tree being as it was.
LEMMA AnswerEntry ==
  ASSUME Estate, tree' = tree, pc[PM] \in {"handle", "list_ack"}, lib[PM].at = "ret",
         NEW point \in {"towait", "list_sent"}, NEW to, NEW type \in MsgType \ {MSG_ADD, MSG_REMOVE},
         NEW content \in Str, NEW l, l = message_send(PM, to, type, content), NEW m, Goto(PM, point, l, m),
         UNCHANGED <<parent, nextPid, fifo>>, TellsAt(point, m),
         \A msg : /\ msg = MessageOf(MessageText(PM, type, content))
                  /\ msg # NULL /\ msg.type = type /\ to \in Pid \ {PM}
                  => Reply(to, msg)
  PROVE  EntryInv'
<1>1. TypeInv /\ AlonePost(PM) /\ PM \in Pid
  BY PidFacts, AlertAlone DEF Estate, House, CalmInv, Receiving
<1>2. /\ pc'[PM] = point /\ \A x \in Pid \ {PM} : pc'[x] = pc[x] /\ mem'[x] = mem[x]
  BY <1>1, Shape DEF Goto
<1>3. \A msg : /\ msg = MessageOf(MessageText(PM, type, content))
               /\ msg # NULL /\ msg.type = type /\ to \in Pid \ {PM}
               => Reply(to, msg)'
  BY <1>2, ReplyStays
<1>4. point \in Managing /\ pc[PM] \in Managing
  BY DEF Managing, ManagerPoints
<1>5. NewRight(l)
  BY <1>1, <1>2, <1>3, <1>4, AnswerRight
<1> QED
  BY <1>1, <1>4, <1>5, ManagerMoves

\* Who asks for a process to be added asks for nothing else.
LEMMA AddsOnly ==
  ASSUME Estate, NEW q \in Pid, pc[q] \in Adding, NEW msg, msg # NULL, Request(q, msg)
  PROVE  /\ msg.type = MSG_ADD
         /\ mem[q].kid \in Pid /\ Wanted(q) \in Str
         /\ \E content, ppid :
              /\ ppid = (IF pc[q] \in Cloning THEN q ELSE PM)
              /\ content = proc_node_tostr(mem[q].kid, ppid, Wanted(q)) /\ content \in Str
              /\ msg = MessageOf(MessageText(q, MSG_ADD, content))
<1> USE DEF Estate, House
<1>1. TypeInv /\ PM \in Pid /\ Pid \subseteq Nat
  BY PidFacts DEF CalmInv
<1>2. mem[q].kid \in Pid
  BY DEF EntryInv, Named
<1>3. Wanted(q) \in Str
  BY <1>1, Contents DEF Wanted
<1>4. PICK content, ppid :
        /\ ppid = (IF pc[q] \in Cloning THEN q ELSE PM)
        /\ content = proc_node_tostr(mem[q].kid, ppid, Wanted(q))
  OBVIOUS
<1>5. content \in Str
  BY <1>1, <1>2, <1>3, <1>4, AtomFacts, TextTypes
<1>6. msg = MessageOf(MessageText(q, MSG_ADD, content))
  BY <1>4 DEF Request, AddRequest
<1>7. MSG_ADD \in MsgType /\ q \in Nat
  BY <1>1 DEF MsgType
<1>8. msg.type = MSG_ADD
  BY <1>5, <1>6, <1>7, Arrives
<1> QED
  BY <1>2, <1>3, <1>4, <1>5, <1>6, <1>8

\* What pmanager serves says what its sender wants.
LEMMA ServedRequest ==
  ASSUME Estate, pc[PM] = "handle", lib[PM].at = "ret", lib[PM].msg # NULL,
         NEW q \in Pid, q = lib[PM].msg.sender
  PROVE  Request(q, lib[PM].msg)
<1>1. PM \in Pid
  BY PidFacts
<1>2. Parcel(PM, lib[PM].msg) \in Post
  BY <1>1 DEF Post, Parcels, Carried, Reading
<1>3. Right(PM, lib[PM].msg)
  BY <1>2 DEF Estate, EntryInv, PostRight, Parcel
<1> QED
  BY <1>3 DEF Right

\* pmanager says no.
LEMMA RefuseRight ==
  ASSUME Estate, NEW q \in Pid, NEW msg, msg # NULL, Request(q, msg), msg.type # MSG_ADD,
         msg.type = MSG_INFO => msg.content \notin NamesOf(tree),
         NEW reply, reply.type = MSG_ERROR
  PROVE  Reply(q, reply)
<1>1. pc[q] \notin Adding
  BY AddsOnly
<1>2. pc[q] \in Leaving => InTree(q)
  BY DEF Request
<1>3. pc[q] \in Querying \union Looking /\ CleanName(Wanted(q)) => Wanted(q) \notin NamesOf(tree)
  BY DEF Request
<1> QED
  BY <1>1, <1>2, <1>3 DEF Reply

\* The text of a node has no ':' when its name has none.
LEMMA NodeUncoloned ==
  ASSUME NEW pid \in Nat, NEW ppid \in Nat, NEW name \in Str, CleanName(name),
         NEW content, content = proc_node_tostr(pid, ppid, name)
  PROVE  Len(content) > 0 /\ \A i \in 1..Len(content) : content[i] # Colon
<1>1. PICK head : head = <<pid, Semi, ppid, Semi>>
  OBVIOUS
<1>2. head \in Seq(Atom) /\ name \in Seq(Atom) /\ Len(head) = 4 /\ content = head \o name
  BY <1>1, AtomFacts DEF proc_node_tostr, Str
<1>3. \A i \in 1..4 : head[i] # Colon
  BY <1>1, AtomAssumption
<1>4. \A i \in 1..Len(name) : name[i] # Colon
  BY DEF CleanName
<1>5. /\ Len(content) = 4 + Len(name) /\ Len(name) \in Nat
      /\ \A i \in 1..Len(content) : content[i] = IF i <= 4 THEN head[i] ELSE name[i-4]
  <2>1. /\ Len(head \o name) = Len(head) + Len(name)
        /\ \A i \in 1..(Len(head) + Len(name)) :
             (head \o name)[i] = IF i <= Len(head) THEN head[i] ELSE name[i - Len(head)]
    BY <1>2, ConcatProperties
  <2>2. Len(name) \in Nat
    BY <1>2
  <2> QED
    BY <1>2, <2>1, <2>2
<1> QED
  BY <1>3, <1>4, <1>5

\* pmanager names the process of a name.
LEMMA InformRight ==
  ASSUME Estate, NEW q \in Pid, NEW msg, msg # NULL, Request(q, msg), msg.type = MSG_INFO,
         NEW i \in 1..Len(tree), tree[i].name = msg.content,
         NEW content, content = proc_node_tostr(tree[i].pid, tree[i].ppid, tree[i].name),
         NEW reply, reply = MessageOf(MessageText(PM, MSG_INFO, content)), reply # NULL,
         reply.type = MSG_INFO
  PROVE  Reply(q, reply)
<1>1. pc[q] \notin Adding
  BY AddsOnly, Types
<1>2. pc[q] \in Leaving => InTree(q)
  BY DEF Request
<1>3. ASSUME pc[q] \in Querying \union Looking, CleanName(Wanted(q))
      PROVE  /\ proc_node_fromstr(reply.content) # NULL
             /\ Entered(proc_node_fromstr(reply.content).pid, Wanted(q))
  <2>1. tree[i].name = Wanted(q)
    BY <1>3 DEF Request
  <2>2. PICK n \in TreeNode : n = tree[i]
    BY TreeTyped DEF Estate, House, CalmInv
  <2>3. n.pid \in Nat /\ n.ppid \in Nat /\ n.name \in Str /\ CleanName(n.name)
    BY <1>3, <2>1, <2>2 DEF TreeNode
  <2>4. content \in Str /\ content = proc_node_tostr(n.pid, n.ppid, n.name)
    BY <2>2, <2>3, AtomFacts, TextTypes
  <2>5. proc_node_fromstr(content) = [pid |-> n.pid, ppid |-> n.ppid, name |-> n.name]
    <3>1. Len(tokenize(n.name, Semi)) = 1 /\ tokenize(n.name, Semi)[1] = n.name
      BY <2>3, OneField DEF CleanName
    <3> QED
      BY <2>3, <2>4, <3>1, NodeSent
  <2>6. reply.content = content
    <3>1. reply = IF Len(tokenize(content, Colon)) = 1
                  THEN [sender |-> PM, type |-> MSG_INFO, content |-> tokenize(content, Colon)[1]]
                  ELSE NULL
      BY <2>4, Sent, PidFacts, AtomFacts DEF MsgType
    <3>2. reply.content = tokenize(content, Colon)[1]
      BY <3>1
    <3>3. Len(content) > 0 /\ \A k \in 1..Len(content) : content[k] # Colon
      BY <2>3, <2>4, NodeUncoloned
    <3>4. tokenize(content, Colon)[1] = content
      BY <2>4, <3>3, OneField
    <3> QED
      BY <3>2, <3>4
  <2>7. proc_node_fromstr(reply.content) = [pid |-> n.pid, ppid |-> n.ppid, name |-> n.name]
    BY <2>5, <2>6
  <2>8. proc_node_fromstr(reply.content) # NULL /\ proc_node_fromstr(reply.content).pid = n.pid
    <3>1. [pid |-> n.pid, ppid |-> n.ppid, name |-> n.name] \in ProcInfo
      BY <2>3 DEF ProcInfo
    <3> QED
      BY <2>7, <3>1, NullRecordAssumption
  <2> QED
    BY <2>1, <2>2, <2>8 DEF Entered
<1> QED
  BY <1>1, <1>2, <1>3 DEF Reply

LEMMA OutsiderSilent ==
  ASSUME NEW x, pc[x] \notin Asker \union Family
  PROVE  /\ pc[x] \notin Speaking
         /\ \A msg : Reply(x, msg)
<1>1. pc[x] \notin Speaking
  BY DEF Asker, Family, ChildPoints, Speaking, Leaving, Querying, Looking, Adding, Cloning
<1> QED
  BY <1>1 DEF Speaking, Reply

LEMMA SendNodeEntry ==
  ASSUME Estate, tree' = tree, pc[PM] \in {"handle", "list_ack"}, lib[PM].at = "ret",
         NEW to, to \in Pid => pc[to] \notin Asker \union Family,
         NEW procs \in Seq(TreeNode), procs # <<>>, SendNode(PM, to, procs)
  PROVE  EntryInv'
<1>1. TypeInv /\ PM \in Pid /\ mem[PM] \in MemType
  BY PidFacts, Shape DEF Estate, House, CalmInv, SoundMem
<1>2. PICK n \in TreeNode : n = Head(procs)
  OBVIOUS
<1>3. PICK content : content = proc_node_tostr(n.pid, n.ppid, n.name)
  OBVIOUS
<1>4. content \in Str
  BY <1>3, AtomFacts, TextTypes DEF TreeNode
<1>5. PICK l, m :
        /\ l = message_send(PM, to, MSG_INFO, content)
        /\ m = [mem[PM] EXCEPT !.peer = to, !.procs = Tail(procs)]
        /\ Goto(PM, "list_sent", l, m) /\ UNCHANGED <<parent, nextPid, fifo>>
  BY <1>2, <1>3 DEF SendNode
<1>6. m.peer = to
  BY <1>1, <1>5 DEF MemType
<1>7. TellsAt("list_sent", m)
  BY <1>6 DEF TellsAt
<1>8. MSG_INFO \in MsgType \ {MSG_ADD, MSG_REMOVE}
  BY AtomAssumption DEF MsgType
<1>9. ASSUME NEW msg, to \in Pid PROVE Reply(to, msg)
  BY <1>9, OutsiderSilent
<1> QED
  BY <1>4, <1>5, <1>7, <1>8, <1>9, AnswerEntry

LEMMA AckEntry ==
  ASSUME Estate, NEW p \in Pid, tree' = tree, GotAck(p)
  PROVE  EntryInv'
<1> USE DEF Estate, House
<1>0. /\ p = PM /\ PM \in Pid /\ TypeInv /\ lib[PM].at = "ret" /\ pc[PM] = "list_ack"
      /\ mem[PM] \in MemType
  BY Serves, Shape DEF GotAck, Ready, SoundMem
<1>1. mem[PM].peer \in Pid => pc[mem[PM].peer] \notin Asker \union Family
  BY <1>0 DEF KinInv, ListSound, EntryInv, ListsOnly
<1>2. CASE mem[PM].procs # <<>>
  <2>1. mem[PM].procs \in Seq(TreeNode)
    BY <1>0 DEF MemType
  <2> QED
    BY <1>0, <1>1, <1>2, <2>1, SendNodeEntry DEF GotAck
<1>3. CASE mem[PM].procs = <<>>
  <2>1. PICK to, l, m :
          /\ to = mem[PM].peer
          /\ l = message_send(PM, to, MSG_SUCCESS, <<Pad>>)
          /\ Goto(PM, "towait", l, m) /\ UNCHANGED <<parent, nextPid, fifo>>
    BY <1>0, <1>3 DEF GotAck
  <2>2. TellsAt("towait", m)
    BY DEF TellsAt
  <2>3. MSG_SUCCESS \in MsgType \ {MSG_ADD, MSG_REMOVE} /\ <<Pad>> \in Str
    BY AtomAssumption, AtomFacts DEF MsgType
  <2>4. ASSUME NEW msg, to \in Pid PROVE Reply(to, msg)
    BY <1>1, <2>1, <2>4, OutsiderSilent
  <2> QED
    BY <1>0, <2>1, <2>2, <2>3, <2>4, AnswerEntry
<1> QED
  BY <1>2, <1>3

\* Who asks for a list asks for nothing else.
LEMMA ListRequester ==
  ASSUME Estate, message_handler(PM), lib[PM].msg # NULL, lib[PM].msg.type = MSG_LIST,
         NEW q \in Pid, q = lib[PM].msg.sender
  PROVE  pc[q] \notin Asker \union Family
<1> USE DEF Estate, House
<1>0. /\ PM \in Pid /\ TypeInv /\ lib[PM].at = "ret" /\ pc[PM] = "handle"
      /\ SoundMessage(PM, lib[PM].msg)
  BY Serves, PidFacts DEF message_handler, Ready
<1>1. pc[q] \notin Family
  BY <1>0 DEF SoundMessage
<1>2. Request(q, lib[PM].msg)
  BY <1>0, ServedRequest
<1>3. pc[q] \notin Adding
  BY <1>2, AddsOnly, Types
<1>4. pc[q] \notin Querying \union Looking
  BY <1>2, Types DEF Request
<1>5. pc[q] \notin {"exec", "start"}
  <2>1. Only(PM, "busy")
    <3>1. Busy(PM)
      BY <1>0 DEF Busy, BusyAt, Receiving
    <3> QED
      BY <1>0, <3>1, BusyAlone DEF CalmInv
  <2> SUFFICES ASSUME pc[q] \in {"exec", "start"} PROVE FALSE
    OBVIOUS
  <2>2. q # PM
    BY <1>0
  <2>3. lib[q].at = "ret"
    BY <1>0, Shape
    DEF SoundLib, LibType, CallPoints, CalmInv, Order, Discipline, CallsOpen, OpenAt, Sending, Answering,
        Receiving
  <2>4. Busy(q)
    BY <2>3 DEF Busy, BusyAt
  <2> QED
    BY <2>1, <2>2, <2>4 DEF Only
<1> QED
  BY <1>1, <1>3, <1>4, <1>5 DEF Asker, Querying, Adding

\* The handlers that leave the tree as it is.
LEMMA AnswersEntry ==
  ASSUME Estate, tree' = tree, message_handler(PM),
         lib[PM].msg # NULL => lib[PM].msg.type \notin {MSG_ADD, MSG_REMOVE}
  PROVE  EntryInv'
<1> USE DEF Estate, House
<1>0. /\ PM \in Pid /\ TypeInv /\ lib[PM].at = "ret" /\ pc[PM] = "handle" /\ mem[PM] \in MemType
  BY Serves, PidFacts, Shape DEF message_handler, Ready, SoundMem
<1>1. CASE lib[PM].msg = NULL
  <2>1. Goto(PM, "towait", lib[PM], mem[PM]) /\ UNCHANGED <<parent, nextPid, fifo>>
    BY <1>0, <1>1 DEF message_handler
  <2>2. Mute("towait", lib[PM]) /\ TellsAt("towait", mem[PM])
    BY <1>0, MuteCalls DEF Reading, Hearing, TellsAt
  <2> QED
    BY <1>0, <2>1, <2>2, ManagerMoves DEF Managing, ManagerPoints
<1>2. CASE lib[PM].msg # NULL
  <2>0. PICK msg, i : msg = lib[PM].msg /\ i = proc_node_find_by_name(tree, msg.content)
    OBVIOUS
  <2>1. trees[PM] = tree /\ tree \in Seq(TreeNode)
    BY <1>0, TreeTyped DEF tree
  <2>2. msg.sender \in Pid => Request(msg.sender, msg)
    BY <1>0, <1>2, <2>0, ServedRequest
  <2>3. ASSUME Answer(PM, msg.sender, MSG_ERROR, <<Pad>>),
               msg.type = MSG_INFO => msg.content \notin NamesOf(tree)
        PROVE  EntryInv'
    <3>1. PICK to, l : /\ to = msg.sender
                       /\ l = message_send(PM, to, MSG_ERROR, <<Pad>>)
                       /\ Goto(PM, "towait", l, mem[PM]) /\ UNCHANGED <<parent, nextPid, fifo>>
      BY <2>3 DEF Answer
    <3>2. TellsAt("towait", mem[PM])
      BY DEF TellsAt
    <3>3. MSG_ERROR \in MsgType \ {MSG_ADD, MSG_REMOVE} /\ <<Pad>> \in Str
      BY AtomAssumption, AtomFacts DEF MsgType
    <3>4. ASSUME NEW reply, reply.type = MSG_ERROR, to \in Pid PROVE Reply(to, reply)
      BY <1>2, <2>0, <2>2, <2>3, <3>1, <3>4, RefuseRight
    <3> QED
      BY <1>0, <3>1, <3>2, <3>3, <3>4, AnswerEntry
  <2>4. CASE msg.type = MSG_INFO /\ msg_info_handler(PM, msg) /\ i # 0
    <3>1. i \in 1..Len(tree) /\ tree[i].name = msg.content
      BY <2>0, <2>1, <2>4, NameFound
    <3>2. PICK content : content = proc_node_tostr(tree[i].pid, tree[i].ppid, tree[i].name)
      OBVIOUS
    <3>3. content \in Str
      <4>1. PICK n \in TreeNode : n = tree[i]
        BY <2>1, <3>1
      <4> QED
        BY <3>2, <4>1, AtomFacts, TextTypes DEF TreeNode
    <3>4. PICK to, l : /\ to = msg.sender
                       /\ l = message_send(PM, to, MSG_INFO, content)
                       /\ Goto(PM, "towait", l, mem[PM]) /\ UNCHANGED <<parent, nextPid, fifo>>
      BY <2>0, <2>1, <2>4, <3>2 DEF msg_info_handler, Answer
    <3>5. TellsAt("towait", mem[PM])
      BY DEF TellsAt
    <3>6. MSG_INFO \in MsgType \ {MSG_ADD, MSG_REMOVE}
      BY AtomAssumption DEF MsgType
    <3>7. ASSUME NEW reply, reply = MessageOf(MessageText(PM, MSG_INFO, content)), reply # NULL,
                 reply.type = MSG_INFO, to \in Pid
          PROVE  Reply(to, reply)
      BY <1>2, <2>0, <2>2, <2>4, <3>1, <3>2, <3>4, <3>7, InformRight
    <3> QED
      BY <1>0, <3>3, <3>4, <3>5, <3>6, <3>7, AnswerEntry
  <2>5. CASE msg.type = MSG_LIST /\ msg_list_handler(PM, msg) /\ i # 0
    <3>1. i \in 1..Len(tree)
      BY <2>0, <2>1, <2>5, NameFound
    <3>2. PICK procs : procs = proc_node_get_array(tree, i)
      OBVIOUS
    <3>3. procs \in Seq(TreeNode) /\ procs # <<>>
      BY <2>1, <3>1, <3>2, ArrayTyped
    <3>4. SendNode(PM, msg.sender, procs)
      BY <2>0, <2>1, <2>5, <3>2 DEF msg_list_handler
    <3>5. msg.sender \in Pid => pc[msg.sender] \notin Asker \union Family
      BY <1>2, <2>0, <2>5, ListRequester
    <3> QED
      BY <1>0, <3>3, <3>4, <3>5, SendNodeEntry
  <2>6. \/ /\ Answer(PM, msg.sender, MSG_ERROR, <<Pad>>)
           /\ msg.type = MSG_INFO => msg.content \notin NamesOf(tree)
        \/ msg.type = MSG_INFO /\ msg_info_handler(PM, msg) /\ i # 0
        \/ msg.type = MSG_LIST /\ msg_list_handler(PM, msg) /\ i # 0
    <3>1. i = 0 => msg.content \notin NamesOf(tree)
      BY <2>0, <2>1, NameFound
    <3>2. i = 0 /\ msg_info_handler(PM, msg) => Answer(PM, msg.sender, MSG_ERROR, <<Pad>>)
      BY <2>0, <2>1 DEF msg_info_handler
    <3>3. i = 0 /\ msg_list_handler(PM, msg) => Answer(PM, msg.sender, MSG_ERROR, <<Pad>>)
      BY <2>0, <2>1 DEF msg_list_handler
    <3>4. MSG_INFO # MSG_LIST
      BY Types
    <3> QED
      BY <1>0, <1>2, <2>0, <3>1, <3>2, <3>3, <3>4 DEF message_handler
  <2> QED
    BY <2>3, <2>4, <2>5, <2>6
<1> QED
  BY <1>1, <1>2

-----------------------------------------------------------------------------
(***************************************************************************)
(* message_handler(), when it changes the tree.                            *)
(***************************************************************************)
\* What was in the tree is still there when another node is added.
LEMMA AddedKeeps ==
  ASSUME NEW t \in Seq(TreeNode), NEW pid \in Nat, NEW ppid \in Nat, NEW name \in Str,
         CanAdd(t, ppid), NEW new, new = proc_node_add(t, pid, ppid, name)
  PROVE  /\ Pids(t) \subseteq Pids(new)
         /\ \A k \in 1..Len(new) :
              \/ \E j \in 1..Len(t) : new[k] = t[j]
              \/ new[k].pid = pid /\ new[k].ppid = ppid /\ new[k].name = name
<1> DEFINE i == proc_node_find_by_pid(t, ppid)
           e == SubtreeEnd(t, i) + 1
           x == Node(pid, ppid, name, t[i].depth + 1)
<1>1. i \in 1..Len(t)
  BY FindByPid DEF CanAdd
<1>2. \A k \in 1..Len(t) : t[k].depth \in Nat
  <2>1. \A k \in 1..Len(t) : t[k] \in TreeNode
    OBVIOUS
  <2> QED
    BY <2>1 DEF TreeNode
<1>3. SubtreeEnd(t, i) \in i..Len(t)
  BY <1>1, <1>2, SubtreeEnds
<1>4. x \in TreeNode /\ x.pid = pid /\ x.ppid = ppid /\ x.name = name
  <2>1. t[i].depth + 1 \in Nat
    BY <1>1, <1>2
  <2> HIDE DEF i
  <2> QED
    BY <2>1, NodeTyped DEF Node
<1>5. new = InsertAt(t, e, x)
  BY DEF proc_node_add
<1>6. e \in 1..(Len(t) + 1)
  <2> HIDE DEF i
  <2> QED
    BY <1>1, <1>3
<1> HIDE DEF i, e, x
<1>7. /\ Len(new) = Len(t) + 1 /\ Len(t) \in Nat
      /\ \A k \in 1..(Len(t) + 1) :
           new[k] = IF k < e THEN t[k] ELSE IF k = e THEN x ELSE t[k-1]
  BY <1>4, <1>5, <1>6, Inserted
<1>8. ASSUME NEW j \in 1..Len(t) PROVE \E k \in 1..Len(new) : new[k] = t[j]
  <2>1. CASE j < e
    <3>1. j \in 1..Len(new) /\ j \in 1..(Len(t) + 1)
      BY <1>7
    <3> QED
      BY <1>7, <2>1, <3>1
  <2>2. CASE ~(j < e)
    <3>1. j + 1 \in 1..Len(new) /\ j + 1 \in 1..(Len(t) + 1) /\ ~(j + 1 < e) /\ j + 1 # e /\ j + 1 - 1 = j
      BY <1>6, <1>7, <2>2
    <3>2. new[j + 1] = t[j]
      BY <1>7, <3>1
    <3> QED
      BY <3>1, <3>2
  <2> QED
    BY <2>1, <2>2
<1>9. ASSUME NEW k \in 1..(Len(t) + 1) PROVE new[k] = x \/ \E j \in 1..Len(t) : new[k] = t[j]
  <2>1. CASE k < e
    <3>1. k \in 1..Len(t)
      BY <1>6, <1>7, <2>1
    <3> QED
      BY <1>7, <2>1, <3>1
  <2>2. CASE k = e
    BY <1>7, <2>2
  <2>3. CASE k > e
    <3>1. k - 1 \in 1..Len(t) /\ ~(k < e) /\ k # e
      BY <1>6, <1>7, <2>3
    <3> QED
      BY <1>7, <3>1
  <2> QED
    BY <1>6, <1>7, <2>1, <2>2, <2>3
<1>10. Pids(t) \subseteq Pids(new)
  BY <1>8 DEF Pids
<1> QED
  BY <1>4, <1>7, <1>9, <1>10

\* Nobody else leaves the tree when a node is removed.
LEMMA RemovedKeeps ==
  ASSUME NEW t \in Seq(TreeNode), NEW pid, CanRemove(t, pid), NEW new, new = proc_node_remove(t, pid)
  PROVE  /\ Pids(t) \subseteq Pids(new) \union {pid}
         /\ \A k \in 1..Len(new) : \E j \in 1..Len(t) : new[k] = t[j]
<1> DEFINE i == proc_node_find_by_pid(t, pid)
<1>1. i \in 1..Len(t) /\ t[i].pid = pid
  BY FindByPid DEF CanRemove
<1>2. new = RemoveAt(t, i)
  BY DEF proc_node_remove
<1> HIDE DEF i
<1>3. Len(t) \in Nat
  OBVIOUS
<1>4. /\ Len(new) = Len(t) - 1
      /\ \A k \in 1..(Len(t) - 1) : new[k] = IF k < i THEN t[k] ELSE t[k+1]
  BY <1>1, <1>2, Removed
<1>5. ASSUME NEW j \in 1..Len(t), j # i PROVE \E k \in 1..Len(new) : new[k] = t[j]
  <2>1. CASE j < i
    <3>1. j \in 1..(Len(t) - 1)
      BY <1>1, <1>3, <2>1
    <3> QED
      BY <1>4, <2>1, <3>1
  <2>2. CASE ~(j < i)
    <3>1. j - 1 \in 1..(Len(t) - 1) /\ ~(j - 1 < i) /\ j - 1 + 1 = j
      BY <1>1, <1>3, <1>5, <2>2
    <3>2. new[j - 1] = t[j]
      BY <1>4, <3>1
    <3> QED
      BY <1>4, <3>1, <3>2
  <2> QED
    BY <2>1, <2>2
<1>6. ASSUME NEW k \in 1..Len(new) PROVE \E j \in 1..Len(t) : new[k] = t[j]
  <2>1. k \in 1..(Len(t) - 1) /\ k \in 1..Len(t) /\ k + 1 \in 1..Len(t)
    BY <1>3, <1>4
  <2> QED
    BY <1>4, <2>1
<1>7. Pids(t) \subseteq Pids(new) \union {pid}
  BY <1>1, <1>5 DEF Pids
<1> QED
  BY <1>6, <1>7

\* No pid is on its way from pinfo to pclose or pspawn while pmanager serves a message.
LEMMA NobodyPrints ==
  ASSUME House, pc[PM] = "handle", lib[PM].at = "ret", NEW x \in Pid, pc[x] = "popen"
  PROVE  mem[x].peer = Pending
<1> USE DEF House
<1>1. TypeInv /\ PM \in Pid
  BY PidFacts DEF CalmInv
<1>2. Busy(PM)
  BY DEF Busy, BusyAt, Receiving
<1>3. Only(PM, "busy")
  BY <1>1, <1>2, BusyAlone DEF CalmInv
<1>4. lib[x].at = "ret"
  BY <1>1, Shape
  DEF SoundLib, LibType, CallPoints, CalmInv, Order, Discipline, CallsOpen, OpenAt, Sending, Answering,
      Receiving
<1>5. ~Busy(x)
  BY <1>3 DEF Only
<1> QED
  BY <1>4, <1>5 DEF Busy, BusyAt

\* pmanager has changed its tree and answers.
LEMMA TreeEntry ==
  ASSUME Estate, pc[PM] = "handle", lib[PM].at = "ret", NEW l, Goto(PM, "towait", l, mem[PM]),
         UNCHANGED <<parent, nextPid, fifo>>, NewRight(l),
         \A x \in Pids(tree) : x \in Pids(tree') \/ (x \in Pid /\ pc[x] \in Leaving)
  PROVE  EntryInv'
<1> USE DEF Estate, House
<1>1. TypeInv /\ AlonePost(PM) /\ PM \in Pid
  BY PidFacts, AlertAlone DEF CalmInv, Receiving
<1>2. /\ pc'[PM] = "towait" /\ lib'[PM] = l /\ mem' = mem
      /\ \A x \in Pid \ {PM} : pc'[x] = pc[x] /\ lib'[x] = lib[x]
  BY <1>1, Shape DEF Goto
<1>3. PostRight'
  <2>1. \A x \in Pid \ {PM} : Holding(x)
    BY <1>2, SameHolds
  <2>2. NewRight(lib'[PM])
    BY <1>2
  <2> QED
    BY <1>1, <2>1, <2>2, AloneRight
<1>4. ListsOnly'
  BY <1>2 DEF ListsOnly
<1>5. ASSUME NEW x \in Pid
      PROVE  KnowsAt(pc'[x], lib'[x], mem'[x]) /\ Delegated(x)' /\ Current(x)' /\ Named(x)' /\ Registered(x)'
  <2>1. KnowsAt(pc'[x], lib'[x], mem'[x])
    <3>1. CASE x = PM
      BY <1>2, <3>1, Unheeded DEF Hearing
    <3>2. CASE x # PM
      BY <1>2, <3>2 DEF EntryInv
    <3> QED
      BY <3>1, <3>2
  <2>2. Delegated(x)'
    <3>1. Delegated(x)
      BY DEF EntryInv
    <3> QED
      BY <1>2, <3>1 DEF Delegated, Looking
  <2>3. Current(x)'
    <3>1. pc'[x] = "popen" => mem[x].peer = Pending
      BY <1>2, NobodyPrints
    <3> QED
      BY <1>2, <3>1 DEF Current
  <2>4. Named(x)'
    <3>1. pc'[x] \in Adding => pc[x] \in Adding /\ Wanted(x)' = Wanted(x)
      BY <1>2 DEF Adding, Cloning, Wanted, CloneWork, NextName
    <3>2. Named(x)
      BY DEF EntryInv
    <3>3. \A kid \in Pid : pc'[kid] \in Belonging => pc[kid] \in Belonging
      BY <1>2 DEF Belonging, ChildPoints
    <3> QED
      BY <1>2, <3>1, <3>2, <3>3 DEF Named
  <2>5. Registered(x)'
    <3> SUFFICES ASSUME pc'[x] \in Belonging \ {"term_done"} PROVE Registered(x)'
      BY DEF Registered
    <3>1. x # PM /\ pc'[x] = pc[x]
      BY <1>2 DEF Belonging, ChildPoints
    <3>2. \/ InTree(x)
          \/ pc[x] \in Leaving
          \/ \E q \in Pid : pc[q] \in Adding /\ mem[q].kid = x
      BY <3>1 DEF EntryInv, Registered
    <3>3. CASE pc[x] \in Leaving
      BY <3>1, <3>3 DEF Registered
    <3>4. CASE InTree(x)
      <4>1. CASE x \in Pids(tree)
        BY <3>1, <3>3, <4>1 DEF Registered, InTree
      <4>2. CASE Unlistable(x, mem[x].name)
        BY <1>2, <4>2 DEF Registered, InTree
      <4> QED
        BY <3>4, <4>1, <4>2 DEF InTree
    <3>5. ASSUME NEW q \in Pid, pc[q] \in Adding, mem[q].kid = x PROVE Registered(x)'
      <4>1. q # PM
        BY <3>5 DEF Adding, Cloning
      <4> QED
        BY <1>2, <3>5, <4>1 DEF Registered
    <3> QED
      BY <3>2, <3>3, <3>4, <3>5
  <2> QED
    BY <2>1, <2>2, <2>3, <2>4, <2>5
<1> QED
  BY <1>3, <1>4, <1>5 DEF EntryInv

LEMMA AddEntry ==
  ASSUME Estate, pc[PM] = "handle", lib[PM].at = "ret", lib[PM].msg # NULL,
         lib[PM].msg.type = MSG_ADD, msg_add_handler(PM, lib[PM].msg)
  PROVE  EntryInv'
<1> USE DEF Estate, House
<1>0. TypeInv /\ PM \in Pid /\ Pid \subseteq Nat
  BY PidFacts DEF CalmInv
<1>1. PICK msg, q : msg = lib[PM].msg /\ q = msg.sender
  OBVIOUS
<1>2. PICK n, new : n = NodeToAdd(PM, msg.content) /\ new = tree'
  OBVIOUS
<1>3. PICK type, l :
        /\ type = IF n = NULL THEN MSG_ERROR ELSE MSG_SUCCESS
        /\ l = message_send(PM, q, type, <<Pad>>)
        /\ Goto(PM, "towait", l, mem[PM]) /\ UNCHANGED <<parent, nextPid, fifo>>
  BY <1>1, <1>2 DEF msg_add_handler, Answer
<1>4. /\ pc'[PM] = "towait" /\ mem' = mem
      /\ \A x \in Pid \ {PM} : pc'[x] = pc[x]
  BY <1>0, <1>3, Shape DEF Goto
<1>5. tree \in Seq(TreeNode)
  BY <1>0, TreeTyped
<1>6. n = NULL => new = tree
  BY <1>1, <1>2 DEF msg_add_handler, tree
<1>7. ASSUME n # NULL
      PROVE  /\ n = proc_node_fromstr(msg.content)
             /\ Pids(tree) \subseteq Pids(new) /\ n.pid \in Pids(new)
  <2>1. n = proc_node_fromstr(msg.content) /\ CanAdd(tree, n.ppid)
    BY <1>2, <1>7 DEF NodeToAdd, tree
  <2>2. n.pid \in Nat /\ n.ppid \in Nat /\ n.name \in Str
    <3>1. msg.content \in Str
      BY <1>0, <1>1, StateFacts DEF TypeInv
    <3>2. n \in ProcInfo
      BY <1>7, <2>1, <3>1, NodeDecoded
    <3> QED
      BY <3>2 DEF ProcInfo
  <2>3. new = proc_node_add(tree, n.pid, n.ppid, n.name)
    <3>1. trees' = [trees EXCEPT ![PM] = proc_node_add(trees[PM], n.pid, n.ppid, n.name)]
      BY <1>1, <1>2, <1>7 DEF msg_add_handler
    <3> QED
      BY <1>0, <1>2, <3>1 DEF tree, TypeInv, ManagerInv
  <2>4. Has(new, n.pid, n.ppid, n.name) /\ Pids(tree) \subseteq Pids(new)
    BY <1>5, <2>1, <2>2, <2>3, AddedPids, AddedKeeps
  <2>5. n.pid \in Pids(new)
    BY <2>4 DEF Has, Pids
  <2> QED
    BY <2>1, <2>4, <2>5
<1>8. ASSUME NEW reply, reply.type = type, q \in Pid PROVE Reply(q, reply)'
  <2>1. Request(q, msg)
    BY <1>1, <1>8, ServedRequest
  <2>2. pc[q] \in Adding
    BY <1>1, <2>1 DEF Request
  <2>3. PICK kid, ppid, name, content :
          /\ kid = mem[q].kid /\ name = Wanted(q) /\ kid \in Pid /\ name \in Str
          /\ ppid = IF pc[q] \in Cloning THEN q ELSE PM
          /\ content = proc_node_tostr(kid, ppid, name)
          /\ msg = MessageOf(MessageText(q, MSG_ADD, content))
    BY <1>1, <1>8, <2>1, <2>2, AddsOnly
  <2>4. q # PM /\ pc'[q] = pc[q]
    BY <1>4, <1>8, <2>2 DEF Adding, Cloning
  <2>5. Wanted(q)' = name
    BY <1>4, <2>3, <2>4 DEF Wanted, NextName
  <2>6. \/ proc_node_fromstr(msg.content) = NULL
        \/ proc_node_fromstr(msg.content).pid = kid /\ proc_node_fromstr(msg.content).ppid = ppid
    <3>1. q \in Nat /\ kid \in Nat /\ ppid \in Nat /\ MSG_ADD \in MsgType
      BY <1>0, <1>8, <2>3 DEF MsgType
    <3>2. msg # NULL
      BY <1>1
    <3>3. PICK type2 : type2 = MSG_ADD
      OBVIOUS
    <3> QED
      BY <2>3, <3>1, <3>2, <3>3, NodeCarried
  <2>7. n # NULL => type = MSG_SUCCESS /\ kid \in Pids(new)
    BY <1>3, <1>7, <2>6
  <2>8. n = NULL /\ pc[q] \notin Cloning => Unlistable(kid, name)
    <3> SUFFICES ASSUME n = NULL, pc[q] \notin Cloning PROVE Unlistable(kid, name)
      OBVIOUS
    <3>1. CanAdd(tree, PM)
      <4>1. PM \in Pids(tree)
        BY DEF Rooted, Pids
      <4>2. PICK i : i = proc_node_find_by_pid(tree, PM)
        OBVIOUS
      <4>3. i # 0
        BY <1>5, <4>1, <4>2, FindByPid
      <4> QED
        BY <4>2, <4>3 DEF CanAdd
    <3>2. ppid = PM
      BY <2>3
    <3>3. proc_node_fromstr(msg.content) = NULL
      BY <1>2, <2>6, <3>1, <3>2 DEF NodeToAdd, tree
    <3> QED
      BY <1>1, <1>8, <2>3, <3>2, <3>3 DEF Unlistable
  <2>9. mem'[q].kid = kid
    BY <1>4, <2>3
  <2>10. pc'[q] \in Adding /\ pc'[q] \notin Leaving \union Querying \union Looking
    BY <2>2, <2>4 DEF Adding, Cloning, Leaving, Querying, Looking
  <2> QED
    BY <1>2, <1>3, <1>8, <2>4, <2>5, <2>7, <2>8, <2>9, <2>10 DEF Reply
<1>9. NewRight(l)
  <2>1. type \in MsgType \ {MSG_ADD, MSG_REMOVE} /\ <<Pad>> \in Str
    BY <1>3, AtomAssumption, AtomFacts DEF MsgType
  <2>2. pc'[PM] \in Managing
    BY <1>4 DEF Managing, ManagerPoints
  <2> QED
    BY <1>0, <1>3, <1>8, <2>1, <2>2, AnswerRight
<1>10. \A x \in Pids(tree) : x \in Pids(tree')
  BY <1>2, <1>6, <1>7
<1> QED
  BY <1>3, <1>9, <1>10, TreeEntry

LEMMA RemoveEntry ==
  ASSUME Estate, pc[PM] = "handle", lib[PM].at = "ret", lib[PM].msg # NULL,
         lib[PM].msg.type = MSG_REMOVE, msg_remove_handler(PM, lib[PM].msg)
  PROVE  EntryInv'
<1> USE DEF Estate, House
<1>0. TypeInv /\ PM \in Pid
  BY PidFacts DEF CalmInv
<1>1. PICK msg, q : msg = lib[PM].msg /\ q = msg.sender
  OBVIOUS
<1>2. PICK new : new = tree'
  OBVIOUS
<1>3. PICK type, l :
        /\ type = IF CanRemove(tree, q) THEN MSG_SUCCESS ELSE MSG_ERROR
        /\ l = message_send(PM, q, type, <<Pad>>)
        /\ Goto(PM, "towait", l, mem[PM]) /\ UNCHANGED <<parent, nextPid, fifo>>
  BY <1>1 DEF msg_remove_handler, Answer, tree
<1>4. /\ pc'[PM] = "towait" /\ mem' = mem
      /\ \A x \in Pid \ {PM} : pc'[x] = pc[x]
  BY <1>0, <1>3, Shape DEF Goto
<1>5. tree \in Seq(TreeNode)
  BY <1>0, TreeTyped
<1>6. ~CanRemove(tree, q) => new = tree
  BY <1>1, <1>2 DEF msg_remove_handler, tree
<1>7. ASSUME CanRemove(tree, q) PROVE Pids(tree) \subseteq Pids(new) \union {q} /\ q \in Pids(tree)
  <2>1. new = proc_node_remove(tree, q)
    <3>1. trees' = [trees EXCEPT ![PM] = proc_node_remove(trees[PM], q)]
      BY <1>1, <1>7 DEF msg_remove_handler, tree
    <3> QED
      BY <1>0, <1>2, <3>1 DEF tree, TypeInv, ManagerInv
  <2>2. PICK i : i = proc_node_find_by_pid(tree, q)
    OBVIOUS
  <2>3. i # 0
    BY <1>7, <2>2 DEF CanRemove
  <2>4. q \in Pids(tree)
    <3>1. (i = 0 /\ q \notin Pids(tree)) \/ (i \in 1..Len(tree) /\ tree[i].pid = q)
      BY <1>5, <2>2, FindByPid
    <3> QED
      BY <2>3, <3>1 DEF Pids
  <2> QED
    BY <1>5, <1>7, <2>1, <2>4, RemovedKeeps
<1>8. ASSUME q \in Pid PROVE pc[q] \in Leaving /\ InTree(q)
  <2>1. Request(q, msg)
    BY <1>1, <1>8, ServedRequest
  <2> QED
    BY <1>1, <2>1 DEF Request
<1>9. ASSUME NEW reply, reply.type = type, q \in Pid PROVE Reply(q, reply)'
  <2>1. pc[q] \in Leaving /\ InTree(q)
    BY <1>8, <1>9
  <2>2. q # PM /\ pc'[q] = pc[q]
    BY <1>4, <1>9, <2>1 DEF Leaving
  <2>3. pc'[q] \notin Querying \union Looking \union Adding
    BY <2>1, <2>2 DEF Adding, Cloning, Leaving, Querying, Looking
  <2>4. reply.type # MSG_SUCCESS => InTree(q)'
    BY <1>2, <1>3, <1>4, <1>6, <1>9, <2>1 DEF InTree
  <2> QED
    BY <2>3, <2>4 DEF Reply
<1>10. NewRight(l)
  <2>1. type \in MsgType \ {MSG_ADD, MSG_REMOVE} /\ <<Pad>> \in Str
    BY <1>3, AtomAssumption, AtomFacts DEF MsgType
  <2>2. pc'[PM] \in Managing
    BY <1>4 DEF Managing, ManagerPoints
  <2> QED
    BY <1>0, <1>3, <1>9, <2>1, <2>2, AnswerRight
<1>11. ASSUME NEW x \in Pids(tree) PROVE x \in Pids(tree') \/ (x \in Pid /\ pc[x] \in Leaving)
  <2>1. x \in Pid
    BY NodesArePids DEF RequestInv
  <2>2. CASE CanRemove(tree, q) /\ x = q
    BY <1>8, <2>1, <2>2
  <2>3. CASE ~CanRemove(tree, q) \/ x # q
    BY <1>2, <1>6, <1>7, <2>3
  <2> QED
    BY <2>2, <2>3
<1> QED
  BY <1>3, <1>10, <1>11, TreeEntry

LEMMA HandlerEntry ==
  ASSUME Estate, NEW p \in Pid, message_handler(p)
  PROVE  EntryInv'
<1> USE DEF Estate, House
<1>1. p = PM /\ pc[PM] = "handle" /\ lib[PM].at = "ret"
  BY Serves DEF message_handler, Ready
<1>2. CASE lib[PM].msg # NULL /\ lib[PM].msg.type = MSG_ADD
  <2>1. msg_add_handler(PM, lib[PM].msg)
    BY <1>1, <1>2, Types DEF message_handler
  <2> QED
    BY <1>1, <1>2, <2>1, AddEntry
<1>3. CASE lib[PM].msg # NULL /\ lib[PM].msg.type = MSG_REMOVE
  <2>1. msg_remove_handler(PM, lib[PM].msg)
    BY <1>1, <1>3, Types, AtomAssumption DEF message_handler
  <2> QED
    BY <1>1, <1>3, <2>1, RemoveEntry
<1>4. CASE lib[PM].msg # NULL => lib[PM].msg.type \notin {MSG_ADD, MSG_REMOVE}
  <2>1. tree' = tree
    <3>1. trees' = trees
      BY <1>1, <1>4 DEF message_handler, msg_info_handler, msg_list_handler, SendNode, managerVars
    <3> QED
      BY <3>1 DEF tree
  <2> QED
    BY <1>1, <1>4, <2>1, AnswersEntry
<1> QED
  BY <1>2, <1>3, <1>4

-----------------------------------------------------------------------------
(***************************************************************************)
(* The exchange of messages and the signals.                               *)
(***************************************************************************)
\* What is read was on its way, and comes from whoever is waited for.
LEMMA TextRead ==
  ASSUME House, NEW p \in Pid, ReadText(p)
  PROVE  /\ lib'[p].at = "reset" /\ lib'[p].pid = lib[p].pid
         /\ \E text \in Str :
              /\ lib'[p].msg = MessageOf(text) /\ Parcel(p, MessageOf(text)) \in Parcels
              /\ lib[p].pid = PM => Signed(text, PM)
<1> USE DEF House
<1>1. /\ TypeInv /\ lib \in [Pid -> SoundLib] /\ lib[p] \in LibType /\ fifo \in Seq(LetterType)
      /\ TextAt(p) /\ OpenAt(pc[p], lib[p])
  <2>1. lib \in [Pid -> SoundLib] /\ fifo \in Seq(LetterType) /\ TypeInv
    BY Shape DEF CalmInv, TypeInv, KernelInv
  <2> QED
    BY <2>1 DEF SoundLib, TextInv, CalmInv, Order, Discipline, CallsOpen
<1>2. Len(fifo) = 1 /\ fifo[1].to = p /\ ReadToEnd(p) /\ lib[p].at = "read" /\ lib[p].text = <<>>
  BY <1>1, ReadsWhole DEF ReadText, TextAt
<1>3. PICK text : text = fifo[1].text
  OBVIOUS
<1>4. text \in Str /\ fifo[1] = Head(fifo)
  <2>1. ASSUME NEW S, NEW s \in Seq(S), Len(s) = 1 PROVE s[1] \in S /\ s[1] = Head(s)
    BY <2>1
  <2>2. fifo[1] \in LetterType /\ fifo[1] = Head(fifo)
    BY <1>1, <1>2, <2>1
  <2> QED
    BY <1>3, <2>2 DEF LetterType
<1>5. lib[p].text \o Head(fifo).text = text
  BY <1>2, <1>3, <1>4 DEF Str
<1>6. lib'[p].at = "reset" /\ lib'[p].msg = MessageOf(text) /\ lib'[p].pid = lib[p].pid
  BY <1>1, <1>2, <1>5 DEF ReadToEnd, LibType
<1>7. Parcel(p, MessageOf(text)) \in Parcels
  <2>1. 1..Len(fifo) = {1}
    BY <1>2
  <2>2. Parcel(p, MessageOf(text)) \in OnItsWay
    BY <1>2, <1>3, <2>1 DEF OnItsWay
  <2> QED
    BY <2>2 DEF Parcels
<1>8. lib[p].pid = PM => Signed(text, PM)
  <2>1. lib[p].unread_flag
    BY <1>1, <1>2 DEF OpenAt
  <2>2. lib[p].pid = PM => lib[p].message_sender = PM
    BY <1>1, <1>2 DEF TextAt, PM, NoPid
  <2> QED
    BY <1>1, <1>2, <1>3, <2>1, <2>2 DEF TextAt, Holds
<1> QED
  BY <1>4, <1>6, <1>7, <1>8

LEMMA CallKnows ==
  ASSUME Estate, NEW p \in Pid, MessageStep(p), ~TextLost(p), mem' = mem, pc' = pc
  PROVE  KnowsAt(pc[p], lib'[p], mem[p])
<1> USE DEF Estate, House
<1>1. /\ KnowsAt(pc[p], lib[p], mem[p]) /\ lib[p] \in LibType /\ lib \in [Pid -> SoundLib]
      /\ OpenAt(pc[p], lib[p])
  BY Shape DEF EntryInv, CalmInv, SoundLib, Order, Discipline, CallsOpen
<1>2. CASE WriteText(p)
  <2>1. lib'[p].at = "kill"
    BY <1>1, <1>2 DEF WriteText, LibType
  <2> QED
    BY <2>1 DEF KnowsAt, HeedsAt, DeliveredAt
<1>3. CASE NotifyReceiver(p)
  <2>1. Exists(lib[p].pid)
    BY <1>3 DEF TextLost
  <2>2. lib[p].at = "kill" /\ lib'[p].status = 0
    BY <1>1, <1>3, <2>1 DEF NotifyReceiver, LibType
  <2>3. pc[p] \notin Hearing \union {"clone_reply"}
    BY <1>1, <2>2 DEF OpenAt, Sending, Answering, Hearing
  <2> QED
    BY <2>2, <2>3 DEF KnowsAt, HeedsAt, DeliveredAt, Hearing
<1>4. CASE CheckFlags(p) \/ Suspend(p)
  <2>1. /\ lib[p].at \in {"check", "suspend"} /\ lib'[p].at \in {"read", "suspend", "asleep"}
        /\ lib'[p].pid = lib[p].pid
    BY <1>1, <1>4 DEF CheckFlags, Suspend, LibType
  <2> QED
    BY <1>1, <2>1 DEF KnowsAt, HeedsAt, DeliveredAt
<1>5. CASE ReadText(p)
  <2>1. PICK text \in Str :
          /\ lib'[p].msg = MessageOf(text) /\ Parcel(p, MessageOf(text)) \in Parcels
          /\ lib[p].pid = PM => Signed(text, PM)
    BY <1>5, TextRead
  <2>2. lib'[p].at = "reset" /\ lib[p].at = "read"
    BY <1>5, TextRead DEF ReadText
  <2>3. lib[p].pid = PM /\ lib'[p].msg # NULL => lib'[p].msg.sender = PM
    <3>1. PM \in Nat
      BY DEF PM
    <3> QED
      BY <2>1, <3>1, SignedSender
  <2>4. pc[p] = "pnew_added" => lib'[p].msg # NULL
    <3> SUFFICES ASSUME pc[p] = "pnew_added" PROVE lib'[p].msg # NULL
      OBVIOUS
    <3>1. p # PM
      BY PidFacts DEF CalmInv, Order, Discipline, OneManager, Managing, ManagerPoints
    <3>2. PICK parcel \in Parcels : parcel.to = p /\ parcel.msg = lib'[p].msg
      BY <2>1 DEF Parcel
    <3>3. Sound(parcel)
      BY DEF KinInv, ParcelsSound
    <3> QED
      BY <3>1, <3>2, <3>3 DEF Sound
  <2> QED
    BY <1>1, <2>2, <2>3, <2>4 DEF KnowsAt, HeedsAt, DeliveredAt
<1>6. CASE ResetFlags(p)
  <2>1. lib[p].at = "reset" /\ lib'[p].at = "ret" /\ lib'[p].msg = lib[p].msg
    BY <1>1, <1>6 DEF ResetFlags, LibType
  <2>2. pc[p] # "pnew_sent"
    BY <1>1, <2>1 DEF OpenAt, Receiving
  <2> QED
    BY <1>1, <2>1, <2>2 DEF KnowsAt, HeedsAt, DeliveredAt
<1> QED
  BY <1>2, <1>3, <1>4, <1>5, <1>6 DEF MessageStep

LEMMA CallEntry ==
  ASSUME Estate, NEW p \in Pid, tree' = tree, MessageStep(p), ~TextLost(p)
  PROVE  EntryInv'
<1> USE DEF Estate, House
<1>1. /\ TypeInv /\ lib[p] \in LibType /\ lib \in [Pid -> SoundLib] /\ UNCHANGED <<pc, mem>>
      /\ \A x \in Pid \ {p} : lib'[x] = lib[x]
      /\ Parcels' \subseteq Parcels
  BY MessageParcels
<1>2. UNCHANGED <<parent, nextPid>>
  BY DEF MessageStep, WriteText, NotifyReceiver, CheckFlags, Suspend, ReadText, ResetFlags
<1>3. Post' \subseteq Post
  <2>1. \A x \in Pid \ {p} : Heard(x)' = Heard(x)
    BY <1>1 DEF Heard
  <2>2. Heard(p)' \subseteq Post
    <3> SUFFICES ASSUME pc[p] \in Hearing, lib'[p].at = "ret", lib'[p].msg # NULL
                 PROVE  Parcel(p, lib'[p].msg) \in Post
      BY <1>1 DEF Heard
    <3>1. OpenAt(pc[p], lib[p])
      BY DEF CalmInv, Order, Discipline, CallsOpen
    <3>2. ResetFlags(p)
      <4>1. lib[p].at \notin {"write", "kill"}
        BY <3>1 DEF OpenAt, Hearing, Sending, Answering
      <4>2. ~CheckFlags(p) /\ ~Suspend(p)
        BY <1>1 DEF CheckFlags, Suspend, LibType
      <4>3. ~ReadText(p)
        BY TextRead
      <4> QED
        BY <4>1, <4>2, <4>3 DEF MessageStep, WriteText, NotifyReceiver
    <3>3. lib[p].at = "reset" /\ lib'[p].msg = lib[p].msg
      BY <1>1, <3>2 DEF ResetFlags, LibType
    <3> QED
      BY <3>3 DEF Post, Parcels, Carried
  <2>3. \A x \in Pid : Heard(x)' \subseteq Post
    BY <2>1, <2>2 DEF Post
  <2> QED
    BY <1>1, <2>3 DEF Post
<1>4. \A x \in Pid : Same(x)
  BY <1>1, IdleIsSame
<1>5. PostRight'
  BY <1>3, <1>4, PostStays DEF EntryInv
<1>6. Tells
  BY <1>1, TellsStay
<1>7. \A x \in Pid \ {p} : Continues(x)
  BY <1>1, <1>2, IdleContinues
<1>8. Continues(p)
  <2>1. KnowsAt(pc'[p], lib'[p], mem'[p])
    BY <1>1, CallKnows
  <2>2. Wanted(p)' = Wanted(p)
    BY <1>1 DEF Wanted, NextName
  <2> QED
    BY <1>1, <1>2, <2>1, <2>2 DEF Continues, Inherits, Pursues, HoldsPid, KeepsKid, StaysListed, Asker
<1> QED
  BY <1>2, <1>5, <1>6, <1>7, <1>8, EntryStays

\* A handler that only leaves a flag.
LEMMA WokenEntry ==
  ASSUME Estate, NEW p \in Pid, UNCHANGED <<parent, nextPid, fifo>>, tree' = tree,
         pc[p] \notin Gone, ~Busy(p) \/ pc[p] \in ChildPoints,
         pc'[p] \in AfterSignal(p),
         \A x \in Pid \ {p} :
           /\ lib'[x] = lib[x] /\ mem'[x] = mem[x]
           /\ pc'[x] = pc[x] \/ (pc[x] = "zombie" /\ pc'[x] = "dead"),
         lib'[p].at = WokenAt(lib[p].at), lib'[p].pid = lib[p].pid,
         lib'[p].msg = lib[p].msg, lib'[p].text = lib[p].text, lib'[p].status = lib[p].status,
         mem'[p].peer = mem[p].peer, mem'[p].name = mem[p].name, mem'[p].kid = mem[p].kid,
         mem'[p].clones_count = mem[p].clones_count
  PROVE  EntryInv'
<1> USE DEF Estate, House
<1>1. \/ pc'[p] = pc[p]
      \/ pc[p] = "asleep" /\ pc'[p] = "flag"
      \/ pc[p] = "waitpid" /\ pc'[p] = "poll"
  BY HandlerPoint
<1>2. \/ lib'[p].at = lib[p].at
      \/ lib[p].at = "asleep" /\ lib'[p].at = "check"
  BY DEF WokenAt
<1>3. \A x \in Pid : Same(x)
  <2>1. \A x \in Pid \ {p} : Same(x)
    BY IdleIsSame
  <2>2. Same(p)
    BY <1>1 DEF Same, Leaving, Looking, Cloning, Speaking, Querying, Adding
  <2> QED
    BY <2>1, <2>2
<1>4. PostRight'
  <2>1. \A x \in Pid \ {p} : Holding(x)
    BY SameHolds
  <2>2. Holding(p)
    BY <1>1, <1>2 DEF Holding, Carried, Heard, Reading, Hearing
  <2> QED
    BY <1>3, <2>1, <2>2, PostShrinks, PostStays DEF EntryInv
<1>5. Tells
  <2>1. CASE p = PM
    BY <1>1, <2>1, TellsStay
  <2>2. CASE p # PM
    <3>1. pc'[PM] = pc[PM] \/ (pc[PM] = "zombie" /\ pc'[PM] = "dead")
      BY <2>2, PidFacts
    <3>2. mem'[PM] = mem[PM]
      BY <2>2, PidFacts
    <3> QED
      BY <3>1, <3>2, TellsStay
  <2> QED
    BY <2>1, <2>2
<1>6. \A x \in Pid \ {p} : Continues(x)
  BY IdleContinues
<1>7. Continues(p)
  <2>1. KnowsAt(pc[p], lib[p], mem[p])
    BY DEF EntryInv
  <2>2. KnowsAt(pc'[p], lib'[p], mem'[p])
    BY <1>1, <1>2, <2>1 DEF KnowsAt, HeedsAt, DeliveredAt, Hearing
  <2>3. Wanted(p)' = Wanted(p)
    BY <1>1 DEF Wanted, NextName, CloneWork, Cloning
  <2> QED
    BY <1>1, <2>2, <2>3
    DEF Continues, Inherits, Pursues, HoldsPid, KeepsKid, StaysListed, Asker, Belonging, ChildPoints,
        Adding, Cloning, Looking, Leaving, Family
<1> QED
  BY <1>4, <1>5, <1>6, <1>7, EntryStays

LEMMA HandlersEntry ==
  ASSUME Estate, NEW p \in Pid, tree' = tree,
         set_unread_flag(p) \/ sigterm_handler(p) \/ remove_zombie(p)
  PROVE  EntryInv'
<1> USE DEF Estate, House
<1>1. /\ TypeInv /\ pc \in [Pid -> Points] /\ lib \in [Pid -> SoundLib] /\ lib[p] \in LibType
      /\ mem \in [Pid -> SoundMem] /\ mem[p] \in MemType
  BY Shape DEF CalmInv, SoundLib, SoundMem
<1>2. CASE set_unread_flag(p)
  <2>1. /\ UNCHANGED <<parent, nextPid, fifo, mem>> /\ pc[p] \notin Gone
        /\ \E point \in AfterSignal(p) : pc' = [pc EXCEPT ![p] = point]
        /\ lib'[p].at = WokenAt(lib[p].at) /\ lib'[p].pid = lib[p].pid
        /\ lib'[p].text = lib[p].text /\ lib'[p].msg = lib[p].msg /\ lib'[p].status = lib[p].status
        /\ \A x \in Pid \ {p} : lib'[x] = lib[x]
    BY <1>1, <1>2 DEF set_unread_flag, Alive, LibType
  <2>2. HasTurn(p, "usr1") /\ "usr1" \in Claims
    BY <1>2 DEF set_unread_flag, HasTurn, Claims
  <2>3. Only(p, "usr1")
    BY <2>2, Holder DEF CalmInv, Turn
  <2>4. ~Busy(p)
    BY <2>3 DEF Only
  <2>5. pc'[p] \in AfterSignal(p) /\ \A x \in Pid \ {p} : pc'[x] = pc[x]
    BY <1>1, <2>1
  <2> QED
    BY <2>1, <2>4, <2>5, WokenEntry
<1>3. CASE sigterm_handler(p)
  <2>1. /\ UNCHANGED <<parent, nextPid, fifo>> /\ pc[p] \in ChildPoints
        /\ \E point \in AfterSignal(p) : pc' = [pc EXCEPT ![p] = point]
        /\ lib'[p].at = WokenAt(lib[p].at) /\ lib'[p].pid = lib[p].pid
        /\ lib'[p].text = lib[p].text /\ lib'[p].msg = lib[p].msg /\ lib'[p].status = lib[p].status
        /\ \A x \in Pid \ {p} : lib'[x] = lib[x]
    BY <1>1, <1>3 DEF sigterm_handler, LibType
  <2>2. /\ mem'[p].peer = mem[p].peer /\ mem'[p].name = mem[p].name /\ mem'[p].kid = mem[p].kid
        /\ mem'[p].clones_count = mem[p].clones_count
        /\ \A x \in Pid \ {p} : mem'[x] = mem[x]
    BY <1>1, <1>3 DEF sigterm_handler, MemType
  <2>3. pc'[p] \in AfterSignal(p) /\ \A x \in Pid \ {p} : pc'[x] = pc[x]
    BY <1>1, <2>1
  <2>4. pc[p] \notin Gone
    BY <2>1 DEF ChildPoints, Gone
  <2> QED
    BY <2>1, <2>2, <2>3, <2>4, WokenEntry
<1>4. CASE remove_zombie(p)
  <2>1. /\ UNCHANGED <<parent, nextPid, fifo, mem>> /\ pc[p] \in ChildPoints
        /\ lib'[p].at = WokenAt(lib[p].at) /\ lib'[p].pid = lib[p].pid
        /\ lib'[p].text = lib[p].text /\ lib'[p].msg = lib[p].msg /\ lib'[p].status = lib[p].status
        /\ \A x \in Pid \ {p} : lib'[x] = lib[x]
    BY <1>1, <1>4 DEF remove_zombie, LibType
  <2>2. PICK q \in Zombies(p), point \in AfterSignal(p) : pc' = [pc EXCEPT ![q] = "dead", ![p] = point]
    BY <1>4 DEF remove_zombie
  <2>3. q \in Pid /\ pc[q] = "zombie"
    BY DEF Zombies
  <2>4. /\ pc'[p] \in AfterSignal(p)
        /\ \A x \in Pid \ {p} : pc'[x] = pc[x] \/ (pc[x] = "zombie" /\ pc'[x] = "dead")
    BY <1>1, <2>2, <2>3
  <2>5. pc[p] \notin Gone
    BY <2>1 DEF ChildPoints, Gone
  <2> QED
    BY <2>1, <2>4, <2>5, WokenEntry
<1> QED
  BY <1>2, <1>3, <1>4

LEMMA BootEntry ==
  ASSUME Estate, NEW p \in Pid, tree' = tree, KilledAtBoot(p)
  PROVE  EntryInv'
<1> USE DEF Estate, House
<1>1. /\ pc[p] = "boot" /\ UNCHANGED <<parent, nextPid, fifo>>
      /\ pc'[p] = "killed" /\ lib'[p] = BlankLib
      /\ \A x \in Pid \ {p} : pc'[x] = pc[x] /\ lib'[x] = lib[x] /\ mem'[x] = mem[x]
  BY Shape DEF CalmInv, KilledAtBoot
<1>2. p # PM /\ PM \in Pid
  BY <1>1, Manager, PidFacts DEF CalmInv, Managing, ManagerPoints
<1>3. \A x \in Pid : Same(x)
  <2>1. \A x \in Pid \ {p} : Same(x)
    BY <1>1, IdleIsSame
  <2>2. pc[p] \notin Speaking /\ pc'[p] \notin Speaking
    BY <1>1 DEF Speaking, Leaving, Querying, Looking, Adding, Cloning
  <2> QED
    BY <2>1, <2>2, SilentIsSame
<1>4. PostRight'
  <2>1. \A x \in Pid \ {p} : Holding(x)
    BY <1>1, SameHolds
  <2>2. Mute(pc'[p], lib'[p])
    BY <1>1 DEF Mute, Empty, BlankLib, Reading, Hearing
  <2>3. Holding(p)
    BY <2>2, MuteHolds DEF Holding
  <2> QED
    BY <1>1, <1>3, <2>1, <2>3, PostShrinks, PostStays DEF EntryInv
<1>5. Tells
  BY <1>1, <1>2, TellsStay
<1>6. \A x \in Pid \ {p} : Continues(x)
  BY <1>1, IdleContinues
<1>7. Continues(p)
  <2>1. KnowsAt(pc'[p], lib'[p], mem'[p])
    BY <1>1 DEF KnowsAt, HeedsAt, DeliveredAt, Hearing
  <2> QED
    BY <1>1, <2>1
    DEF Continues, Inherits, Pursues, HoldsPid, KeepsKid, StaysListed, Asker, Belonging, ChildPoints,
        Adding, Cloning, Looking, Leaving
<1> QED
  BY <1>1, <1>4, <1>5, <1>6, <1>7, EntryStays

LEMMA EndEntry ==
  ASSUME Estate, NEW p \in Pid, tree' = tree, terminate(p)
  PROVE  EntryInv'
<1> USE DEF Estate, House
<1>1. /\ TypeInv /\ pc[p] \in ManagerPoints /\ ~sig[p].int /\ lib[p] \in LibType /\ PM \in Pid
      /\ fifo' = fifo
  BY Shape, PidFacts DEF CalmInv, Order, Discipline, NoInterrupt, terminate, SoundLib
<1>2. sig[p].term # NoPid
  BY <1>1 DEF terminate, Deliverable
<1>3. HasTurn(p, "term") /\ "term" \in Claims
  BY <1>2 DEF HasTurn, Claims
<1>4. Only(p, "term")
  BY <1>3, Holder DEF CalmInv, Turn
<1>5. ~Busy(p)
  BY <1>4 DEF Only
<1>6. pc[p] # "exec"
  BY <1>1, <1>5
  DEF Busy, BusyAt, CalmInv, Order, Discipline, CallsOpen, OpenAt, LibType, CallPoints, Sending,
      Answering, Receiving
<1>7. p = PM /\ pc[p] \in Managing
  BY <1>1, <1>6, Manager DEF CalmInv, Managing
<1>8. CASE Exit(p) /\ DropTree(p)
  <2>1. /\ pc[p] \notin Gone \union (Belonging \ {"term_done"}) \union Adding
        /\ pc[p] \notin Speaking
    BY <1>7 DEF Managing, ManagerPoints, Gone, Belonging, ChildPoints, Adding, Cloning, Speaking, Leaving,
         Querying, Looking
  <2> QED
    BY <1>1, <1>8, <2>1, ExitEntry DEF Exit
<1>9. ASSUME NEW s, NEW l, NEW m, Goto(PM, "cleanup", l, m), UNCHANGED <<parent, nextPid>>,
             l = [lib[p] EXCEPT !.at = "ret", !.pid = NoPid, !.text = <<>>, !.msg = NULL]
      PROVE  EntryInv'
  <2>1. l.at = "ret"
    BY <1>1, <1>9 DEF LibType
  <2>2. Mute("cleanup", l) /\ TellsAt("cleanup", m)
    BY <2>1 DEF Mute, Empty, Reading, Hearing, TellsAt
  <2> QED
    BY <1>1, <1>7, <1>9, <2>2, ManagerMoves DEF Managing, ManagerPoints
<1> QED
  BY <1>7, <1>8, <1>9 DEF terminate

-----------------------------------------------------------------------------
(***************************************************************************)
(* The theorems.                                                           *)
(***************************************************************************)
LEMMA SameEntry ==
  ASSUME Estate, UNCHANGED vars
  PROVE  EntryInv'
BY IdleEntry DEF vars, managerVars, tree

LEMMA StepEntry ==
  ASSUME PoliteScript, Estate, [MailStep]_vars
  PROVE  EntryInv'
<1>0. CalmInv
  BY DEF Estate, House
<1>1. CASE UNCHANGED vars
  BY <1>1, SameEntry
<1>2. CASE MailStep
  <2>1. \A p \in Pid : ~CopyCleansUp(p) /\ ~CloneRefused(p) /\ ~TextLost(p)
    BY <1>2 DEF MailStep, Incident
  <2>2. CASE UserStep
    <3>1. ReadLine \/ EndOfInput
      BY <2>2 DEF UserStep
    <3>2. tree' = tree
      BY <1>0, <3>1, UserPlain
    <3> QED
      BY <3>1, <3>2, UserEntry
  <2>3. ASSUME NEW p \in Pid, ProcessStep(p)
        PROVE  EntryInv'
    <3>1. CASE (MessageStep(p) \/ ChildStep(p) \/ CommandStep(p)) /\ UNCHANGED managerVars
      <4>1. tree' = tree
        BY <3>1 DEF managerVars, tree
      <4> QED
        BY <2>1, <3>1, <4>1, CallEntry, ChildEntry, CommandEntry
    <3>2. CASE ManagerStep(p) /\ ~message_handler(p)
      <4>1. tree' = tree
        BY <1>0, <2>1, <3>2, ManagerPlain
      <4> QED
        BY <2>1, <3>2, <4>1, ExecEntry, PollEntry, WaitpidEntry, AckEntry DEF ManagerStep
    <3>3. CASE message_handler(p)
      BY <3>3, HandlerEntry
    <3> QED
      BY <2>3, <3>1, <3>2, <3>3 DEF ProcessStep
  <2>4. ASSUME NEW p \in Pid, SignalStep(p)
        PROVE  EntryInv'
    <3>1. ~DieOfInterrupt(p)
      BY <1>0 DEF CalmInv, Order, Discipline, NoInterrupt, DieOfInterrupt, Dying, Interrupted
    <3>2. ((set_unread_flag(p) \/ ChildSignal(p)) /\ UNCHANGED trees) \/ terminate(p)
      BY <2>4, <3>1 DEF SignalStep, managerVars
    <3>3. tree' = tree
      BY <1>0, <3>2, SignalPlain
    <3> QED
      BY <3>2, <3>3, HandlersEntry, BootEntry, EndEntry DEF ChildSignal
  <2> QED
    BY <1>2, <2>2, <2>3, <2>4 DEF MailStep, Next, Incident
<1> QED
  BY <1>1, <1>2

LEMMA InitEntry == Init => EntryInv
<1> SUFFICES ASSUME Init PROVE EntryInv
  OBVIOUS
<1>1. /\ fifo = <<>> /\ PM \in Pid /\ pc[PM] = "readline"
      /\ \A p \in Pid : lib[p] = BlankLib /\ pc[p] \in {"readline", "unborn"}
  BY PidFacts DEF Init
<1>2. PostRight
  <2>1. \A p \in Pid : Carried(p) = {} /\ Heard(p) = {}
    BY <1>1 DEF Carried, Heard, BlankLib, Reading, Hearing
  <2>2. OnItsWay = {}
    BY <1>1 DEF OnItsWay
  <2>3. Post = {}
    BY <2>1, <2>2 DEF Post, Parcels
  <2> QED
    BY <2>3 DEF PostRight
<1>3. ListsOnly
  BY <1>1 DEF ListsOnly
<1>4. ASSUME NEW p \in Pid
      PROVE  KnowsAt(pc[p], lib[p], mem[p]) /\ Delegated(p) /\ Current(p) /\ Named(p) /\ Registered(p)
  <2>1. \A q \in Pid : pc[q] \notin {"popen"} \union Adding \union Belonging \union Hearing
    BY <1>1 DEF Adding, Cloning, Belonging, ChildPoints, Hearing
  <2>2. KnowsAt(pc[p], lib[p], mem[p])
    BY <1>1 DEF KnowsAt, HeedsAt, DeliveredAt, Hearing
  <2>3. Delegated(p)
    BY <2>1 DEF Delegated
  <2> QED
    BY <1>4, <2>1, <2>2, <2>3 DEF Current, Named, Registered
<1> QED
  BY <1>2, <1>3, <1>4 DEF EntryInv

LEMMA EntryInvHolds ==
  ASSUME PoliteScript
  PROVE  MailSpec => [](CalmInv /\ Estate)
<1>1. CalmInv /\ TextInv /\ RequestInv /\ Rooted /\ KinInv /\ Attendance /\ Service /\ EntryInv
      /\ [MailStep]_vars => EntryInv'
  BY StepEntry DEF Estate, House
<1>2. CalmInv /\ TextInv /\ RequestInv /\ Rooted /\ KinInv /\ Attendance /\ Service /\ EntryInv
      => Estate
  BY DEF Estate, House
<1>3. MailSpec => [](CalmInv /\ RequestInv)
  BY MailIsCalm, RequestInvHolds
<1> QED
  BY <1>1, <1>2, <1>3, InitEntry, MailInvHolds, FamilyInvHolds, AttendsToOne, ServedWaits,
     MailIsCalm, PTL DEF MailSpec, MailStep

\* A process that acts upon a reply of pmanager finds the tree as the reply says: a
\* name that was free is still free, a pid is still that of its name, and nobody is
\* missing but who is being added or removed, or cannot be listed.
THEOREM EntriesRight ==
  ASSUME PoliteScript
  PROVE  MailSpec => []EntryInv
<1>1. Estate => EntryInv
  BY DEF Estate
<1> QED
  BY <1>1, EntryInvHolds, PTL

-----------------------------------------------------------------------------
(***************************************************************************)
(* The prompt.                                                             *)
(***************************************************************************)
LEMMA PromptListed ==
  ASSUME Estate, pc[PM] = "readline", NEW p \in Pid \ {PM}, pc[p] \in Belonging \ {"term_done"}
  PROVE  InTree(p)
<1> USE DEF Estate, House
<1>1. \A q \in Pid \ {PM} : pc[q] \notin Engaged
  BY PromptUnserved
<1>2. Deserted
  BY PromptDeserted DEF Attendance, NoCommand
<1>3. ASSUME NEW q \in Pid, pc[q] \in Adding PROVE FALSE
  <2>1. q # PM
    BY <1>3 DEF Adding, Cloning
  <2>2. pc[q] \in {"pnew_sent", "pnew_added"}
    BY <1>1, <1>3, <2>1 DEF Adding, Engaged, CloneWork
  <2> QED
    BY <1>2, <2>1, <2>2 DEF Deserted, LeftBehind, Working, CommandPoints
<1>4. pc[p] \notin Leaving
  BY <1>1 DEF Engaged
<1> QED
  BY <1>3, <1>4 DEF EntryInv, Registered

LEMMA PromptOutsiders == Estate => OutsidersOdd
<1> SUFFICES ASSUME Estate, pc[PM] = "readline",
                    NEW p \in Pid, Managed(p), pc[p] # "term_done", p \notin Pids(tree)
             PROVE  Unlistable(p, mem[p].name)
  BY DEF OutsidersOdd
<1>1. p # PM /\ pc[p] \in Belonging \ {"term_done"}
  BY DEF Managed, Belonging, ChildPoints
<1> QED
  BY <1>1, PromptListed DEF InTree

\* Nobody is forgotten: at the prompt, whoever belongs into the tree is in it,
\* unless its name does not fit into a node.
THEOREM OutsidersKnown ==
  ASSUME PoliteScript
  PROVE  MailSpec => []OutsidersOdd
BY PromptOutsiders, EntryInvHolds, PTL

-----------------------------------------------------------------------------
(***************************************************************************)
(* The names of the processes.                                             *)
(***************************************************************************)
\* x keeps its name, and has it already where it needs one.
KeepsName(x) ==
  /\ mem'[x].name = mem[x].name
  /\ pc[x] \in Gone => pc'[x] \in Gone
  /\ pc'[x] \in Belonging => pc[x] \in Belonging
  /\ pc'[x] \in Nameful => pc[x] \in Nameful \/ (pc[x] = "start" /\ mem[x].name # <<>>)

\* x is forked for a line of input, or has the name of its parent or the next one.
GetsName(x) ==
  /\ x = nextPid /\ nextPid' = nextPid + 1
  /\ \/ pc'[x] \notin Nameful /\ (CleanScript => Tidy(mem'[x].name))
     \/ \E p \in Pid :
          \/ mem'[x].name = mem[p].name /\ (pc'[x] \in Nameful => pc[p] \in Nameful)
          \/ mem'[x].name = NextName(p) /\ pc[p] \in Belonging

HasName(x) ==
  \/ KeepsName(x)
  \/ mem'[x].name = <<>> /\ pc'[x] \in Gone
  \/ x = PM /\ pc[x] \in Managing /\ mem'[x].name = pmanager /\ pc'[x] \in Managing
  \/ GetsName(x)

NamesStep == \A x \in Pid : HasName(x)

\* The move from `at' to `point' of a process called `name'.
NameAt(at, point, name) ==
  /\ point \in Belonging => at \in Belonging
  /\ point \in Nameful => at \in Nameful \/ (at = "start" /\ name # <<>>)

LEMMA StillNamed ==
  ASSUME NEW x, pc'[x] = pc[x] \/ (pc[x] = "zombie" /\ pc'[x] = "dead"), mem'[x] = mem[x]
  PROVE  KeepsName(x)
BY DEF KeepsName, Belonging, ChildPoints, Nameful, Gone

LEMMA GotoNames ==
  ASSUME TypeInv, NEW p \in Pid, pc[p] \notin Gone, NEW point, NEW l, NEW m, Goto(p, point, l, m),
         \/ m.name = mem[p].name /\ NameAt(pc[p], point, mem[p].name)
         \/ p = PM /\ pc[p] \in Managing /\ m.name = pmanager /\ point \in Managing
  PROVE  NamesStep
<1>1. pc'[p] = point /\ mem'[p] = m /\ \A x \in Pid \ {p} : pc'[x] = pc[x] /\ mem'[x] = mem[x]
  BY Shape DEF Goto
<1>2. HasName(p)
  BY <1>1 DEF HasName, KeepsName, NameAt
<1>3. \A x \in Pid \ {p} : HasName(x)
  BY <1>1, StillNamed DEF HasName
<1> QED
  BY <1>2, <1>3 DEF NamesStep

LEMMA ForkNames ==
  ASSUME CalmInv, NEW p \in Pid, pc[p] \notin Gone, NEW point, NEW l, NEW m,
         NEW kidPoint, NEW kidLib, NEW kidMem, Fork(p, point, l, m, kidPoint, kidLib, kidMem),
         m.name = mem[p].name, NameAt(pc[p], point, mem[p].name),
         \/ kidPoint \notin Nameful /\ (CleanScript => Tidy(kidMem.name))
         \/ kidMem.name = mem[p].name /\ (kidPoint \in Nameful => pc[p] \in Nameful)
         \/ kidMem.name = NextName(p) /\ pc[p] \in Belonging
  PROVE  NamesStep
<1>1. /\ nextPid # p /\ nextPid' = nextPid + 1
      /\ pc'[p] = point /\ mem'[p] = m /\ pc'[nextPid] = kidPoint /\ mem'[nextPid] = kidMem
      /\ \A x \in Pid \ {p, nextPid} : pc'[x] = pc[x] /\ mem'[x] = mem[x]
  BY ForkFacts DEF CalmInv
<1>2. HasName(p)
  BY <1>1 DEF HasName, KeepsName, NameAt
<1>3. HasName(nextPid)
  BY <1>1 DEF HasName, GetsName
<1>4. \A x \in Pid \ {p, nextPid} : HasName(x)
  BY <1>1, StillNamed DEF HasName
<1> QED
  BY <1>2, <1>3, <1>4 DEF NamesStep

LEMMA ExitNames ==
  ASSUME CalmInv, NEW p \in Pid, pc[p] \notin Gone, NEW output, ExitPrinting(p, output)
  PROVE  NamesStep
<1>1. /\ pc \in [Pid -> Points] /\ mem \in [Pid -> SoundMem]
  BY Shape DEF CalmInv
<1>2. /\ pc'[p] \in Gone /\ mem'[p].name = <<>>
      /\ \A x \in Pid \ {p} : pc'[x] = pc[x] \/ (pc[x] = "zombie" /\ pc'[x] = "dead")
      /\ \A x \in Pid \ {p} : mem'[x].name = mem[x].name
  BY <1>1 DEF ExitPrinting, EndProcess, SoundMem, MemType, BlankMem, Gone
<1>3. \A x \in Pid \ {p} : KeepsName(x)
  BY <1>2 DEF KeepsName, Belonging, ChildPoints, Nameful, Gone
<1> QED
  BY <1>2, <1>3 DEF HasName, NamesStep

LEMMA SameNames ==
  ASSUME UNCHANGED <<pc, mem>>
  PROVE  NamesStep
BY StillNamed DEF HasName, NamesStep

-----------------------------------------------------------------------------
LEMMA ChildNames ==
  ASSUME CalmInv, NEW p \in Pid, ChildStep(p)
  PROVE  NamesStep
<1> USE DEF CalmInv
<1>1. /\ pc[p] \in ChildPoints \union {"boot"} /\ TypeInv /\ mem[p] \in MemType
  BY Shape DEF ChildStep, RegisterHandlers, Sleep, CheckSigtermFlag, CheckUnreadFlag, GotMessage,
     AwaitRemoval, GotRemoval, ExitChild, ResetSigtermFlag, AwaitDuplicateCheck, child_clone,
     send_proc_to_pmanager, CloneAdded, Ready, ChildPoints, SoundMem
<1>2. pc[p] \notin Gone /\ pc[p] \in Belonging
  BY <1>1 DEF Gone, ChildPoints, Belonging
<1>3. ASSUME NEW point \in ChildPoints, NEW l, NEW m, Goto(p, point, l, m), m.name = mem[p].name
      PROVE  NamesStep
  BY <1>1, <1>2, <1>3, GotoNames DEF NameAt, Belonging, Nameful
<1>4. ASSUME Crash(p) \/ Exit(p) PROVE NamesStep
  BY <1>2, <1>4, ExitNames DEF Crash, Exit
<1>5. CloneReturns(p).name = mem[p].name
  BY <1>1 DEF CloneReturns, MemType
<1>6. CASE RegisterHandlers(p) \/ Sleep(p)
  <2>1. PICK point \in {"loop", "asleep"} : Goto(p, point, lib[p], mem[p])
    BY <1>1, <1>6, GotoPoint DEF RegisterHandlers, Sleep
  <2> QED
    BY <1>3, <2>1 DEF ChildPoints
<1>7. CASE CheckSigtermFlag(p) \/ CheckUnreadFlag(p) \/ AwaitRemoval(p)
  BY <1>3, <1>7 DEF CheckSigtermFlag, CheckUnreadFlag, AwaitRemoval, ChildPoints
<1>8. CASE GotMessage(p)
  <2>1. [mem[p] EXCEPT !.peer = lib[p].msg.sender].name = mem[p].name
    BY <1>1 DEF MemType
  <2> QED
    BY <1>3, <1>4, <1>8, <2>1 DEF GotMessage, ChildPoints
<1>9. CASE GotRemoval(p) \/ ExitChild(p)
  BY <1>3, <1>4, <1>9 DEF GotRemoval, ExitChild, ChildPoints
<1>10. CASE ResetSigtermFlag(p)
  <2>1. [mem[p] EXCEPT !.sigterm_flag = 0].name = mem[p].name
    BY <1>1 DEF MemType
  <2> QED
    BY <1>3, <1>10, <2>1 DEF ResetSigtermFlag, ChildPoints
<1>11. CASE AwaitDuplicateCheck(p)
  BY <1>3, <1>5, <1>11 DEF AwaitDuplicateCheck, ChildPoints
<1>12. CASE child_clone(p)
  <2>1. CASE ForkClone(p)
    <3>1. PICK l, m, kidLib, kidMem :
            /\ m = [mem[p] EXCEPT !.kid = nextPid]
            /\ kidMem = [CloneReturns(p) EXCEPT !.name = NextName(p), !.clones_count = 0]
            /\ Fork(p, "clone_sent", l, m, "loop", kidLib, kidMem)
      BY <2>1 DEF ForkClone
    <3>2. m.name = mem[p].name /\ kidMem.name = NextName(p)
      BY <1>1, <3>1 DEF CloneReturns, MemType
    <3>3. NameAt(pc[p], "clone_sent", mem[p].name)
      BY <1>2 DEF NameAt, Nameful
    <3> QED
      BY <1>2, <3>1, <3>2, <3>3, ForkNames
  <2> QED
    BY <1>3, <1>4, <1>5, <1>12, <2>1 DEF child_clone, ChildPoints
<1>13. CASE send_proc_to_pmanager(p)
  BY <1>3, <1>5, <1>13 DEF send_proc_to_pmanager, KillClone, ChildPoints
<1>14. CASE CloneAdded(p)
  <2>1. [CloneReturns(p) EXCEPT !.clones_count = @ + 1].name = mem[p].name
    BY <1>1 DEF CloneReturns, MemType
  <2> QED
    BY <1>3, <1>5, <1>14, <2>1 DEF CloneAdded, KillClone, ChildPoints
<1> QED
  BY <1>6, <1>7, <1>8, <1>9, <1>10, <1>11, <1>12, <1>13, <1>14 DEF ChildStep

LEMMA CommandNames ==
  ASSUME CalmInv, NEW p \in Pid, CommandStep(p)
  PROVE  NamesStep
<1> USE DEF CalmInv
<1>1. /\ TypeInv /\ mem[p] \in MemType
      /\ pc[p] \in CommandPoints \ {"boot"}
  BY Shape DEF CommandStep, Start, Begin, pnew_main, pinfo_main, prmall_main, plist_main, ptree_main,
     pclose_main, pspawn_main, phelp_main, ExitCommand, AwaitNameCheck, pnew, AwaitAdd, GotAdd,
     AwaitListItem, GotListItem, kill_proc_tree, AwaitInfo, PrintInfo, pclose, pspawn, AwaitSpawn,
     Ready, CommandPoints, SoundMem
<1>2. pc[p] \notin Gone
  BY <1>1 DEF Gone, CommandPoints
<1>3. ASSUME NEW point, NEW l, NEW m, Goto(p, point, l, m), m.name = mem[p].name,
             point \in CommandPoints \ {"boot", "pnew_asked", "pnew_reply", "pnew_sent", "pnew_added", "popen"}
      PROVE  NamesStep
  <2>1. NameAt(pc[p], point, mem[p].name)
    BY <1>3 DEF NameAt, Belonging, Nameful, ChildPoints, CommandPoints
  <2> QED
    BY <1>1, <1>2, <1>3, <2>1, GotoNames
<1>4. ASSUME Finish(p) PROVE NamesStep
  BY <1>3, <1>4 DEF Finish, CommandPoints
<1>5. ASSUME Crash(p) \/ Exit(p) PROVE NamesStep
  BY <1>2, <1>5, ExitNames DEF Crash, Exit
<1>6. CASE Start(p)
  <2>1. pc[p] = "start"
    BY <1>6 DEF Start, Begin, pnew_main, pinfo_main, prmall_main, plist_main, ptree_main,
       pclose_main, pspawn_main, phelp_main, Ready
  <2>2. ASSUME NEW to, NEW type, NEW content, NEW point \in {"info_asked", "list_asked"},
               Ask(p, point, to, type, content)
        PROVE  NamesStep
    <3>1. [mem[p] EXCEPT !.peer = to].name = mem[p].name
      BY <1>1 DEF MemType
    <3> QED
      BY <1>3, <2>2, <3>1 DEF Ask, CommandPoints
  <2>3. ASSUME NEW to, NEW type, NEW content, Ask(p, "pnew_asked", to, type, content), mem[p].name # <<>>
        PROVE  NamesStep
    <3>1. [mem[p] EXCEPT !.peer = to].name = mem[p].name
      BY <1>1 DEF MemType
    <3>2. NameAt(pc[p], "pnew_asked", mem[p].name)
      BY <2>1, <2>3 DEF NameAt, Belonging, ChildPoints
    <3> QED
      BY <1>1, <1>2, <2>3, <3>1, <3>2, GotoNames DEF Ask
  <2>4. ASSUME popen(p), mem[p].name # <<>>
        PROVE  NamesStep
    <3>1. CASE Finish(p)
      BY <1>4, <3>1
    <3>2. ASSUME NEW m, NEW kidMem, m = [mem[p] EXCEPT !.peer = Pending],
                 kidMem = NewCommand("pinfo", mem[p].name, parent[p]),
                 Fork(p, "popen", lib[p], m, "start", BlankLib, kidMem)
          PROVE  NamesStep
      <4>1. m.name = mem[p].name /\ kidMem.name = mem[p].name
        BY <1>1, <3>2 DEF MemType, NewCommand, BlankMem
      <4>2. NameAt(pc[p], "popen", mem[p].name)
        BY <2>1, <2>4 DEF NameAt, Belonging, ChildPoints
      <4>3. "start" \notin Nameful
        BY DEF Nameful, Belonging, ChildPoints
      <4> QED
        BY <1>2, <3>2, <4>1, <4>2, <4>3, ForkNames
    <3> QED
      BY <2>4, <3>1, <3>2 DEF popen
  <2> QED
    BY <1>4, <1>6, <2>2, <2>3, <2>4
    DEF Start, Begin, pnew_main, pinfo_main, prmall_main, plist_main, ptree_main, pclose_main,
        pspawn_main, phelp_main, PrintsHelp
<1>7. CASE ExitCommand(p)
  BY <1>5, <1>7 DEF ExitCommand
<1>8. CASE AwaitNameCheck(p)
  <2>1. CASE Finish(p)
    BY <1>4, <2>1
  <2>2. CASE Goto(p, "pnew_reply", message_wait(p, parent[p]), mem[p]) /\ pc[p] = "pnew_asked"
    BY <1>1, <1>2, <2>2, GotoNames DEF NameAt, Nameful, Belonging, ChildPoints
  <2> QED
    BY <1>8, <2>1, <2>2 DEF AwaitNameCheck, Ready
<1>9. CASE pnew(p)
  <2>1. pc[p] = "pnew_reply"
    BY <1>9 DEF pnew, Ready
  <2>2. ASSUME NEW l, NEW m, NEW kidLib, NEW kidMem, m = [mem[p] EXCEPT !.kid = nextPid],
               kidMem = NewCommand("child", mem[p].name, NoPid),
               Fork(p, "pnew_sent", l, m, "boot", kidLib, kidMem)
        PROVE  NamesStep
    <3>1. m.name = mem[p].name /\ kidMem.name = mem[p].name
      BY <1>1, <2>2 DEF MemType, NewCommand, BlankMem
    <3>2. NameAt(pc[p], "pnew_sent", mem[p].name) /\ pc[p] \in Nameful
      BY <2>1 DEF NameAt, Nameful, Belonging, ChildPoints
    <3> QED
      BY <1>2, <2>2, <3>1, <3>2, ForkNames
  <2> QED
    BY <1>4, <1>5, <1>9, <2>2 DEF pnew, ForkProcess
<1>10. ASSUME abort_fork(p) PROVE NamesStep
  BY <1>3, <1>4, <1>10 DEF abort_fork, CommandPoints
<1>11. CASE AwaitAdd(p)
  <2>1. CASE Goto(p, "pnew_added", message_wait(p, parent[p]), mem[p]) /\ pc[p] = "pnew_sent"
    BY <1>1, <1>2, <2>1, GotoNames DEF NameAt, Nameful, Belonging, ChildPoints
  <2> QED
    BY <1>10, <1>11, <2>1 DEF AwaitAdd, Ready
<1>12. CASE GotAdd(p)
  BY <1>4, <1>10, <1>12 DEF GotAdd
<1>13. CASE AwaitListItem(p) \/ AwaitInfo(p) \/ pclose(p) \/ pspawn(p) \/ AwaitSpawn(p)
  BY <1>3, <1>4, <1>13 DEF AwaitListItem, AwaitInfo, pclose, pspawn, AwaitSpawn, CommandPoints
<1>14. CASE GotListItem(p)
  <2>1. ASSUME ListItem(p) PROVE NamesStep
    <3>1. CASE Crash(p)
      BY <1>5, <3>1
    <3>2. ASSUME NEW l, NEW next, Goto(p, "list_asked", l, [mem[p] EXCEPT !.procs = next])
          PROVE  NamesStep
      <4>1. [mem[p] EXCEPT !.procs = next].name = mem[p].name
        BY <1>1 DEF MemType
      <4> QED
        BY <1>3, <3>2, <4>1 DEF CommandPoints
    <3> QED
      BY <2>1, <3>1, <3>2 DEF ListItem
  <2> QED
    BY <1>3, <1>4, <1>14, <2>1 DEF GotListItem, CommandPoints
<1>15. CASE kill_proc_tree(p)
  <2>1. ASSUME NEW q, NEW rest, SparePmanager(p, rest) \/ SignalVictim(p, q, rest)
        PROVE  NamesStep
    <3>1. [mem[p] EXCEPT !.procs = rest].name = mem[p].name
      BY <1>1 DEF MemType
    <3> QED
      BY <1>3, <2>1, <3>1 DEF SparePmanager, SignalVictim, CommandPoints
  <2> QED
    BY <1>4, <1>15, <2>1 DEF kill_proc_tree
<1>16. CASE PrintInfo(p)
  BY <1>2, <1>16, ExitNames DEF PrintInfo
<1> QED
  BY <1>6, <1>7, <1>8, <1>9, <1>11, <1>12, <1>13, <1>14, <1>15, <1>16 DEF CommandStep

\* Only pmanager's handler of SIGTERM ends a manager.
LEMMA TerminateManager ==
  ASSUME CalmInv, NEW p \in Pid, terminate(p)
  PROVE  p = PM /\ pc[p] \in Managing
<1> USE DEF CalmInv
<1>1. /\ pc[p] \in ManagerPoints /\ ~sig[p].int /\ lib[p] \in LibType
  BY Shape DEF Order, Discipline, NoInterrupt, terminate, SoundLib
<1>2. sig[p].term # NoPid
  BY <1>1 DEF terminate, Deliverable
<1>3. HasTurn(p, "term") /\ "term" \in Claims
  BY <1>2 DEF HasTurn, Claims
<1>4. ~Busy(p)
  BY <1>3, Holder DEF Turn, Only
<1>5. pc[p] # "exec"
  BY <1>1, <1>4 DEF Busy, BusyAt, Order, Discipline, CallsOpen, OpenAt, LibType, CallPoints, Sending,
     Answering, Receiving
<1> QED
  BY <1>1, <1>5, Manager DEF Managing

LEMMA SignalNames ==
  ASSUME CalmInv, NEW p \in Pid, set_unread_flag(p) \/ ChildSignal(p) \/ terminate(p)
  PROVE  NamesStep
<1> USE DEF CalmInv
<1>1. /\ pc \in [Pid -> Points] /\ mem \in [Pid -> SoundMem] /\ mem[p] \in MemType
  BY Shape DEF SoundMem
<1>2. ASSUME pc'[p] \in AfterSignal(p), mem'[p].name = mem[p].name,
             \A x \in Pid \ {p} : /\ mem'[x] = mem[x]
                                  /\ pc'[x] = pc[x] \/ (pc[x] = "zombie" /\ pc'[x] = "dead")
      PROVE  NamesStep
  <2>1. KeepsName(p)
    BY <1>2 DEF KeepsName, AfterSignal, Belonging, ChildPoints, Nameful, Gone
  <2> QED
    BY <1>2, <2>1, StillNamed DEF HasName, NamesStep
<1>3. CASE set_unread_flag(p)
  BY <1>1, <1>2, <1>3 DEF set_unread_flag
<1>4. CASE sigterm_handler(p)
  <2>1. mem'[p].name = mem[p].name /\ \A x \in Pid \ {p} : mem'[x] = mem[x]
    BY <1>1, <1>4 DEF sigterm_handler, MemType
  <2>2. pc'[p] \in AfterSignal(p) /\ \A x \in Pid \ {p} : pc'[x] = pc[x]
    BY <1>1, <1>4 DEF sigterm_handler
  <2> QED
    BY <1>2, <2>1, <2>2
<1>5. CASE KilledAtBoot(p)
  <2>1. /\ pc'[p] = "killed" /\ mem'[p] = BlankMem
        /\ \A x \in Pid \ {p} : pc'[x] = pc[x] /\ mem'[x] = mem[x]
    BY <1>1, <1>5 DEF KilledAtBoot
  <2> QED
    BY <2>1, StillNamed DEF HasName, NamesStep, BlankMem, Gone
<1>6. CASE remove_zombie(p)
  <2>1. PICK q \in Zombies(p), point \in AfterSignal(p) : pc' = [pc EXCEPT ![q] = "dead", ![p] = point]
    BY <1>6 DEF remove_zombie
  <2>2. q \in Pid /\ pc[q] = "zombie" /\ mem' = mem
    BY <1>6 DEF Zombies, remove_zombie
  <2>3. /\ pc'[p] \in AfterSignal(p)
        /\ \A x \in Pid \ {p} : pc'[x] = pc[x] \/ (pc[x] = "zombie" /\ pc'[x] = "dead")
    BY <1>1, <2>1, <2>2
  <2> QED
    BY <1>2, <2>2, <2>3
<1>7. CASE terminate(p)
  <2>1. p = PM /\ pc[p] \in Managing /\ pc[p] \notin Gone /\ "cleanup" \in Managing
    BY <1>7, TerminateManager DEF Managing, ManagerPoints, Gone
  <2>2. CASE Exit(p)
    BY <2>1, <2>2, ExitNames DEF Exit
  <2>3. ASSUME NEW l, NEW s, NEW m, m = [ExitingManager(p) EXCEPT !.masked = @ \union {s}],
               Goto(p, "cleanup", l, m)
        PROVE  NamesStep
    <3>1. m.name = pmanager
      BY <2>3 DEF ExitingManager, NewCommand, BlankMem
    <3> QED
      BY <2>1, <2>3, <3>1, GotoNames
  <2> QED
    BY <1>7, <2>2, <2>3 DEF terminate
<1> QED
  BY <1>3, <1>4, <1>5, <1>6, <1>7 DEF ChildSignal

LEMMA ExecNames ==
  ASSUME CalmInv, pc[PM] \in Managing, NEW m, m.name = mem[PM].name, m \in MemType, NEW prog,
         NEW name, CleanScript => Tidy(name), NEW to, exec_command(PM, m, prog, name, to)
  PROVE  NamesStep
<1>1. PICK pm, kidMem :
        /\ pm = [m EXCEPT !.kid = nextPid]
        /\ kidMem = [NewCommand(prog, name, to) EXCEPT !.exiting = m.exiting, !.masked = m.masked]
        /\ Fork(PM, "poll", lib[PM], pm, "exec", lib[PM], kidMem)
  BY DEF exec_command
<1>2. pm.name = mem[PM].name /\ kidMem.name = name
  BY <1>1 DEF MemType, NewCommand, BlankMem
<1>3. /\ NameAt(pc[PM], "poll", mem[PM].name) /\ "exec" \notin Nameful
      /\ PM \in Pid /\ pc[PM] \notin Gone
  BY PidFacts DEF NameAt, Belonging, ChildPoints, Nameful, Managing, ManagerPoints, Gone
<1> QED
  BY <1>1, <1>2, <1>3, ForkNames

LEMMA UserNames ==
  ASSUME CalmInv, ReadLine \/ EndOfInput
  PROVE  NamesStep
<1> USE DEF CalmInv
<1>1. pc[PM] = "readline" /\ PM \in Pid /\ mem[PM] \in MemType /\ TypeInv /\ pc[PM] \in Managing
  BY Shape DEF ReadLine, EndOfInput, Ready, SoundMem, Managing, ManagerPoints
<1>2. ASSUME Goto(PM, "cleanup", lib[PM], mem[PM]) PROVE NamesStep
  <2>1. NameAt(pc[PM], "cleanup", mem[PM].name) /\ pc[PM] \notin Gone
    BY <1>1 DEF NameAt, Belonging, ChildPoints, Nameful, Gone
  <2> QED
    BY <1>1, <1>2, <2>1, GotoNames
<1>3. CASE EndOfInput
  BY <1>2, <1>3 DEF EndOfInput
<1>4. CASE ReadLine
  <2>1. PICK c \in Script[line + 1] :
          CASE c.cmd = "quit" ->
                 Goto(PM, "cleanup", lib[PM], mem[PM]) /\ UNCHANGED <<parent, nextPid, trees>>
            [] c.cmd = "other" -> UNCHANGED <<pc, lib, mem, parent, nextPid, trees>>
            [] OTHER ->
                 \/ exec_command(PM, mem[PM], c.cmd, c.name, c.to)
                 \/ ForkMayFail /\ UNCHANGED <<pc, lib, mem, parent, nextPid, trees>>
    BY <1>4 DEF ReadLine
  <2>2. CleanScript => Tidy(c.name)
    <3>1. line + 1 \in 1..Len(Script)
      BY <1>4, ScriptAssumption DEF ReadLine, TypeInv, ManagerInv
    <3> QED
      BY <3>1 DEF CleanScript, Tidy
  <2>3. CASE UNCHANGED <<pc, mem>>
    BY <2>3, SameNames
  <2>4. CASE exec_command(PM, mem[PM], c.cmd, c.name, c.to)
    BY <1>1, <2>2, <2>4, ExecNames
  <2> QED
    BY <1>2, <2>1, <2>3, <2>4
<1> QED
  BY <1>3, <1>4

LEMMA ManagerNames ==
  ASSUME CalmInv, NEW p \in Pid, ~CopyCleansUp(p), ManagerStep(p)
  PROVE  NamesStep
<1> USE DEF CalmInv
<1>1. /\ TypeInv /\ mem[p] \in MemType /\ PM \in Pid
      /\ pc[p] \in ManagerPoints /\ pc[p] \notin Gone
  <2>1. pc[p] \in ManagerPoints
    BY DEF ManagerStep, execvp, Poll, WaitCommand, cleanup, message_handler, AwaitAck, GotAck, Ready,
       ManagerPoints
  <2> QED
    BY <2>1, Shape DEF SoundMem, ManagerPoints, Gone
<1>2. ASSUME NEW point \in ManagerPoints \union {"start"}, NEW l, NEW m, Goto(p, point, l, m),
             m.name = mem[p].name
      PROVE  NamesStep
  <2>1. NameAt(pc[p], point, mem[p].name)
    BY DEF NameAt, Belonging, ChildPoints, Nameful, ManagerPoints
  <2> QED
    BY <1>1, <1>2, <2>1, GotoNames
<1>3. CASE execvp(p)
  <2>1. pc[p] = "exec" /\ Ready(p, "exec")
    BY <1>3 DEF execvp, Ready
  <2>2. pc'[p] # "cleanup"
    BY <2>1 DEF CopyCleansUp
  <2>3. Goto(p, "start", BlankLib, [mem[p] EXCEPT !.exiting = FALSE])
    BY <1>1, <1>3, <2>2, Shape DEF execvp, Goto
  <2>4. [mem[p] EXCEPT !.exiting = FALSE].name = mem[p].name
    BY <1>1 DEF MemType
  <2> QED
    BY <1>2, <2>3, <2>4
<1>4. ASSUME ~execvp(p)
      PROVE  p = PM /\ pc[p] \in Managing
  <2>1. pc[p] \in Managing
    BY <1>4 DEF ManagerStep, Poll, WaitCommand, cleanup, message_handler, AwaitAck, GotAck, Ready,
       Managing, ManagerPoints
  <2> QED
    BY <2>1, Manager
<1>5. CASE Poll(p) \/ AwaitAck(p)
  BY <1>2, <1>5 DEF Poll, AwaitAck, ManagerPoints
<1>6. ASSUME EndManager(p), ~execvp(p) PROVE NamesStep
  <2>1. pc[p] \notin Gone
    BY <1>4, <1>6 DEF Managing, ManagerPoints, Gone
  <2> QED
    BY <1>6, <2>1, ExitNames DEF EndManager, Exit
<1>7. CASE WaitCommand(p) /\ ~execvp(p)
  <2>1. ASSUME pc' = [pc EXCEPT ![p] = "waitpid"], UNCHANGED <<lib, mem>> PROVE NamesStep
    BY <1>1, <1>2, <2>1, GotoPoint DEF ManagerPoints
  <2>2. ASSUME pc[mem[p].kid] = "zombie", pc' = [pc EXCEPT ![mem[p].kid] = "dead", ![p] = "readline"],
               mem' = [mem EXCEPT ![p].kid = NoPid]
        PROVE  NamesStep
    <3>1. /\ mem'[p].name = mem[p].name /\ \A x \in Pid \ {p} : mem'[x] = mem[x]
          /\ pc'[p] = "readline"
          /\ \A x \in Pid \ {p} : pc'[x] = pc[x] \/ (pc[x] = "zombie" /\ pc'[x] = "dead")
      BY <1>1, <2>2, Shape DEF MemType
    <3>2. KeepsName(p)
      BY <1>1, <3>1 DEF KeepsName, Belonging, ChildPoints, Nameful
    <3> QED
      BY <3>1, <3>2, StillNamed DEF HasName, NamesStep
  <2> QED
    BY <1>6, <1>7, <2>1, <2>2 DEF WaitCommand
<1>8. CASE cleanup(p) /\ ~execvp(p)
  <2>1. p = PM /\ pc[PM] \in Managing
    BY <1>4, <1>8
  <2>2. CASE exec_command(PM, [mem[PM] EXCEPT !.exiting = TRUE], "prmall", pmanager, NoPid)
    <3>1. PICK m : m = [mem[PM] EXCEPT !.exiting = TRUE]
      OBVIOUS
    <3>2. m.name = mem[PM].name /\ m \in MemType
      BY <1>1, <2>1, <3>1 DEF MemType
    <3>3. Tidy(pmanager)
      BY NameAssumption DEF Tidy
    <3> QED
      BY <2>1, <2>2, <3>1, <3>2, <3>3, ExecNames
  <2> QED
    BY <1>6, <1>8, <2>1, <2>2 DEF cleanup
<1>9. ASSUME NEW point \in {"towait", "list_sent"}, NEW l, NEW peer, NEW procs,
             Goto(p, point, l, [mem[p] EXCEPT !.peer = peer, !.procs = procs])
      PROVE  NamesStep
  <2>1. [mem[p] EXCEPT !.peer = peer, !.procs = procs].name = mem[p].name
    BY <1>1 DEF MemType
  <2> QED
    BY <1>2, <1>9, <2>1 DEF ManagerPoints
<1>10. CASE GotAck(p)
  <2>1. [mem[p] EXCEPT !.peer = NoPid].name = mem[p].name
    BY <1>1 DEF MemType
  <2> QED
    BY <1>2, <1>9, <1>10, <2>1 DEF GotAck, SendNode, ManagerPoints
<1>11. CASE message_handler(p)
  <2>1. ASSUME NEW to, NEW type, NEW content, Answer(p, to, type, content) PROVE NamesStep
    BY <1>2, <2>1 DEF Answer, ManagerPoints
  <2>2. ASSUME NEW to, NEW procs, SendNode(p, to, procs) PROVE NamesStep
    BY <1>9, <2>2 DEF SendNode
  <2>3. ASSUME NEW msg, msg_add_handler(p, msg) \/ msg_info_handler(p, msg) \/ msg_remove_handler(p, msg)
                        \/ msg_list_handler(p, msg)
        PROVE  NamesStep
    BY <2>1, <2>2, <2>3 DEF msg_add_handler, msg_info_handler, msg_remove_handler, msg_list_handler
  <2> QED
    BY <1>2, <1>11, <2>1, <2>3 DEF message_handler, ManagerPoints
<1> QED
  BY <1>3, <1>5, <1>7, <1>8, <1>10, <1>11 DEF ManagerStep

\* Every process has its name from a line of input or from its parent, and keeps it
\* until it ends.
LEMMA NameStep ==
  ASSUME CalmInv, [MailStep]_vars
  PROVE  NamesStep
<1>1. CASE UNCHANGED vars
  BY <1>1, SameNames DEF vars
<1>2. CASE MailStep
  <2>1. \A p \in Pid : ~CopyCleansUp(p)
    BY <1>2 DEF MailStep, Incident
  <2>2. CASE UserStep
    BY <2>2, UserNames DEF UserStep
  <2>3. ASSUME NEW p \in Pid, ProcessStep(p)
        PROVE  NamesStep
    <3>1. CASE MessageStep(p)
      <4>1. UNCHANGED <<pc, mem>>
        BY <3>1 DEF MessageStep, WriteText, NotifyReceiver, CheckFlags, Suspend, ReadText, ResetFlags
      <4> QED
        BY <4>1, SameNames
    <3> QED
      BY <2>1, <2>3, <3>1, ChildNames, CommandNames, ManagerNames DEF ProcessStep
  <2>4. ASSUME NEW p \in Pid, SignalStep(p)
        PROVE  NamesStep
    <3>1. ~DieOfInterrupt(p)
      BY DEF CalmInv, Order, Discipline, NoInterrupt, DieOfInterrupt, Dying, Interrupted
    <3> QED
      BY <2>4, <3>1, SignalNames DEF SignalStep
  <2> QED
    BY <1>2, <2>2, <2>3, <2>4 DEF MailStep, Next, Incident
<1> QED
  BY <1>1, <1>2

-----------------------------------------------------------------------------
(***************************************************************************)
(* The names in the tree.                                                  *)
(***************************************************************************)
\* A node with a name without delimiters arrives as it was sent.
LEMMA CleanCarried ==
  ASSUME NEW sender \in Nat, NEW type \in MsgType, NEW pid \in Nat, NEW ppid \in Nat,
         NEW name \in Str, CleanName(name), NEW content, content = proc_node_tostr(pid, ppid, name),
         content \in Str, NEW msg, msg = MessageOf(MessageText(sender, type, content)), msg # NULL
  PROVE  proc_node_fromstr(msg.content) = [pid |-> pid, ppid |-> ppid, name |-> name]
<1>1. msg = IF Len(tokenize(content, Colon)) = 1
            THEN [sender |-> sender, type |-> type, content |-> tokenize(content, Colon)[1]]
            ELSE NULL
  BY Sent
<1>2. msg.content = tokenize(content, Colon)[1]
  BY <1>1
<1>3. Len(content) > 0 /\ \A k \in 1..Len(content) : content[k] # Colon
  BY NodeUncoloned
<1>4. tokenize(content, Colon)[1] = content
  BY <1>3, OneField
<1>5. Len(tokenize(name, Semi)) = 1 /\ tokenize(name, Semi)[1] = name
  BY OneField DEF CleanName
<1> QED
  BY <1>2, <1>4, <1>5, NodeSent

\* The new node n is that of a process that has been forked, under the name that
\* process has, which was free.
NewNode(n) ==
  /\ n.pid \in Pid /\ pc[n.pid] \in Belonging
  /\ CleanName(mem[n.pid].name) => n.name = mem[n.pid].name /\ n.name \notin NamesOf(tree)

\* pmanager has changed its tree: all other nodes were there before.
TreeChanges ==
  /\ UNCHANGED <<mem, nextPid>>
  /\ \A x \in Pid : pc'[x] = pc[x] \/ (x = PM /\ pc[x] \in Managing /\ pc'[x] \in Managing)
  /\ \E pid : \A k \in 1..Len(tree') :
       \/ \E j \in 1..Len(tree) : tree'[k] = tree[j]
       \/ tree'[k].pid = pid /\ NewNode(tree'[k])

LEMMA AddChanges ==
  ASSUME Estate, pc[PM] = "handle", lib[PM].at = "ret", lib[PM].msg # NULL,
         lib[PM].msg.type = MSG_ADD, msg_add_handler(PM, lib[PM].msg)
  PROVE  tree' = tree \/ TreeChanges
<1> USE DEF Estate, House
<1>0. TypeInv /\ PM \in Pid /\ Pid \subseteq Nat
  BY PidFacts DEF CalmInv
<1>1. PICK msg, q : msg = lib[PM].msg /\ q = msg.sender
  OBVIOUS
<1>2. PICK n, new : n = NodeToAdd(PM, msg.content) /\ new = tree'
  OBVIOUS
<1>3. n = NULL => new = tree
  BY <1>1, <1>2 DEF msg_add_handler, tree
<1> SUFFICES ASSUME n # NULL PROVE TreeChanges
  BY <1>2, <1>3
<1>4. PICK l : Goto(PM, "towait", l, mem[PM]) /\ UNCHANGED nextPid
  BY DEF msg_add_handler, Answer
<1>5. /\ pc'[PM] = "towait" /\ mem' = mem
      /\ \A x \in Pid \ {PM} : pc'[x] = pc[x]
  BY <1>0, <1>4, Shape DEF Goto
<1>6. n = proc_node_fromstr(msg.content) /\ CanAdd(tree, n.ppid)
  BY <1>2 DEF NodeToAdd, tree
<1>7. n.pid \in Nat /\ n.ppid \in Nat /\ n.name \in Str
  <2>1. msg.content \in Str
    BY <1>0, <1>1, StateFacts DEF TypeInv
  <2>2. n \in ProcInfo
    BY <1>6, <2>1, NodeDecoded
  <2> QED
    BY <2>2 DEF ProcInfo
<1>8. new = proc_node_add(tree, n.pid, n.ppid, n.name)
  <2>1. trees' = [trees EXCEPT ![PM] = proc_node_add(trees[PM], n.pid, n.ppid, n.name)]
    BY <1>1, <1>2 DEF msg_add_handler
  <2> QED
    BY <1>0, <1>2, <2>1 DEF tree, TypeInv, ManagerInv
<1>9. \A k \in 1..Len(new) :
        \/ \E j \in 1..Len(tree) : new[k] = tree[j]
        \/ new[k].pid = n.pid /\ new[k].name = n.name
  BY <1>0, <1>6, <1>7, <1>8, TreeTyped, AddedKeeps
<1>10. Parcel(PM, msg) \in Parcels /\ Parcel(PM, msg) \in Post
  BY <1>0, <1>1 DEF Post, Parcels, Carried, Reading
<1>11. q \in Pid /\ Request(q, msg)
  BY <1>1, <1>10 DEF EntryInv, PostRight, Right, Parcel
<1>12. n.pid \in Pid /\ pc[n.pid] \in Belonging
  <2>1. SoundMessage(PM, msg)
    BY <1>1, <1>10 DEF KinInv, ParcelsSound, Sound, Parcel
  <2>2. SoundNode(n)
    BY <1>1, <1>6, <2>1 DEF SoundMessage, NodesOf
  <2> QED
    BY <2>2 DEF SoundNode, Resting, Belonging, ChildPoints
<1>13. pc[q] \in Adding
  BY <1>1, <1>11 DEF Request
<1>14. PICK kid, ppid, name, content :
         /\ kid = mem[q].kid /\ name = Wanted(q) /\ kid \in Pid /\ name \in Str
         /\ ppid = IF pc[q] \in Cloning THEN q ELSE PM
         /\ content = proc_node_tostr(kid, ppid, name) /\ content \in Str
         /\ msg = MessageOf(MessageText(q, MSG_ADD, content))
  BY <1>1, <1>11, <1>13, AddsOnly
<1>15. q \in Nat /\ kid \in Nat /\ ppid \in Nat /\ MSG_ADD \in MsgType /\ msg # NULL
  BY <1>0, <1>1, <1>11, <1>14 DEF MsgType
<1>16. PICK type : type = MSG_ADD
  OBVIOUS
<1>17. n.pid = kid
  BY <1>6, <1>14, <1>15, <1>16, NodeCarried
<1>18. mem[kid].name = name
  BY <1>11, <1>12, <1>13, <1>14, <1>17 DEF EntryInv, Named
<1>19. CleanName(name) => n.name = name /\ name \notin NamesOf(tree)
  <2> SUFFICES ASSUME CleanName(name) PROVE n.name = name /\ name \notin NamesOf(tree)
    OBVIOUS
  <2>1. n = [pid |-> kid, ppid |-> ppid, name |-> name]
    BY <1>6, <1>14, <1>15, <1>16, CleanCarried
  <2>2. name \notin NamesOf(tree)
    BY <1>11, <1>13, <1>14 DEF Request
  <2> QED
    BY <2>1, <2>2
<1>20. \A m \in {x \in {new[k] : k \in 1..Len(new)} : x.pid = n.pid /\ x.name = n.name} : NewNode(m)
  BY <1>12, <1>17, <1>18, <1>19 DEF NewNode
<1>21. \A k \in 1..Len(tree') :
         \/ \E j \in 1..Len(tree) : tree'[k] = tree[j]
         \/ tree'[k].pid = n.pid /\ NewNode(tree'[k])
  <2> SUFFICES ASSUME NEW k \in 1..Len(new)
               PROVE  \/ \E j \in 1..Len(tree) : new[k] = tree[j]
                      \/ new[k].pid = n.pid /\ NewNode(new[k])
    BY <1>2
  <2>1. new[k].pid = n.pid /\ new[k].name = n.name => NewNode(new[k])
    BY <1>20
  <2> QED
    BY <1>9, <2>1
<1>22. \A x \in Pid : pc'[x] = pc[x] \/ (x = PM /\ pc[x] \in Managing /\ pc'[x] \in Managing)
  BY <1>5 DEF Managing, ManagerPoints
<1> QED
  BY <1>4, <1>5, <1>21, <1>22 DEF TreeChanges

LEMMA RemoveChanges ==
  ASSUME Estate, pc[PM] = "handle", lib[PM].at = "ret", lib[PM].msg # NULL,
         msg_remove_handler(PM, lib[PM].msg)
  PROVE  tree' = tree \/ TreeChanges
<1> USE DEF Estate, House
<1>0. TypeInv /\ PM \in Pid
  BY PidFacts DEF CalmInv
<1>1. PICK q, new : q = lib[PM].msg.sender /\ new = tree'
  OBVIOUS
<1>2. ~CanRemove(tree, q) => new = tree
  BY <1>1 DEF msg_remove_handler, tree
<1> SUFFICES ASSUME CanRemove(tree, q) PROVE TreeChanges
  BY <1>1, <1>2
<1>3. PICK l : Goto(PM, "towait", l, mem[PM]) /\ UNCHANGED nextPid
  BY DEF msg_remove_handler, Answer
<1>4. /\ pc'[PM] = "towait" /\ mem' = mem
      /\ \A x \in Pid \ {PM} : pc'[x] = pc[x]
  BY <1>0, <1>3, Shape DEF Goto
<1>5. new = proc_node_remove(tree, q)
  <2>1. trees' = [trees EXCEPT ![PM] = proc_node_remove(trees[PM], q)]
    BY <1>1 DEF msg_remove_handler, tree
  <2> QED
    BY <1>0, <1>1, <2>1 DEF tree, TypeInv, ManagerInv
<1>6. \A k \in 1..Len(new) : \E j \in 1..Len(tree) : new[k] = tree[j]
  BY <1>0, <1>5, TreeTyped, RemovedKeeps
<1>7. \A x \in Pid : pc'[x] = pc[x] \/ (x = PM /\ pc[x] \in Managing /\ pc'[x] \in Managing)
  BY <1>4 DEF Managing, ManagerPoints
<1> QED
  BY <1>1, <1>3, <1>4, <1>6, <1>7 DEF TreeChanges

\* The tree changes only when pmanager serves a request to add or to remove a process.
LEMMA TreeStep ==
  ASSUME Estate, [MailStep]_vars
  PROVE  tree' = tree \/ TreeChanges
<1>0. CalmInv
  BY DEF Estate, House
<1>1. CASE UNCHANGED vars
  BY <1>1 DEF vars, managerVars, tree
<1>2. CASE MailStep
  <2>1. \A p \in Pid : ~CopyCleansUp(p)
    BY <1>2 DEF MailStep, Incident
  <2>2. CASE UserStep
    BY <1>0, <2>2, UserPlain DEF UserStep
  <2>3. ASSUME NEW p \in Pid, ProcessStep(p)
        PROVE  tree' = tree \/ TreeChanges
    <3>1. CASE UNCHANGED managerVars
      BY <3>1 DEF managerVars, tree
    <3>2. CASE ManagerStep(p) /\ ~message_handler(p)
      BY <1>0, <2>1, <3>2, ManagerPlain
    <3>3. CASE message_handler(p)
      <4>1. p = PM /\ pc[PM] = "handle" /\ lib[PM].at = "ret"
        BY <3>3, Serves DEF Estate, House, message_handler, Ready
      <4>2. CASE lib[PM].msg # NULL /\ lib[PM].msg.type = MSG_ADD
        <5>1. msg_add_handler(PM, lib[PM].msg)
          BY <3>3, <4>1, <4>2, Types DEF message_handler
        <5> QED
          BY <4>1, <4>2, <5>1, AddChanges
      <4>3. CASE lib[PM].msg # NULL /\ lib[PM].msg.type = MSG_REMOVE
        <5>1. msg_remove_handler(PM, lib[PM].msg)
          BY <3>3, <4>1, <4>3, Types, AtomAssumption DEF message_handler
        <5> QED
          BY <4>1, <4>3, <5>1, RemoveChanges
      <4>4. CASE lib[PM].msg # NULL => lib[PM].msg.type \notin {MSG_ADD, MSG_REMOVE}
        <5>1. trees' = trees
          BY <3>3, <4>1, <4>4
          DEF message_handler, msg_info_handler, msg_list_handler, SendNode, managerVars
        <5> QED
          BY <5>1 DEF tree
      <4> QED
        BY <4>2, <4>3, <4>4
    <3> QED
      BY <2>3, <3>1, <3>2, <3>3 DEF ProcessStep
  <2>4. ASSUME NEW p \in Pid, SignalStep(p)
        PROVE  tree' = tree
    <3>1. ~DieOfInterrupt(p)
      BY <1>0 DEF CalmInv, Order, Discipline, NoInterrupt, DieOfInterrupt, Dying, Interrupted
    <3>2. ((set_unread_flag(p) \/ ChildSignal(p)) /\ UNCHANGED trees) \/ terminate(p)
      BY <2>4, <3>1 DEF SignalStep, managerVars
    <3> QED
      BY <1>0, <3>2, SignalPlain
  <2> QED
    BY <1>2, <2>2, <2>3, <2>4 DEF MailStep, Next, Incident
<1> QED
  BY <1>1, <1>2

-----------------------------------------------------------------------------
(***************************************************************************)
(* Names without delimiters.                                               *)
(***************************************************************************)
LEMMA NextIsClean ==
  ASSUME TypeInv, NEW p \in Pid, CleanName(mem[p].name)
  PROVE  CleanName(NextName(p)) /\ NextName(p) # <<>>
<1>1. mem[p].clones_count + 1 \in Nat /\ mem[p].name \in Str
  BY Shape DEF SoundMem, MemType
<1>2. ASSUME NEW s \in Seq(Atom), NEW n \in Nat, CleanName(s)
      PROVE  CleanName(Append(s, n)) /\ Append(s, n) # <<>>
  <2>1. /\ Len(Append(s, n)) = Len(s) + 1 /\ Len(s) \in Nat
        /\ \A i \in 1..(Len(s) + 1) : Append(s, n)[i] = IF i = Len(s) + 1 THEN n ELSE s[i]
    BY <1>2, AtomFacts
  <2>2. n \notin {Colon, Semi}
    BY <1>2, AtomAssumption
  <2>3. \A i \in 1..(Len(s) + 1) : Append(s, n)[i] \notin {Colon, Semi}
    BY <1>2, <2>1, <2>2 DEF CleanName
  <2> QED
    BY <2>1, <2>3 DEF CleanName
<1> QED
  BY <1>1, <1>2 DEF NextName, CloneName, Str

LEMMA CleanStep ==
  ASSUME CleanScript, TypeInv, CleanProcs, NamesStep
  PROVE  CleanProcs'
<1> SUFFICES ASSUME NEW x \in Pid
             PROVE  Tidy(mem'[x].name) /\ (pc'[x] \in Nameful => mem'[x].name # <<>>)
  BY DEF CleanProcs
<1>1. \A p \in Pid : Tidy(mem[p].name) /\ (pc[p] \in Nameful => mem[p].name # <<>>)
  BY DEF CleanProcs
<1>2. CASE KeepsName(x)
  BY <1>1, <1>2 DEF KeepsName
<1>3. CASE mem'[x].name = <<>> /\ pc'[x] \in Gone
  BY <1>3 DEF Tidy, Gone, Nameful, Belonging, ChildPoints
<1>4. CASE x = PM /\ mem'[x].name = pmanager /\ pc'[x] \in Managing
  BY <1>4, NameAssumption DEF Tidy, Managing, ManagerPoints, Nameful, Belonging, ChildPoints
<1>5. CASE GetsName(x)
  <2>1. CASE pc'[x] \notin Nameful /\ Tidy(mem'[x].name)
    BY <2>1
  <2>2. ASSUME NEW p \in Pid, mem'[x].name = mem[p].name, pc'[x] \in Nameful => pc[p] \in Nameful
        PROVE  Tidy(mem'[x].name) /\ (pc'[x] \in Nameful => mem'[x].name # <<>>)
    BY <1>1, <2>2
  <2>3. ASSUME NEW p \in Pid, mem'[x].name = NextName(p), pc[p] \in Belonging
        PROVE  Tidy(mem'[x].name) /\ mem'[x].name # <<>>
    <3>1. CleanName(mem[p].name)
      BY <1>1, <2>3 DEF Tidy, Nameful
    <3> QED
      BY <2>3, <3>1, NextIsClean DEF Tidy
  <2> QED
    BY <1>5, <2>1, <2>2, <2>3 DEF GetsName
<1> QED
  BY <1>2, <1>3, <1>4, <1>5 DEF NamesStep, HasName

LEMMA ManagerNameStep ==
  ASSUME CalmInv, ManagerNamed, NamesStep
  PROVE  ManagerNamed'
<1> SUFFICES ASSUME pc'[PM] \in Managing PROVE mem'[PM].name = pmanager
  BY DEF ManagerNamed
<1>1. /\ PM \in Pid /\ HasName(PM) /\ nextPid # PM
      /\ pc[PM] \in Managing \/ pc[PM] \in Gone
  BY PidFacts DEF NamesStep, CalmInv, Order, Discipline, OneManager, Gone
<1>2. pc'[PM] \notin Gone
  BY DEF Managing, ManagerPoints, Gone
<1>3. CASE KeepsName(PM)
  BY <1>1, <1>2, <1>3 DEF KeepsName, ManagerNamed
<1> QED
  BY <1>1, <1>2, <1>3 DEF HasName, GetsName

LEMMA NodesNameStep ==
  ASSUME Estate, CleanProcs, NodesNamed, NamesStep, tree' = tree \/ TreeChanges
  PROVE  NodesNamed'
<1> USE DEF Estate, House
<1>0. TypeInv /\ tree \in Seq(TreeNode)
  BY TreeTyped DEF CalmInv
<1>1. \A i \in 1..Len(tree) : tree[i].pid \in Pid /\ tree[i].pid # nextPid
  <2>1. \A i \in 1..Len(tree) : tree[i].pid \in Pid /\ tree[i].pid < nextPid
    BY DEF RequestInv, NodesForked
  <2> QED
    BY <1>0, <2>1, PidFacts, NumberFacts
<1>2. ASSUME NEW i \in 1..Len(tree), NEW q, q = tree[i].pid, pc'[q] \in Belonging
      PROVE  mem'[q].name = tree[i].name
  <2>1. q \in Pid /\ q # nextPid /\ HasName(q)
    BY <1>1, <1>2 DEF NamesStep
  <2>2. KeepsName(q)
    BY <1>2, <2>1 DEF HasName, GetsName, Belonging, ChildPoints, Gone, Managing, ManagerPoints
  <2> QED
    BY <1>2, <2>2 DEF KeepsName, NodesNamed
<1> SUFFICES ASSUME NEW new, new = tree', NEW i \in 1..Len(new), NEW q, q = new[i].pid,
                    pc'[q] \in Belonging
             PROVE  mem'[q].name = new[i].name
  BY DEF NodesNamed
<1>3. CASE \E j \in 1..Len(tree) : new[i] = tree[j]
  BY <1>2, <1>3
<1>4. CASE tree' = tree
  BY <1>2, <1>4
<1>5. CASE TreeChanges /\ NewNode(new[i])
  <2>1. q \in Pid /\ pc[q] \in Belonging /\ mem' = mem
    BY <1>5 DEF NewNode, TreeChanges
  <2>2. CleanName(mem[q].name)
    BY <2>1 DEF CleanProcs, Nameful, Tidy
  <2> QED
    BY <1>5, <2>1, <2>2 DEF NewNode
<1> QED
  BY <1>3, <1>4, <1>5 DEF TreeChanges

\* Two nodes of the new tree with the same name, both of which are old or new.
LEMMA UniqueStep ==
  ASSUME Estate, CleanProcs, NamesUnique, tree' = tree \/ TreeChanges, Rooted'
  PROVE  NamesUnique'
<1>1. CASE tree' = tree
  BY <1>1 DEF NamesUnique
<1>2. CASE TreeChanges
  <2>1. PICK new, pid :
          /\ new = tree'
          /\ \A k \in 1..Len(new) :
               \/ \E j \in 1..Len(tree) : new[k] = tree[j]
               \/ new[k].pid = pid /\ NewNode(new[k])
    BY <1>2 DEF TreeChanges
  <2>2. \A k, j \in 1..Len(new) : new[k].pid = new[j].pid => k = j
    BY <2>1 DEF Rooted
  <2>3. \A n : NewNode(n) => n.name \notin NamesOf(tree)
    BY DEF NewNode, CleanProcs, Nameful, Tidy
  <2>4. ASSUME NEW k \in 1..Len(new), NEW j \in 1..Len(new), new[k].name = new[j].name
        PROVE  new[k].pid = new[j].pid
    <3>1. CASE /\ \E a \in 1..Len(tree) : new[k] = tree[a]
               /\ \E b \in 1..Len(tree) : new[j] = tree[b]
      BY <2>4, <3>1 DEF NamesUnique
    <3>2. \A h \in 1..Len(new) :
            (\E a \in 1..Len(tree) : new[h] = tree[a]) => new[h].name \in NamesOf(tree)
      BY DEF NamesOf
    <3> QED
      BY <2>1, <2>3, <2>4, <3>1, <3>2
  <2> QED
    BY <2>1, <2>2, <2>4 DEF NamesUnique
<1> QED
  BY <1>1, <1>2

-----------------------------------------------------------------------------
(***************************************************************************)
(* Whatever is typed.                                                      *)
(***************************************************************************)
\* A node keeps the name it was added under, and no process is given the name of
\* another node.
LEMMA GivenStep ==
  ASSUME Estate, ManagerNamed, GivenNamesUnique, NamesStep, tree' = tree \/ TreeChanges,
         Rooted', TypeInv'
  PROVE  GivenNamesUnique'
<1> USE DEF Estate, House
<1> DEFINE Given(n) == mem[n.pid].name = n.name
<1>0. TypeInv /\ tree \in CleanTree /\ tree' \in CleanTree
  <2>1. TypeInv
    BY DEF CalmInv
  <2>2. tree' \in CleanTree
    BY PidFacts DEF tree, TypeInv, ManagerInv
  <2> QED
    BY <2>1, <2>2, TreeTyped
<1>1. \A i \in 1..Len(tree) : tree[i].pid \in Pid /\ tree[i].pid # nextPid /\ tree[i].name # <<>>
  <2>1. \A i \in 1..Len(tree) : tree[i].pid \in Pid /\ tree[i].pid < nextPid
    BY DEF RequestInv, NodesForked
  <2>2. \A i \in 1..Len(tree) : tree[i].name # <<>>
    BY <1>0 DEF CleanTree, CleanName
  <2> QED
    BY <1>0, <2>1, <2>2, PidFacts, NumberFacts
<1>2. ASSUME NEW i \in 1..Len(tree), NEW q, q = tree[i].pid, mem'[q].name = tree[i].name
      PROVE  mem[q].name = tree[i].name
  <2>1. q \in Pid /\ q # nextPid /\ HasName(q) /\ mem'[q].name # <<>>
    BY <1>1, <1>2 DEF NamesStep
  <2>2. CASE KeepsName(q)
    BY <1>2, <2>2 DEF KeepsName
  <2>3. CASE q = PM /\ pc[q] \in Managing /\ mem'[q].name = pmanager
    BY <1>2, <2>3 DEF ManagerNamed
  <2> QED
    BY <2>1, <2>2, <2>3 DEF HasName, GetsName
<1>3. PICK new, newMem : new = tree' /\ newMem = mem'
  OBVIOUS
<1>4. ASSUME NEW k \in 1..Len(new), newMem[new[k].pid].name = new[k].name,
             NEW j \in 1..Len(new), newMem[new[j].pid].name = new[j].name,
             new[k].name = new[j].name
      PROVE  k = j
  <2>1. CASE new = tree
    <3>1. mem[tree[k].pid].name = tree[k].name /\ mem[tree[j].pid].name = tree[j].name
      BY <1>2, <1>3, <1>4, <2>1
    <3> QED
      BY <1>4, <2>1, <3>1 DEF GivenNamesUnique
  <2>2. CASE TreeChanges
    <3>1. PICK pid : \A h \in 1..Len(new) :
            \/ \E a \in 1..Len(tree) : new[h] = tree[a]
            \/ new[h].pid = pid /\ NewNode(new[h])
      BY <1>3, <2>2 DEF TreeChanges
    <3>2. newMem = mem
      BY <1>3, <2>2 DEF TreeChanges
    <3>3. \A h \in 1..Len(new) : CleanName(new[h].name)
      BY <1>0, <1>3 DEF CleanTree
    <3>4. \A h \in {k, j} : NewNode(new[h]) => new[h].name \notin NamesOf(tree)
      BY <1>4, <3>2, <3>3 DEF NewNode
    <3>5. \A h \in 1..Len(new) :
            (\E a \in 1..Len(tree) : new[h] = tree[a]) => new[h].name \in NamesOf(tree)
      BY DEF NamesOf
    <3>6. new[k].pid = new[j].pid
      <4>1. CASE /\ \E a \in 1..Len(tree) : new[k] = tree[a]
                 /\ \E b \in 1..Len(tree) : new[j] = tree[b]
        <5>1. PICK a \in 1..Len(tree), b \in 1..Len(tree) : new[k] = tree[a] /\ new[j] = tree[b]
          BY <4>1
        <5>2. a = b
          BY <1>4, <3>2, <5>1 DEF GivenNamesUnique
        <5> QED
          BY <5>1, <5>2
      <4> QED
        BY <1>4, <3>1, <3>4, <3>5, <4>1
    <3> QED
      BY <1>3, <3>6 DEF Rooted
  <2> QED
    BY <1>3, <2>1, <2>2
<1> QED
  BY <1>3, <1>4 DEF GivenNamesUnique

LEMMA InitNames ==
  Init => CleanProcs /\ ManagerNamed /\ NodesNamed /\ NamesUnique /\ GivenNamesUnique
<1> SUFFICES ASSUME Init
             PROVE  CleanProcs /\ ManagerNamed /\ NodesNamed /\ NamesUnique /\ GivenNamesUnique
  OBVIOUS
<1>1. /\ PM \in Pid /\ pc[PM] = "readline" /\ \A p \in Pid : pc[p] \in {"readline", "unborn"}
      /\ mem[PM].name = pmanager /\ \A p \in Pid \ {PM} : mem[p].name = <<>>
  BY PidFacts DEF Init, NewCommand, BlankMem
<1>2. Len(tree) = 1 /\ tree[1].pid = PM
  BY <1>1 DEF Init, tree, RootOnly, Node
<1>3. CleanProcs
  BY <1>1, NameAssumption DEF CleanProcs, Tidy, Nameful, Belonging, ChildPoints
<1>4. NodesNamed
  BY <1>1, <1>2 DEF NodesNamed, Belonging, ChildPoints
<1>5. NamesUnique /\ GivenNamesUnique
  BY <1>2 DEF NamesUnique, GivenNamesUnique
<1> QED
  BY <1>1, <1>3, <1>4, <1>5 DEF ManagerNamed

LEMMA NamesHold ==
  ASSUME PoliteScript, CleanScript
  PROVE  MailSpec => [](Estate /\ CleanProcs /\ NodesNamed /\ NamesUnique)
<1>1. Estate /\ CleanProcs /\ NodesNamed /\ NamesUnique /\ [MailStep]_vars /\ Estate'
      => (CleanProcs /\ NodesNamed /\ NamesUnique)'
  <2> SUFFICES ASSUME Estate, CleanProcs, NodesNamed, NamesUnique, [MailStep]_vars, Estate'
               PROVE  (CleanProcs /\ NodesNamed /\ NamesUnique)'
    OBVIOUS
  <2>1. CalmInv /\ TypeInv /\ Rooted'
    BY DEF Estate, House, CalmInv
  <2>2. NamesStep /\ (tree' = tree \/ TreeChanges)
    BY <2>1, NameStep, TreeStep
  <2> QED
    BY <2>1, <2>2, CleanStep, NodesNameStep, UniqueStep
<1> QED
  BY <1>1, EntryInvHolds, InitNames, PTL DEF MailSpec, MailStep

\* However the questions whether a name is taken and the requests to add it
\* interleave, no two processes of the tree have the same name, unless a name with a
\* delimiter in it has been typed.
THEOREM NamesDiffer ==
  ASSUME PoliteScript, CleanScript
  PROVE  MailSpec => []NamesUnique
BY NamesHold, PTL

\* A node is called what its process is called.
LEMMA CleanInfo == Estate /\ CleanProcs => InfoCurrent
<1> SUFFICES ASSUME Estate, CleanProcs, NEW p \in Pid, Ready(p, "popen"),
                    mem[p].peer \notin {Pending, EndOfFile}
             PROVE  \E i \in 1..Len(tree) : tree[i].name = mem[p].name /\ tree[i].pid = mem[p].peer
  BY DEF InfoCurrent
<1>1. pc[p] = "popen" /\ Current(p)
  BY DEF Ready, Estate, EntryInv
<1>2. CleanName(mem[p].name)
  BY <1>1 DEF CleanProcs, Nameful, Tidy
<1> QED
  BY <1>1, <1>2 DEF Current, Entered

\* The pid that pinfo has printed is still that of the process looked for when pclose
\* or pspawn sends it a signal, unless a name with a delimiter in it has been typed.
THEOREM InfoHolds ==
  ASSUME PoliteScript, CleanScript
  PROVE  MailSpec => []InfoCurrent
BY NamesHold, CleanInfo, PTL

LEMMA CleanListable ==
  ASSUME NEW p \in Pid, NEW name \in Str, CleanName(name)
  PROVE  ~Unlistable(p, name)
<1> SUFFICES ASSUME NEW q \in Pid, NEW type, type = MSG_ADD, NEW pm, pm = PM,
                    NEW content, content = proc_node_tostr(p, pm, name),
                    NEW msg, msg = MessageOf(MessageText(q, type, content)), msg # NULL
             PROVE  proc_node_fromstr(msg.content) # NULL
  BY DEF Unlistable
<1>1. p \in Nat /\ pm \in Nat /\ q \in Nat /\ type \in MsgType
  BY PidFacts DEF MsgType
<1>2. content \in Str
  BY <1>1, AtomFacts, TextTypes
<1> HIDE DEF PM
<1>3. proc_node_fromstr(msg.content) = [pid |-> p, ppid |-> pm, name |-> name]
  BY <1>1, <1>2, CleanCarried
<1>4. [pid |-> p, ppid |-> pm, name |-> name] \in ProcInfo
  BY <1>1 DEF ProcInfo
<1> QED
  BY <1>3, <1>4, NullRecordAssumption

LEMMA CleanAccurate == Estate /\ CleanProcs /\ NodesNamed => TreeAccurate
<1> SUFFICES ASSUME Estate, CleanProcs, NodesNamed, pc[PM] = "readline"
             PROVE  /\ \A p \in Pid \ {PM} : Managed(p) /\ pc[p] # "term_done" => p \in Pids(tree)
                    /\ \A i \in 2..Len(tree) : pc[tree[i].pid] # "killed" =>
                         /\ Managed(tree[i].pid)
                         /\ mem[tree[i].pid].name = tree[i].name
  BY DEF TreeAccurate
<1>0. TypeInv /\ Len(tree) \in Nat
  BY TreeTyped DEF Estate, House, CalmInv
<1>1. ASSUME NEW p \in Pid \ {PM}, Managed(p), pc[p] # "term_done"
      PROVE  p \in Pids(tree)
  <2>1. pc[p] \in Belonging \ {"term_done"}
    BY <1>1 DEF Managed, Belonging
  <2>2. CleanName(mem[p].name) /\ mem[p].name \in Str
    BY <1>0, <2>1, Contents DEF CleanProcs, Nameful, Tidy
  <2>3. InTree(p)
    BY <2>1, PromptListed
  <2> QED
    BY <2>2, <2>3, CleanListable DEF InTree
<1>2. ASSUME NEW i \in 2..Len(tree), pc[tree[i].pid] # "killed"
      PROVE  Managed(tree[i].pid) /\ mem[tree[i].pid].name = tree[i].name
  <2>1. pc[tree[i].pid] \in Belonging
    BY <1>2 DEF Estate, House, KinInv, KinInTree, Belonging
  <2>2. i \in 1..Len(tree)
    BY <1>0
  <2> QED
    BY <2>1, <2>2 DEF NodesNamed, Managed, Belonging
<1> QED
  BY <1>1, <1>2

\* At the prompt the tree and the living processes agree, although neither adding nor
\* removing a process is one step.
THEOREM TreeIsAccurate ==
  ASSUME PoliteScript, CleanScript
  PROVE  MailSpec => []TreeAccurate
BY NamesHold, CleanAccurate, PTL

\* Whatever is typed, two nodes with the same name are not both called what their
\* processes are.
THEOREM GivenNamesDiffer ==
  ASSUME PoliteScript
  PROVE  MailSpec => []GivenNamesUnique
<1>1. Estate /\ ManagerNamed /\ GivenNamesUnique /\ [MailStep]_vars /\ Estate'
      => (ManagerNamed /\ GivenNamesUnique)'
  <2> SUFFICES ASSUME Estate, ManagerNamed, GivenNamesUnique, [MailStep]_vars, Estate'
               PROVE  (ManagerNamed /\ GivenNamesUnique)'
    OBVIOUS
  <2>1. CalmInv /\ TypeInv' /\ Rooted'
    BY DEF Estate, House, CalmInv
  <2>2. NamesStep /\ (tree' = tree \/ TreeChanges)
    BY <2>1, NameStep, TreeStep
  <2> QED
    BY <2>1, <2>2, ManagerNameStep, GivenStep
<1> QED
  BY <1>1, EntryInvHolds, InitNames, PTL DEF MailSpec, MailStep
=============================================================================
