-------------------------- MODULE LifecycleProofs --------------------------
(***************************************************************************)
(* Proofs about module Lifecycle, for any set of shells, started one after *)
(* the other or at once: however many are refused and killed, no shell     *)
(* that ends by itself leaves its FIFO behind, and nothing but the         *)
(* unlink() of another one takes the FIFO from a shell that serves.        *)
(***************************************************************************)
EXTENDS Lifecycle, TLAPS

\* What OnlyUnlinkParts rests on: from mkfifo() on the name is that of the shell
\* as long as nobody else has unlinked it, and never again afterwards.
Held ==
  \A s \in Shell \ bereft :
    /\ point[s] \in Holding => name = s
    /\ point[s] \in Holding \ {"open"} => fifo_fd[s] = s

Gone == \A s \in bereft : name # s /\ point[s] \notin {"idle", "args", "mkfifo"}

IInv == TypeOK /\ Held /\ Gone

-----------------------------------------------------------------------------
\* Every variable holds what main() can put there.
THEOREM TypeCorrect == Spec => []TypeOK
<1> USE LifecycleAssumption DEF TypeOK, Points, Running, Holding
<1>1. Init => TypeOK
  BY DEF Init
<1>2. TypeOK /\ [Next]_vars => TypeOK'
  <2> SUFFICES ASSUME TypeOK, [Next]_vars PROVE TypeOK'
    OBVIOUS
  <2>1. CASE UNCHANGED vars
    BY <2>1 DEF vars
  <2>2. ASSUME NEW s \in Shell, Start(s) PROVE TypeOK'
    BY <2>2 DEF Start, Goto
  <2>3. ASSUME NEW s \in Shell, Step(s) PROVE TypeOK'
    BY <2>3 DEF Step, CheckArguments, MakeFifo, OpenFifo, SetUp, Quit, PrmallEnded, Unlink, Fail, Goto
  <2>4. ASSUME NEW s \in Shell, Killed(s) PROVE TypeOK'
    BY <2>4 DEF Killed, Goto
  <2>5. QED
    BY <2>1, <2>2, <2>3, <2>4 DEF Next
<1>3. QED
  BY <1>1, <1>2, PTL DEF Spec

-----------------------------------------------------------------------------
\* A FIFO left in the directory belongs to a shell that still runs or was
\* killed.
THEOREM FifoIsOwned == Spec => []FifoOwned
<1> USE LifecycleAssumption DEF TypeOK, FifoOwned, Points, Running
<1>1. Init => FifoOwned
  BY DEF Init
<1>2. TypeOK /\ FifoOwned /\ [Next]_vars => FifoOwned'
  <2> SUFFICES ASSUME TypeOK, FifoOwned, [Next]_vars PROVE FifoOwned'
    OBVIOUS
  <2>1. CASE UNCHANGED vars
    BY <2>1 DEF vars
  <2>2. ASSUME NEW s \in Shell, Start(s) PROVE FifoOwned'
    BY <2>2 DEF Start, Goto
  <2>3. ASSUME NEW s \in Shell, Step(s) PROVE FifoOwned'
    <3>1. CASE Unlink(s)
      BY <3>1 DEF Unlink
    <3>2. CASE MakeFifo(s)
      BY <3>2 DEF MakeFifo, Fail, Goto
    <3>3. CASE CheckArguments(s) \/ OpenFifo(s) \/ SetUp(s) \/ Quit(s) \/ PrmallEnded(s)
      BY <3>3 DEF CheckArguments, OpenFifo, SetUp, Quit, PrmallEnded, Fail, Goto
    <3>4. QED
      BY <2>3, <3>1, <3>2, <3>3 DEF Step
  <2>4. ASSUME NEW s \in Shell, Killed(s) PROVE FifoOwned'
    BY <2>4 DEF Killed, Goto
  <2>5. QED
    BY <2>1, <2>2, <2>3, <2>4 DEF Next
<1>3. QED
  BY <1>1, <1>2, TypeCorrect, PTL DEF Spec

-----------------------------------------------------------------------------
\* A step of one shell leaves the others where they are.
LEMMA OthersStay ==
  ASSUME TypeOK, NEW s \in Shell, Start(s) \/ Step(s) \/ Killed(s),
         NEW t \in Shell, t # s
  PROVE  point'[t] = point[t] /\ fifo_fd'[t] = fifo_fd[t]
  BY DEF TypeOK, Start, Step, CheckArguments, MakeFifo, OpenFifo, SetUp, Quit, PrmallEnded,
         Unlink, Killed, Fail, Goto

\* Only mkfifo() gives the FIFO its name, and only unlink() takes it.
LEMMA NameKept ==
  ASSUME TypeOK, NEW s \in Shell, Start(s) \/ Step(s) \/ Killed(s)
  PROVE  \/ name' = name /\ bereft' = bereft
         \/ name = NoFifo /\ name' = s /\ bereft' = bereft /\ point[s] = "mkfifo" /\ point'[s] = "open"
         \/ Unlink(s)
  BY DEF TypeOK, Start, Step, CheckArguments, MakeFifo, OpenFifo, SetUp, Quit, PrmallEnded,
         Killed, Fail, Goto

\* A shell that has lost its FIFO goes on, but not back to mkfifo().
LEMMA GoesOn ==
  ASSUME TypeOK, NEW s \in Shell, Start(s) \/ Step(s) \/ Killed(s),
         point[s] \notin {"idle", "args", "mkfifo"}
  PROVE  point'[s] \notin {"idle", "args", "mkfifo"}
  BY DEF TypeOK, Start, Step, CheckArguments, MakeFifo, OpenFifo, SetUp, Quit, PrmallEnded,
         Unlink, Killed, Fail, Goto

\* What the shell that steps holds, it still holds.
LEMMA HeldByStepper ==
  ASSUME TypeOK, Held, NEW s \in Shell \ bereft, Start(s) \/ Step(s) \/ Killed(s)
  PROVE  /\ point'[s] \in Holding => name' = s
         /\ point'[s] \in Holding \ {"open"} => fifo_fd'[s] = s
<1> USE DEF TypeOK, Held, Holding, Goto, Fail
<1>1. CASE Start(s) \/ Killed(s)
  BY <1>1 DEF Start, Killed
<1>2. CASE CheckArguments(s) \/ MakeFifo(s)
  BY <1>2 DEF CheckArguments, MakeFifo
<1>3. CASE OpenFifo(s)
  BY <1>3 DEF OpenFifo
<1>4. CASE SetUp(s) \/ Quit(s) \/ PrmallEnded(s) \/ Unlink(s)
  BY <1>4 DEF SetUp, Quit, PrmallEnded, Unlink
<1>5. QED
  BY <1>1, <1>2, <1>3, <1>4 DEF Step

\* A serving shell is out of the reach of its commands if and only if another
\* shell has unlinked the name since its mkfifo().
THEOREM UnlinkParts == Spec => []OnlyUnlinkParts
<1>1. Init => IInv
  BY LifecycleAssumption DEF Init, IInv, TypeOK, Held, Gone, Points, Holding
<1>2. TypeOK' /\ IInv /\ [Next]_vars => IInv'
  <2> SUFFICES ASSUME TypeOK', IInv, [Next]_vars PROVE Held' /\ Gone'
    BY DEF IInv
  <2> USE DEF IInv
  <2>1. CASE UNCHANGED vars
    BY <2>1 DEF Held, Gone, vars
  <2>2. ASSUME NEW s \in Shell, Start(s) \/ Step(s) \/ Killed(s)
        PROVE  Held' /\ Gone'
    <3>1. bereft \subseteq bereft'
      BY <2>2, NameKept DEF Unlink
    <3>2. Held'
      <4> SUFFICES ASSUME NEW t \in Shell, t \notin bereft'
                   PROVE  /\ point'[t] \in Holding => name' = t
                          /\ point'[t] \in Holding \ {"open"} => fifo_fd'[t] = t
        BY DEF Held
      <4>1. CASE t = s
        BY <2>2, <3>1, <4>1, HeldByStepper
      <4>2. CASE t # s
        <5>1. point'[t] = point[t] /\ fifo_fd'[t] = fifo_fd[t]
          BY <2>2, <4>2, OthersStay
        <5>2. point[t] \in Holding => name' = name
          BY <2>2, <3>1, <4>2, NameKept, LifecycleAssumption DEF Held, Unlink
        <5>3. QED
          BY <3>1, <5>1, <5>2 DEF Held, Holding
      <4>3. QED
        BY <4>1, <4>2
    <3>3. Gone'
      <4> SUFFICES ASSUME NEW t \in Shell, t \in bereft'
                   PROVE  name' # t /\ point'[t] \notin {"idle", "args", "mkfifo"}
        BY DEF Gone, TypeOK
      <4>1. CASE t \in bereft
        <5>1. point'[t] \notin {"idle", "args", "mkfifo"}
          BY <2>2, <4>1, GoesOn, OthersStay DEF Gone
        <5>2. name' # t
          BY <2>2, <4>1, NameKept, LifecycleAssumption DEF Gone, Unlink
        <5>3. QED
          BY <5>1, <5>2
      <4>2. CASE t \notin bereft
        <5>1. Unlink(s)
          BY <2>2, <4>2, NameKept
        <5>2. t # s /\ point[t] \in Holding /\ name' = NoFifo
          BY <4>2, <5>1 DEF Unlink
        <5>3. QED
          BY <2>2, <5>2, OthersStay, LifecycleAssumption DEF Holding
      <4>3. QED
        BY <4>1, <4>2
    <3>4. QED
      BY <3>2, <3>3
  <2>3. QED
    BY <2>1, <2>2 DEF Next
<1>3. IInv => OnlyUnlinkParts
  BY DEF IInv, Held, Gone, OnlyUnlinkParts, Reachable, Holding, TypeOK
<1>4. QED
  BY <1>1, <1>2, <1>3, TypeCorrect, PTL DEF Spec
=============================================================================
